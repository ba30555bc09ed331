SPECIFICATION StreamSpec
CONSTANTS
  BufSize = 4
  Lookahead = 2
  SilenceMax = 6
  InitialSilence = 4
  FadeBlock = 2
  FadeShift = 1
  Counts = {2, 6}
  Fades <- MCFades
  EmuMayEnd = TRUE
  MaxTime = 14
INVARIANTS Accounting SilenceIsSilent
PROPERTIES EndLosesNoSound CallsReturn
