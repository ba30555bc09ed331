CONSTANTS
  Fill <- MCFill
  Starts <- MCStarts
  StartPc = 36860
  Rom <- MCRom
  Seams = {36864}
  Opcodes <- MCOpcodes
  Follow <- MCFollow
  Operands <- MCOperands
  Durations = {1, 32767}
  MaxSteps = 2
SPECIFICATION Spec
CHECK_DEADLOCK FALSE
INVARIANTS SameMachine ClocksAgree
