SPECIFICATION Spec
CONSTANTS
  Offsets = {2, 21}
  Values = {7}
  MaxWaitFrames = 2
  FieldMod = 65536
  MaxPlays = 4
  MaxWrites = 2
INVARIANTS ShortFileIsSilent WholeTuneIsHeard
PROPERTIES ReplaysTheTune PlaysToTheEnd
CHECK_DEADLOCK FALSE
