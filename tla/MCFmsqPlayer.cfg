SPECIFICATION FairSpec
CONSTANTS
  Files <- AllFiles
  MaxFrames = 3
INVARIANTS TypeOK PlayingHasData
PROPERTIES TickVerdict TickProgress TickReturns
