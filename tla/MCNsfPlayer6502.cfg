SPECIFICATION Spec
CONSTANTS
  Files <- MCFiles
  Pages <- MCPages
  SramPages <- MCSram
  BankNumbers <- MCBanks
  NoFile = NoFile
  StackSize = 4
  Budget = 16
  MaxFrames = 2
INVARIANTS RtsFindsItsCaller StackEmptyBetweenCalls PlaysALoadedFile InitFindsInitialBanks TornPagesAreOfTheLastBank
PROPERTY EveryCallReturns
