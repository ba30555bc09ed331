CONSTANTS
    Unit = 4096
    Rate = 44100
    Groups = {1, 8}
    Files <- MCFiles
    Playlists <- MCPlaylists
    Masks <- MCMasks
    Blocks = {2048, 6400}
    BankWrites <- MCBankWrites
    Overshoot = {0, 7}
    BeyondTypes <- MCBeyond
    MaxLoads = 2
    MaxLists = 1
    MaxSettings = 2
    MaxStarts = 2
    MaxPlays = 2
SPECIFICATION Spec
CHECK_DEADLOCK FALSE
INVARIANTS
    FramesFit
    KeepsTime
    NothingIsSkipped
    FailedLoadLeavesNothing
    BanksAreInRom
PROPERTIES
    VoicesFollowConfig
    PlayAdvances
