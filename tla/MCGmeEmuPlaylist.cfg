CONSTANTS
    Unit = 4096
    Rate = 44100
    Groups = {1}
    Files <- MCFiles
    Playlists <- MCPlaylists
    Masks <- MCMasks
    Blocks = {2048}
    BankWrites <- MCBankWrites
    Overshoot = {0}
    BeyondTypes <- MCBeyond
    MaxLoads = 1
    MaxLists = 2
    MaxSettings = 0
    MaxStarts = 1
    MaxPlays = 1
SPECIFICATION Spec
CHECK_DEADLOCK FALSE
INVARIANT StartedTrackExists
