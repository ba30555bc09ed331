SPECIFICATION Spec
CHECK_DEADLOCK FALSE
CONSTANTS
    Chips <- MCChips
    Tempos <- MCTempos
    Setups <- MCSetups
    Writes <- MCWrites
    Waits <- MCWaits
    MaxCalls = 3
    Probes <- MCProbes
INVARIANTS
    FramesHaveNoEffect
    EnabledMeansPlaying
    CountReadsIsExact
    DmcIrqOnTime
    SequencerKeepsTime
