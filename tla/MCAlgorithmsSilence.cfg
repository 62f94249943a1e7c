SPECIFICATION AlgSpec
CONSTANTS
    MaxText = 4
    MaxLost = 2
    MaxSamples = 5
    Block = 2
INVARIANT AgentTrackPaddedWithSilence
CHECK_DEADLOCK FALSE
