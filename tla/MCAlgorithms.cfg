SPECIFICATION AlgSpec
CONSTANTS
    MaxText = 5
    MaxLost = 4
    MaxSamples = 5
    Block = 2
INVARIANTS Utf8IsRfc3629 TracksKeepTheirPlace
CHECK_DEADLOCK FALSE
