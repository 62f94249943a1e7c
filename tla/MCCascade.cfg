SPECIFICATION Spec
CONSTANTS
    EvCap = 1
    TtsCap = 1
    Chunks = 3
    MaxTurns = 2
    MaxSpeech = 1
INVARIANTS LiveReplyIsCancellable CancelledReplyStops
PROPERTIES CancelledReplyEnds CallEnds
CHECK_DEADLOCK FALSE
