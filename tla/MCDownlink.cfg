SPECIFICATION Spec
CONSTANTS
    Frames <- MCFrames
    ClearText <- MCClearText
    MaxArrivals = 3
    UseCompression = TRUE
    Cap = 4
    Chunk = 3
    FrameSize = 2
    Rates = {1, 2}
    MaxPlayed = 3
INVARIANTS DeliversMessages AnswersByProtocol BuffersBounded AudioAccountedFor
PROPERTIES UnderrunMeansShort ClearSilences
CHECK_DEADLOCK FALSE
