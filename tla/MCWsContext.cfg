SPECIFICATION Spec
CONSTANTS
    Senders = {s1, s2}
    MaxSends = 2
    MaxQueue = 2
    MaxControl = 1
INVARIANTS WireInOrder WaitingHasFlush EndIsReported
PROPERTIES StopReturns
CHECK_DEADLOCK FALSE
