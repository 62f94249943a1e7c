SPECIFICATION Spec
CONSTANTS
    Sessions = {s1, s2}
    UUIDs = {u1, u2}
    Buf = 1
    MaxFrames = 0
    MaxNotes = 1
    MaxRemovals = 0
    Fallible = {}
    None = None
INVARIANTS TimelineIsWhatBusAccepted NeverSendsOnClosed
PROPERTY EndIsAnnounced
CHECK_DEADLOCK FALSE
