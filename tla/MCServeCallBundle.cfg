SPECIFICATION Spec
CONSTANTS
    Sessions = {s1, s2}
    UUIDs = {u1}
    Buf = 1
    MaxFrames = 1
    MaxNotes = 0
    MaxRemovals = 1
    Fallible = {"wav", "meta"}
    None = None
INVARIANT UndisturbedBundleIsWhole
SYMMETRY Perms
CHECK_DEADLOCK FALSE
