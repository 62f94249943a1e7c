SPECIFICATION Spec
CONSTANT Sessions = {s1}
INVARIANT DrainedAtExit
CHECK_DEADLOCK FALSE
