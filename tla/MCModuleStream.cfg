SPECIFICATION Spec
CONSTANTS
    Starts = 1
    Commands = {c1}
    Media = media
    None = none
INVARIANT CallbackSafe
PROPERTIES CleanupCompletes HangupEndsStream ErrorRemovesBug
CHECK_DEADLOCK FALSE
