SPECIFICATION Spec
CONSTANTS
    Clients = {c1}
    Buf = 1
    Commands = {"invalid", "clear_playback", "hangup"}
    MaxFrames = 2
    MaxAsked = 1
    MaxCommands = 2
INVARIANTS AgentHearsCall RepliesAnswerCommands
PROPERTIES CallEndsForAll ClientsAreServed
CHECK_DEADLOCK FALSE
