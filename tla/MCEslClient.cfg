SPECIFICATION Spec
CONSTANTS
    Callers = {ctl, agent}
    EvCap = 1
    MaxCalls = 1
    MaxConns = 2
    MaxEvents = 2
    None = None
INVARIANTS RepliesStayOnConnection NoCommandInHandshake
PROPERTIES ReplyPassesEvents CloseStopsRun EveryCallReturns
CHECK_DEADLOCK FALSE
