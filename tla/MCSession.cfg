SPECIFICATION Spec
CONSTANTS
    Senders = {resp, barge}
    Cap = 2
    MaxSends = 2
INVARIANTS
    AckedAccountedFor
    SenderOrderKept
    RecordedMatchesWire
PROPERTIES
    CloseReleasesAll
    EverySendReturns
    AckedReachesWire
    ImplementsFifo
