\* Two or three requests by hand or by the timer, with failing native calls.
SPECIFICATION UIFairSpec
CONSTANTS
    t1 = t1
    t2 = t2
    u1 = u1
    u2 = u2
    u3 = u3
    Threads <- MCThreads
    NoThread = NoThread
    Uuids <- MCUuids
    NoUuid = NoUuid
    Faults = TRUE
    Polite = FALSE
    MaxCalls = 3
    AutoReconnect = TRUE
CHECK_DEADLOCK FALSE
INVARIANTS
    AttemptBacked
    WindowFollowsTunnel
    OneWorker
    NoOpStranded
PROPERTIES
    NoReconnectAfterNo
    AttemptEnds
