\* One connect at a time, and NetworkManager obeys.
SPECIFICATION Spec
CONSTANTS
    t1 = t1
    t2 = t2
    u1 = u1
    u2 = u2
    u3 = u3
    Threads <- MCThreads
    NoThread = NoThread
    Uuids <- MCUuids
    NoUuid = NoUuid
    Faults = FALSE
    Polite = TRUE
    MaxCalls = 5
SYMMETRY MCSymmetry
CHECK_DEADLOCK FALSE
INVARIANTS
    CancelledIsDown
    DisconnectTakesDown
    OneTunnel
