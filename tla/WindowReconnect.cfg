\* The reconnect timer fires whatever has happened since it was armed.
SPECIFICATION UISpec
CONSTANTS
    t1 = t1
    t2 = t2
    u1 = u1
    u2 = u2
    u3 = u3
    Threads <- MCThreads
    NoThread = NoThread
    Uuids <- MCUuids
    NoUuid = NoUuid
    Faults = FALSE
    Polite = FALSE
    MaxCalls = 3
    AutoReconnect = TRUE
CHECK_DEADLOCK FALSE
PROPERTIES
    ReconnectConnects
