\* A disconnection delivered a second late meets the next attempt.
SPECIFICATION ComposedSpec
CONSTANTS
    s1 = s1
    s2 = s2
    t1 = t1
    t2 = t2
    u1 = u1
    u2 = u2
    u3 = u3
    Servers <- MCServers
    NoServer = NoServer
    Queues <- MCQueues
    Budget <- MCBudget
    Settle = 1
    DownDelay = 2
    SlowUpTo = 1
    MaxGen = 1
    Threads <- MCThreads
    NoThread = NoThread
    Uuids <- MCUuids
    NoUuid = NoUuid
    Faults = FALSE
    Polite = TRUE
    MaxCalls = 1
SYMMETRY MCSymmetry
CHECK_DEADLOCK FALSE
PROPERTIES
    VerdictIsOwn
