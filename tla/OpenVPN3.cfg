\* Two sessions, each asking up to twice.
SPECIFICATION FairSpec
CONSTANTS
    MaxSessions = 2
    MaxAsks = 2
    MaxSignals = 2
    MaxFailures = 2
    Faults <- MCFaults
    Needs <- MCNeeds
    MaxUntidy = 1
CHECK_DEADLOCK FALSE
INVARIANTS
    WindowFollowsSession
    ShownIsHeard
    NoOrphans
PROPERTIES
    AttemptEnds
