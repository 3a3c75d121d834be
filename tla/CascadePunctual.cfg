\* A due timeout is dispatched before a due tick; dialogs come and go.
SPECIFICATION Spec
CONSTANTS
    s1 = s1
    s2 = s2
    Servers <- MCServers2
    NoServer = NoServer
    Queues <- MCQueues2
    Budget <- MCBudget
    Extension = 1
    Settle = 1
    OrphanIds <- MCOrphanIds
    LateDispatch = FALSE
    Dialogs = TRUE
    MaxGen = 2
INVARIANTS
    TypeOK
    VerdictsFollowQueue
    ExhaustedTriedAll
    AttemptsBounded
PROPERTIES
    KeepsPromise
