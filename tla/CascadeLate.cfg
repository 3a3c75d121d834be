\* A tick dispatched late may run before the timeout it raced.
SPECIFICATION FairSpec
CONSTANTS
    s1 = s1
    s2 = s2
    Servers <- MCServers2
    NoServer = NoServer
    Queues <- MCQueues1
    Budget <- MCBudget
    Extension = 1
    Settle = 1
    OrphanIds <- MCOrphanIds
    LateDispatch = TRUE
    Dialogs = FALSE
    MaxGen = 4
INVARIANTS
    NeverStuck
    TestButtonAlive
PROPERTIES
    RevivedOnlyAsNewRun
    EveryRunEnds
