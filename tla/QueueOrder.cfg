SPECIFICATION Spec
CONSTANTS
    Names = {n1, n2, n3, n4}
    Rtts <- MCRtts
    Limits <- MCLimits
    MaxFiles = 3
CONSTANTS
    n1 = n1
    n2 = n2
    n3 = n3
    n4 = n4
INVARIANT FastestFirst
INVARIANT DeadOnlyAsLastResort
INVARIANT BudgetsFollowQueue
CHECK_DEADLOCK FALSE
