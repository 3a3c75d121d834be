\* Two users, two windows, requests in any order that may fail.
SPECIFICATION FairSpec
CONSTANTS
    ann = ann
    bob = bob
    a1 = a1
    a2 = a2
    b1 = b1
    Users <- MCUsers
    NoUser = NoUser
    Pwds <- MCPwds
    NoPwd = NoPwd
    Owner <- MCOwner
    Saved <- MCSaved
    Faults <- MCFaults
    MaxWindows = 2
    MaxMishaps = 1
    MaxSteps = 4
CHECK_DEADLOCK FALSE
INVARIANTS
    OwnPassword
    TypedIsStored
    ResetForgets
PROPERTIES
    TypedGetsStored
