\* Two speed tests, cancelled at any point, of a list that changes under them.
SPECIFICATION FairSpec
CONSTANTS
    Files <- MCFiles
    Lists <- MCLists
    Rtts <- MCRtts
    Unreachable = Unreachable
    Patterns <- MCPatterns
    MaxWorkers = 2
    MaxTests = 2
    MaxFavorites = 1
INVARIANTS
    ListFollowsWindow
    NoStragglers
PROPERTIES
    WholeSnapshot
    TestEnds
