SPECIFICATION FairSpec
CONSTANTS
    a = a
    b = b
    r = r
    Mains = {a, b}
    NoOne = NoOne
    Gone = Gone
    InDocker = {a}
    MaxChecks <- MCMaxChecks
    MaxFaults = 1
    Rows = {r}
INVARIANTS
    LeaderHoldsKey
    HolderLeads
    AloneAtWork
    LeaderAtWork
PROPERTIES
    OneLeaderInTheEnd
    WaitersAreResumedUnlessKept
CHECK_DEADLOCK FALSE
