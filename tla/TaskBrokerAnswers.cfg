SPECIFICATION FairSpec
CONSTANTS
    Requests = {q1, q2}
    NoRequest = NoRequest
    w1 = w1
    w2 = w2
    l = l
    Runners = {w1}
    Launchers = {}
    MaxConcurrency = 1
    MaxOffers = 3
    MaxLate = 1
    MaxLost = 2
    MaxDeferrals = 0
PROPERTIES
    RequestAnswered
CHECK_DEADLOCK FALSE
