SPECIFICATION Spec
CONSTANTS
    Requests = {q1, q2}
    NoRequest = NoRequest
    w1 = w1
    w2 = w2
    l = l
    Runners = {w1, l}
    Launchers = {l}
    MaxConcurrency = 2
    MaxOffers = 3
    MaxLate = 1
    MaxLost = 1
    MaxDeferrals = 1
SYMMETRY Symmetry
INVARIANTS
    AcceptFindsRequest
    OneTaskPerRequest
    NobodyForgotten
    WithinCapacity
    SettingsExpected
CHECK_DEADLOCK FALSE
