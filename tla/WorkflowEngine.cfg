\* The shapes of workflow, with failures, waits, null results, a crash and retries.
CONSTANTS
    T = T
    A = A
    B = B
    C = C
    D = D
    M = M
    N = N
    Nodes = {T, A, B, C, D, M, N}
    Start = T
    Rank <- RankValue
    Workflows <- EngineWorkflows
    Given = Given
    NoNode = NoNode
    Orders <- BothWays
    MaxRepeats = 2
    Missing = Missing
    Empty = Empty
    MaxRuns = 3
    MaxCrashes = 1
SPECIFICATION RepeatSpec
CHECK_DEADLOCK FALSE
INVARIANTS
    BatchesKept
    PairedInOrder
    NothingIsLeftWaiting
    OnlyWaitersArePassedOver
    NoStaleMix
    DestinationIsReached
PROPERTIES
    NoLateData
