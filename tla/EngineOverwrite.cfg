\* Three branches into one input of a node and one into the other.
CONSTANTS
    T = T
    A = A
    B = B
    C = C
    D = D
    M = M
    N = N
    Nodes = {T, A, B, C, D, M, N}
    Start = T
    Rank <- RankValue
    Workflows <- CrowdedWorkflow
    Given = Given
    NoNode = NoNode
    Orders <- BothWays
    MaxRepeats = 0
    Missing = Missing
    Empty = Empty
    MaxRuns = 3
    MaxCrashes = 0
SPECIFICATION Spec
CHECK_DEADLOCK FALSE
INVARIANTS
    EveryBatchKept
