SPECIFICATION LifeSpec
CONSTANTS
    Runs = {r1, r2}
    NoRun = NoRun
    a = a
    b = b
    c = c
    Executions <- AB
    Mode <- MCMode
    ConfiguredLimit <- MCLimit
    Responding <- AB
    MayWait <- None
    MayStop <- None
    HasTimeout <- None
    MaxCrashes = 1
SYMMETRY RunSymmetry
PROPERTIES
    QueuedRespondersRemoved
CHECK_DEADLOCK FALSE
