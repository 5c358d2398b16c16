SPECIFICATION FairLifeSpec
CONSTANTS
    Runs = {r1, r2}
    NoRun = NoRun
    a = a
    b = b
    c = c
    Executions <- AB
    Mode <- MCMode
    ConfiguredLimit <- MCLimit
    Responding <- None
    MayWait <- None
    MayStop <- None
    HasTimeout <- None
    MaxCrashes = 2
INVARIANTS
    ConcurrencyRespected
    NoZombieRow
PROPERTIES
    EnqueuedIsStarted
CHECK_DEADLOCK FALSE
