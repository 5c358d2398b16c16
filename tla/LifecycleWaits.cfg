SPECIFICATION FairLifeSpec
CONSTANTS
    Runs = {r1, r2}
    NoRun = NoRun
    a = a
    b = b
    c = c
    Executions <- OnlyA
    Mode <- MCMode
    ConfiguredLimit <- MCLimit
    Responding <- None
    MayWait <- OnlyA
    MayStop <- OnlyA
    HasTimeout <- None
    MaxCrashes = 0
INVARIANTS
    CapacityAccounting
PROPERTIES
    WaitingIsResumed
    SuccessIsFinal
CHECK_DEADLOCK FALSE
