SPECIFICATION LifeSpec
CONSTANTS
    Runs = {r1, r2, r3}
    NoRun = NoRun
    a = a
    b = b
    c = c
    Executions <- ABC
    Mode <- MCMode
    ConfiguredLimit <- MCLimit
    Responding <- OnlyA
    MayWait <- None
    MayStop <- AB
    HasTimeout <- OnlyB
    MaxCrashes = 0
SYMMETRY RunSymmetry
INVARIANTS
    NoSlotLeak
    EnqueuedNotForgotten
    NoZombieRow
CHECK_DEADLOCK FALSE
