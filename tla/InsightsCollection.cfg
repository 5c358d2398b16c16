SPECIFICATION FairSpec
CONSTANTS
    Executions = {x1, x2, x3}
    Optional = {"runtime_ms"}
    Flushes = {f1, f2, f3}
    NoFlush = NoFlush
    FlushBatchSize = 3
    Unowned = {x3}
    Released = {x2, x3}
    MaxFailures = 2
INVARIANTS
    EachEventOnce
    NoEventLost
    BufferIsScheduled
    StoredAtExit
PROPERTIES
    CollectedIsStored
CHECK_DEADLOCK FALSE
