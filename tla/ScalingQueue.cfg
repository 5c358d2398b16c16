SPECIFICATION FairSpec
CONSTANTS
    e = e
    f = f
    Executions = {e, f}
    Endless = {f}
    Workers = {w1, w2}
    Leaders = {m}
    Disturbed = {e}
    NoExecution = NoExecution
    NoWorker = NoWorker
    BatchSize = 1
    UnstartedFirst = TRUE
    MaxFaults = 1
INVARIANTS
    AnsweredIsOver
    StoppedRunEnds
PROPERTIES
    SuccessIsKept
    EveryRunIsAnswered
    AbandonedIsRecovered
CHECK_DEADLOCK FALSE
