------------------------- MODULE ExecutionLifecycle -------------------------
(***************************************************************************)
(* The life of workflow executions on a main instance in regular mode, from *)
(* the row in the database to its final status: WorkflowRunner and         *)
(* ActiveExecutions start and track runs, ConcurrencyControl admits them,  *)
(* WaitTracker and the waiting webhooks resume executions that wait,       *)
(* ExecutionService.stop and the timeout cancel them, shutdown, crash and  *)
(* startup throw the memory away and pick up what the database still holds. *)
(*                                                                         *)
(* JavaScript runs a handler without interruption up to its next `await`;  *)
(* an action is such a stretch, together with the database write it ends   *)
(* in or continues from.  An execution may have several runs: a run is one *)
(* call of WorkflowRunner.run, with the entry it puts into activeExecutions *)
(* and the workflow engine it starts.                                      *)
(***************************************************************************)
EXTENDS ConcurrencyControl

CONSTANTS
    NoRun,
    Responding,      \* the executions whose caller waits for a response
    MayWait,         \* the executions whose workflow has a Wait node
    MayStop,         \* the executions a user may stop
    HasTimeout,      \* the executions whose workflow has a timeout
    MaxCrashes       \* bound on the number of crashes and shutdowns; up to two, the
                     \* log of the last two lives (logHistory = 1) is the whole log

ASSUME NoRunAssumption == NoRun \notin Runs

VARIABLES
    db,          \* db[e]: the row of e in the executions table
    run,         \* run[r]: how far a run is, its entry and its engine
    active,      \* active[e]: the run whose entry is in activeExecutions under e
    timers,      \* the executions with an entry in WaitTracker.waitingExecutions
    polled,      \* rows a query of WaitTracker has found but not handled yet
    stop,        \* stop[e]: what a request to stop e has still to write
    phase,       \* of the process
    bootList,    \* rows runEnqueuedExecutions has still to run
    recovering,  \* executions the event bus has still to recover
    amended,     \* what ExecutionRecoveryService does with one of them: whose row it is,
                 \* how far it is, the row it has read
    log,         \* log[e]: events of e in the event log since its last end: the start
                 \* of its workflow, a node
    recoveryFile,  \* a file that exists while a recovery is in progress
    crashes

limiter == <<isEnabled, capacity, queue, holders>>
process == <<phase, bootList, recovering, amended, log, recoveryFile, crashes>>
lifecycle == <<phase, bootList, recovering, amended, recoveryFile, crashes>>
lifeVars == <<isEnabled, capacity, queue, holders, db, run, active, timers, polled, stop,
              phase, bootList, recovering, amended, log, recoveryFile, crashes>>

\* A run and its engine are over; the engine's promise can be cancelled.
Over == {"unused", "removed", "done"}
Cancellable == {"engine", "saving", "saved"}

\* A run: what it was called with, where it is, its entry in activeExecutions
\* (status, promise settled, response promise, engine attached), its own engine.
Entered(e, at, resumes, responds) ==
    [exec |-> e, resumes |-> resumes, responds |-> responds, pc |-> at,
     status |-> "running", settled |-> FALSE, response |-> FALSE, engine |-> NoRun,
     tracked |-> FALSE, timeout |-> FALSE, cancelled |-> FALSE, cancelSave |-> FALSE,
     outcome |-> "none"]

Unused == Entered(NoRun, "unused", FALSE, FALSE)

NoRow == [status |-> "none", waitTill |-> FALSE, finished |-> FALSE]

NothingAmended == [exec |-> NoRun, at |-> "none", row |-> NoRow]

LifeInit ==
    /\ Init
    /\ run = [r \in Runs |-> Unused]
    /\ active = [e \in Executions |-> NoRun]
    /\ timers = {} /\ polled = {} /\ bootList = {}
    /\ stop = [e \in Executions |-> "none"]
    /\ db = [e \in Executions |-> NoRow]
    /\ phase = "up" /\ recovering = {} /\ recoveryFile = FALSE /\ crashes = 0
    /\ amended = NothingAmended
    /\ log = [e \in Executions |-> {}]

Serving == phase \in {"starting", "recovering", "marking", "booting", "up"}
Alive == phase # "down"

\* The relay that writes events to the log starts when recovery is over.
Logging == phase \notin {"starting", "recovering", "marking", "down"}

LogEvents(e, events) == log' = IF Logging THEN [log EXCEPT ![e] = events] ELSE log

\* Nothing in memory refers to the run any more: its identity can be used again.
Free(r) ==
    /\ run[r].pc \in Over
    /\ r \notin Holding
    /\ \A e \in Executions : active[e] # r
    /\ ~run[r].cancelSave
    /\ \A s \in Runs : run[s].engine = r => run[s].pc \in Over

-----------------------------------------------------------------------------
(* Starting a run: ActiveExecutions.add *)

\* WorkflowRunner.run of a new execution: the row is inserted as `new`.
Create(r, e) ==
    /\ Serving \/ phase = "stopping"
    /\ db[e].status = "none" /\ Free(r)
    /\ db' = [db EXCEPT ![e].status = "new"]
    /\ run' = [run EXCEPT ![r] = Entered(e, "created", FALSE, e \in Responding)]
    /\ UNCHANGED <<limiter, active, timers, polled, stop, process>>

\* A run that is queued takes its execution out of the unfinished ones of the log.
LogThrottled(r, e) == IF r \in Waiting' THEN LogEvents(e, {}) ELSE UNCHANGED log

\* The id is back: ask the limiter.
ThrottleNew(r) ==
    /\ Alive
    /\ run[r].pc = "created"
    /\ Throttle(r, run[r].exec)
    /\ LogThrottled(r, run[r].exec)
    /\ run' = [run EXCEPT ![r].pc = "throttled"]
    /\ UNCHANGED <<db, active, timers, polled, stop, lifecycle>>

\* WorkflowRunner.run of an existing execution asks the limiter at once.
RunExisting(r, e, responds) ==
    /\ Free(r)
    /\ Throttle(r, e)
    /\ run' = [run EXCEPT ![r] = Entered(e, "throttled", TRUE, responds)]
    /\ UNCHANGED <<db, active>>

\* A slip: the limiter is asked but not awaited.
RegisterAtOnce(r) ==
    /\ Alive
    /\ run[r].pc = "throttled"
    /\ db' = [db EXCEPT ![run[r].exec].status = "running",
                        ![run[r].exec].waitTill = @ /\ ~run[r].resumes]
    /\ active' = [active EXCEPT ![run[r].exec] = r]
    /\ run' = [run EXCEPT ![r].pc = "added", ![r].status = "running"]
    /\ UNCHANGED <<limiter, timers, polled, stop, process>>

\* Let through: the row becomes `running` (and, if the execution is resumed, no
\* longer waits) and an entry is put under the execution's id, over the one there.
Register(r) ==
    LET e == run[r].exec
        old == active[e]
    IN  /\ Alive
        /\ run[r].pc = "throttled" /\ r \notin Waiting
        /\ db' = [db EXCEPT ![e].status = "running",
                            ![e].waitTill = @ /\ ~run[r].resumes]
        /\ active' = [active EXCEPT ![e] = r]
        /\ run' = [run EXCEPT ![r].pc = "added", ![r].status = "running",
                              ![r].response = old # NoRun /\ run[old].response]
        /\ UNCHANGED <<limiter, timers, polled, stop, process>>

-----------------------------------------------------------------------------
(* Running it: WorkflowRunner.run, runMainProcess and the engine *)

\* The credentials check passes and the response promise is attached to the entry;
\* if the entry is gone, that throws and the run is over.
PassCredentials(r) ==
    LET x == active[run[r].exec]
    IN  /\ Alive
        /\ run[r].pc = "added"
        /\ \/ /\ ~run[r].responds
              /\ run' = [run EXCEPT ![r].pc = "checked"]
           \/ /\ run[r].responds /\ x # NoRun
              /\ run' = [run EXCEPT ![r].pc = "checked", ![x].response = TRUE]
           \/ /\ run[r].responds /\ x = NoRun
              /\ run' = [run EXCEPT ![r].pc = "done"]
        /\ UNCHANGED <<limiter, db, active, timers, polled, stop, process>>

\* The row is set to `running` once more, the engine starts and is attached to the
\* entry.  If the entry is gone the engine runs on untracked.
StartEngine(r) ==
    LET e == run[r].exec
        x == active[e]
        started == [run EXCEPT ![r].pc = "engine", ![r].tracked = (x # NoRun),
                               ![r].timeout = (x # NoRun) /\ (e \in HasTimeout)]
    IN  /\ Alive
        /\ run[r].pc = "checked"
        /\ db' = [db EXCEPT ![e].status = "running"]
        /\ run' = IF x = NoRun THEN started ELSE [started EXCEPT ![x].engine = r]
        /\ IF run[r].resumes THEN UNCHANGED log ELSE LogEvents(e, {"workflow"})
        /\ UNCHANGED <<limiter, active, timers, polled, stop, lifecycle>>

\* A slip: the failed execution is saved and never finalized.
DenyWithoutFinalize(r) ==
    /\ Alive
    /\ run[r].pc = "added"
    /\ run' = [run EXCEPT ![r].pc = "saving", ![r].outcome = "error"]
    /\ LogEvents(run[r].exec, {"workflow"})
    /\ UNCHANGED <<limiter, db, active, timers, polled, stop, lifecycle>>

\* The credentials check fails: the start is logged, the error is saved and the execution
\* finalized.
DenyCredentials(r) ==
    /\ Alive
    /\ run[r].pc = "added"
    /\ run' = [run EXCEPT ![r].pc = "saving", ![r].outcome = "error", ![r].tracked = TRUE]
    /\ LogEvents(run[r].exec, {"workflow"})
    /\ UNCHANGED <<limiter, db, active, timers, polled, stop, lifecycle>>

\* The last node has run.
EngineEnds(r, outcome) ==
    /\ Alive
    /\ run[r].pc = "engine" /\ ~run[r].cancelled
    /\ run' = [run EXCEPT ![r].pc = "saving", ![r].outcome = outcome]
    /\ LogEvents(run[r].exec, log[run[r].exec] \cup {"node"})
    /\ UNCHANGED <<limiter, db, active, timers, polled, stop, lifecycle>>

\* A node puts the execution to wait: the status of the entry, whose ever it is,
\* becomes `waiting` before the engine has come to its end.
EngineWaits(r) ==
    LET x == active[run[r].exec]
    IN  /\ Alive
        /\ run[r].pc = "engine" /\ ~run[r].cancelled
        /\ run[r].exec \in MayWait
        /\ x # NoRun
        /\ run' = [run EXCEPT ![r].pc = "saving", ![r].outcome = "waiting",
                              ![x].status = "waiting"]
        /\ LogEvents(run[r].exec, log[run[r].exec] \cup {"node"})
        /\ UNCHANGED <<limiter, db, active, timers, polled, stop, lifecycle>>

\* A cancelled engine stops before its next node and saves nothing itself.
EngineStops(r) ==
    /\ Alive
    /\ run[r].pc = "engine" /\ run[r].cancelled
    /\ run' = [run EXCEPT ![r].pc = "saved"]
    /\ UNCHANGED <<limiter, db, active, timers, polled, stop, process>>

\* A slip: the time to wait for is written as undefined.
EngineSavesNoWaitTill(r) ==
    /\ Alive
    /\ run[r].pc = "saving"
    /\ db' = [db EXCEPT ![run[r].exec].status = run[r].outcome,
                        ![run[r].exec].finished = run[r].outcome = "success"]
    /\ run' = [run EXCEPT ![r].pc = "saved"]
    /\ UNCHANGED <<limiter, active, timers, polled, stop, process>>

\* The workflowExecuteAfter hook writes the outcome; waitTill is only written when
\* there is one.  The end of the workflow is logged unless the execution waits.
EngineSaves(r) ==
    LET e == run[r].exec
        o == run[r].outcome
    IN  /\ Alive
        /\ run[r].pc = "saving"
        /\ db' = [db EXCEPT ![e] = [status |-> o, finished |-> o = "success",
                                    waitTill |-> @.waitTill \/ o = "waiting"]]
        /\ run' = [run EXCEPT ![r].pc = "saved"]
        /\ IF o = "waiting" THEN UNCHANGED log ELSE LogEvents(e, {})
        /\ UNCHANGED <<limiter, active, timers, polled, stop, lifecycle>>

\* The hook of a cancelled engine, which runs on its own.
CancelSaves(r) ==
    /\ Alive
    /\ run[r].cancelSave
    /\ db' = [db EXCEPT ![run[r].exec].status = "canceled", ![run[r].exec].finished = FALSE]
    /\ run' = [run EXCEPT ![r].cancelSave = FALSE]
    /\ LogEvents(run[r].exec, {})
    /\ UNCHANGED <<limiter, active, timers, polled, stop, lifecycle>>

\* The engine's promise resolves.  finalizeExecution settles the promise of the
\* entry found under the id, if there is one; that releases the place of the run
\* the entry belongs to and, unless the execution waits, removes the entry.
Finalize(r) ==
    LET e == run[r].exec
        x == active[e]
        settles == run[r].tracked /\ x # NoRun /\ ~run[x].settled
    IN  /\ Alive
        /\ run[r].pc = "saved"
        /\ \/ /\ settles
              /\ run' = [run EXCEPT ![r].pc = "done", ![x].settled = TRUE]
              /\ Release(x, e)
              /\ active' = IF run[x].status = "waiting" THEN active
                           ELSE [active EXCEPT ![e] = NoRun]
           \/ /\ ~settles
              /\ run' = [run EXCEPT ![r].pc = "done"]
              /\ UNCHANGED <<limiter, active>>
        /\ UNCHANGED <<db, timers, polled, stop, process>>

-----------------------------------------------------------------------------
(* Cancelling it *)

\* Slips in cancelling: the aborted engine's hook is not run; the entry of a waiting
\* execution is treated like any other, so its place is released again.
CancelWithoutHook(runs, w) ==
    IF w # NoRun /\ runs[w].pc \in Cancellable
    THEN [runs EXCEPT ![w].cancelled = TRUE]
    ELSE runs

\* PCancelable.cancel: the first call, while the engine's promise is pending,
\* aborts the engine and starts its workflowExecuteAfter hook.
Cancel(runs, w) ==
    IF w # NoRun /\ runs[w].pc \in Cancellable /\ ~runs[w].cancelled
    THEN [runs EXCEPT ![w].cancelled = TRUE, ![w].cancelSave = TRUE]
    ELSE runs

StopReleasesWaiting(e, runs) ==
    LET x == active[e]
    IN  \/ /\ x = NoRun
           /\ run' = runs
           /\ UNCHANGED <<limiter, active>>
        \/ /\ x # NoRun
           /\ run' = [Cancel(runs, run[x].engine) EXCEPT ![x].settled = TRUE]
           /\ Release(x, e)
           /\ active' = [active EXCEPT ![e] = NoRun]

\* ActiveExecutions.stopExecution.  An execution that waits is only forgotten;
\* another is cancelled and its promise rejected, which releases its place.
StopEntry(e, runs) ==
    LET x == active[e]
    IN  \/ /\ x = NoRun
           /\ run' = runs
           /\ UNCHANGED <<limiter, active>>
        \/ /\ x # NoRun /\ run[x].status = "waiting"
           /\ run' = runs
           /\ active' = [active EXCEPT ![e] = NoRun]
           /\ UNCHANGED limiter
        \/ /\ x # NoRun /\ run[x].status # "waiting"
           /\ run' = [Cancel(runs, run[x].engine) EXCEPT ![x].settled = TRUE]
           /\ Release(x, e)
           /\ active' = [active EXCEPT ![e] = NoRun]

\* The timer of the workflow's timeout, cleared when the run's engine has ended.
TimeOut(r) ==
    /\ Alive
    /\ run[r].timeout /\ run[r].pc \in Cancellable
    /\ StopEntry(run[r].exec, [run EXCEPT ![r].timeout = FALSE])
    /\ UNCHANGED <<db, timers, polled, stop, process>>

\* A slip: the row of a queued execution is not written.
StopQueuedUnwritten(e) ==
    /\ Serving
    /\ e \in MayStop /\ stop[e] = "none"
    /\ db[e].status \in {"new", "waiting", "running"}
    /\ Has(e)
    /\ Remove(e)
    /\ run' = [r \in Runs |->
                 IF r \in Waiting /\ r \notin Waiting' \cup Holding'
                 THEN [run[r] EXCEPT !.pc = "removed"] ELSE run[r]]
    /\ UNCHANGED <<db, active, timers, polled, stop, process>>

\* ExecutionService.stop of an execution that is still queued: its entry leaves
\* the queue and the promise its run waits for never settles.
StopQueued(e) ==
    /\ Serving
    /\ e \in MayStop /\ stop[e] = "none"
    /\ db[e].status \in {"new", "waiting", "running"}
    /\ Has(e)
    /\ Remove(e)
    /\ run' = [r \in Runs |->
                 IF r \in Waiting /\ r \notin Waiting' \cup Holding'
                 THEN [run[r] EXCEPT !.pc = "removed"] ELSE run[r]]
    /\ stop' = [stop EXCEPT ![e] = "beforeRun"]
    /\ UNCHANGED <<db, active, timers, polled, process>>

\* ExecutionService.stop of any other execution.
StopRunning(e) ==
    /\ Serving
    /\ e \in MayStop /\ stop[e] = "none"
    /\ db[e].status \in {"new", "waiting", "running"}
    /\ ~Has(e)
    /\ StopEntry(e, run)
    /\ timers' = timers \ {e}
    /\ stop' = [stop EXCEPT ![e] = "duringRun"]
    /\ UNCHANGED <<db, polled, process>>

\* stopBeforeRun writes the status only, stopDuringRun the rest of the row too.
StopWrites(e) ==
    /\ Alive
    /\ \/ /\ stop[e] = "beforeRun"
          /\ db' = [db EXCEPT ![e].status = "canceled"]
       \/ /\ stop[e] = "duringRun"
          /\ db' = [db EXCEPT ![e] = [status |-> "canceled", finished |-> FALSE,
                                      waitTill |-> FALSE]]
    /\ stop' = [stop EXCEPT ![e] = "none"]
    /\ UNCHANGED <<limiter, run, active, timers, polled, process>>

-----------------------------------------------------------------------------
(* Resuming it: WaitTracker and the waiting webhooks *)

\* A query for executions due has found e (getWaitingExecutions) ...
PollFinds(e) ==
    /\ Serving
    /\ db[e].waitTill /\ db[e].status # "crashed"
    /\ e \notin polled
    /\ polled' = polled \cup {e}
    /\ UNCHANGED <<limiter, db, run, active, timers, stop, process>>

\* ... and a timer is set for it unless it has one.
PollSetsTimer(e) ==
    /\ Alive
    /\ e \in polled
    /\ polled' = polled \ {e}
    /\ timers' = timers \cup {e}
    /\ UNCHANGED <<limiter, db, run, active, stop, process>>

\* A slip: the timer trusts the query that has set it.
TimerFiresUnchecked(r, e) ==
    /\ Alive
    /\ e \in timers
    /\ timers' = timers \ {e}
    /\ RunExisting(r, e, FALSE)
    /\ LogThrottled(r, e)
    /\ UNCHANGED <<polled, stop, lifecycle>>

\* The timer fires: startExecution forgets it, reads the row and runs the execution
\* unless the row says it has finished.
TimerFires(r, e) ==
    /\ Alive
    /\ e \in timers
    /\ timers' = timers \ {e}
    /\ \/ /\ db[e].finished
          /\ UNCHANGED <<limiter, run, active, db, log>>
       \/ /\ ~db[e].finished
          /\ RunExisting(r, e, FALSE)
          /\ LogThrottled(r, e)
    /\ UNCHANGED <<polled, stop, lifecycle>>

\* The execution's own webhook or form is called.  The timer stays.  Rows that say
\* `running` or have an error are turned away; those that wait have none, even if
\* they have been canceled in the queue or taken for crashed.
WebhookResumes(r, e) ==
    /\ Serving
    /\ db[e].waitTill /\ db[e].status \in {"waiting", "canceled", "crashed"} /\ ~db[e].finished
    /\ RunExisting(r, e, e \in Responding)
    /\ LogThrottled(r, e)
    /\ UNCHANGED <<timers, polled, stop, lifecycle>>

-----------------------------------------------------------------------------
(* Shutdown, crash, startup *)

\* Start.stopProcess stops the WaitTracker first: its timers are cleared but their
\* entries stay, so a query in flight sets no timer for them.
BeginShutdown ==
    /\ phase = "up" /\ crashes < MaxCrashes
    /\ phase' = "stopping"
    /\ timers' = {} /\ polled' = polled \ timers
    /\ UNCHANGED <<limiter, db, run, active, stop, bootList, recovering, amended, log,
                   recoveryFile, crashes>>

\* ActiveExecutions.shutdown: the limiter is disabled, so that what follows
\* releases nothing; executions with a response promise are stopped, waiting ones
\* forgotten.  removeAll returns at once because the limiter is disabled.
Shutdown ==
    LET entries == {e \in Executions : active[e] # NoRun}
        stopped == {active[e] : e \in {d \in entries : run[active[d]].response
                                                      /\ run[active[d]].status # "waiting"}}
        gone    == {e \in entries : run[active[e]].response \/ run[active[e]].status = "waiting"}
    IN  /\ phase = "stopping"
        /\ phase' = "draining"
        /\ Disable
        /\ active' = [e \in Executions |-> IF e \in gone THEN NoRun ELSE active[e]]
        /\ run' = [r \in Runs |->
                     LET hit == {x \in stopped : run[x].engine = r}
                         now == IF hit = {} THEN run[r] ELSE Cancel(run, r)[r]
                     IN  IF r \in stopped THEN [now EXCEPT !.settled = TRUE] ELSE now]
        /\ UNCHANGED <<db, timers, polled, stop, bootList, recovering, amended, log,
                       recoveryFile, crashes>>

\* Memory is gone.  Of an engine at work, the log may hold a node or none.
GoDown ==
    /\ phase' = "down"
    /\ crashes' = crashes + 1
    /\ isEnabled' = (Queues # {})
    /\ capacity' = [t \in Queues |-> Limit[t]]
    /\ queue' = [t \in Queues |-> << >>]
    /\ holders' = [t \in Queues |-> {}]
    /\ run' = [r \in Runs |-> Unused]
    /\ active' = [e \in Executions |-> NoRun]
    /\ timers' = {} /\ polled' = {} /\ bootList' = {} /\ recovering' = {}
    /\ amended' = NothingAmended
    /\ stop' = [e \in Executions |-> "none"]
    /\ \E begun \in SUBSET {run[r].exec : r \in {x \in Runs : Logging /\ run[x].pc = "engine"}} :
          log' = [e \in Executions |-> IF e \in begun THEN log[e] \cup {"node"} ELSE log[e]]
    /\ UNCHANGED <<db, recoveryFile>>

\* Shutdown is over when no entry is left, and is cut short when it takes too long.
Exit ==
    /\ phase = "draining"
    /\ \A e \in Executions : active[e] = NoRun
    /\ GoDown

ForceExit == phase \in {"stopping", "draining"} /\ GoDown

Crash == Alive /\ crashes < MaxCrashes /\ GoDown

\* Startup: WaitTracker polls, then the webhooks are served ...
Boot ==
    /\ phase = "down"
    /\ phase' = "starting"
    /\ UNCHANGED <<limiter, db, run, active, timers, polled, stop,
                   bootList, recovering, amended, log, recoveryFile, crashes>>

\* ... then MessageEventBus collects the executions that its log or the database
\* takes for unfinished.  If the last recovery did not come to its end, this one
\* does not begin ...
RecoverRunning ==
    LET unfinished == {e \in Executions : db[e].status = "running" \/ log[e] # {}}
    IN  /\ phase = "starting"
        /\ recovering' = unfinished
        /\ phase' = IF unfinished = {} THEN "booting"
                    ELSE IF recoveryFile THEN "marking" ELSE "recovering"
        /\ recoveryFile' = (recoveryFile \/ unfinished # {})
        /\ UNCHANGED <<limiter, db, run, active, timers, polled, stop, bootList, amended, log,
                       crashes>>

\* ... but marks them all as crashed ...
MarkAllCrashed ==
    /\ phase = "marking"
    /\ phase' = "recovering"
    /\ db' = [e \in Executions |-> IF e \in recovering
                                  THEN [db[e] EXCEPT !.status = "crashed"] ELSE db[e]]
    /\ recovering' = {}
    /\ UNCHANGED <<limiter, run, active, timers, polled, stop, bootList, amended, log,
                   recoveryFile, crashes>>

\* A slip in recovery: what has left no events is passed over.
RecoverLogged(e) ==
    /\ phase = "recovering" /\ amended.at = "none" /\ e \in recovering
    /\ recovering' = recovering \ {e}
    /\ amended' = IF "node" \in log[e] /\ db[e].status \notin {"success", "error"}
                  THEN [exec |-> e, at |-> "read", row |-> [db[e] EXCEPT !.status = "crashed"]]
                  ELSE NothingAmended
    /\ UNCHANGED <<limiter, db, run, active, timers, polled, stop, phase, bootList, log,
                   recoveryFile, crashes>>

\* ... and otherwise recovers them one by one (recoverFromLogs).  One with nothing but its
\* start in the log is left alone, and so is one whose row has its outcome; one with no
\* event is marked as crashed at once, of any other the row is read and amended.  Nothing
\* is logged, for nobody listens yet.
Recover(e) ==
    /\ phase = "recovering" /\ amended.at = "none" /\ e \in recovering
    /\ recovering' = recovering \ {e}
    /\ \/ /\ log[e] = {}
          /\ db' = [db EXCEPT ![e].status = "crashed"]
          /\ amended' = [exec |-> e, at |-> "marked", row |-> NoRow]
       \/ /\ "node" \in log[e] /\ db[e].status \notin {"success", "error"}
          /\ amended' = [exec |-> e, at |-> "read",
                         row |-> [db[e] EXCEPT !.status = "crashed"]]
          /\ UNCHANGED db
       \/ /\ log[e] = {"workflow"} \/ ("node" \in log[e] /\ db[e].status \in {"success", "error"})
          /\ UNCHANGED <<db, amended>>
    /\ UNCHANGED <<limiter, run, active, timers, polled, stop, phase, bootList, log,
                   recoveryFile, crashes>>

\* The row that was marked is read again (amendWithoutLogs).
AmendReads ==
    /\ amended.at = "marked"
    /\ amended' = [amended EXCEPT !.at = "read", !.row = db[amended.exec]]
    /\ UNCHANGED <<limiter, db, run, active, timers, polled, stop, phase, bootList, recovering,
                   log, recoveryFile, crashes>>

\* All of the row is written as it was read, whatever has become of it ...
AmendSaves ==
    /\ amended.at = "read"
    /\ db' = [db EXCEPT ![amended.exec] = amended.row]
    /\ amended' = [amended EXCEPT !.at = "saved"]
    /\ UNCHANGED <<limiter, run, active, timers, polled, stop, phase, bootList, recovering,
                   log, recoveryFile, crashes>>

\* ... and then once more by the hook workflowExecuteAfter, which determines the final
\* status: an execution that has a time to wait for waits again; one that was taken for
\* running has the outcome that its data tells.
AmendHook ==
    LET e == amended.exec
        row == amended.row
    IN  /\ amended.at = "saved"
        /\ \E final \in IF row.waitTill THEN {"waiting"}
                        ELSE IF row.status \in {"crashed", "canceled", "error", "success"}
                        THEN {row.status} ELSE {"success", "error"} :
              db' = [db EXCEPT ![e] = [status |-> final, finished |-> FALSE,
                                       waitTill |-> @.waitTill \/ row.waitTill]]
        /\ amended' = NothingAmended
        /\ UNCHANGED <<limiter, run, active, timers, polled, stop, phase, bootList, recovering,
                       log, recoveryFile, crashes>>

RecoveryDone ==
    /\ phase = "recovering" /\ recovering = {} /\ amended.at = "none"
    /\ phase' = "booting"
    /\ recoveryFile' = FALSE
    /\ UNCHANGED <<limiter, db, run, active, timers, polled, stop,
                   bootList, recovering, amended, log, crashes>>

\* Start.runEnqueuedExecutions reads the rows that are still `new` ...
BootReads ==
    /\ phase = "booting"
    /\ phase' = "up"
    /\ bootList' = {e \in Executions : db[e].status = "new"}
    /\ UNCHANGED <<limiter, db, run, active, timers, polled, stop, recovering, amended, log,
                   recoveryFile, crashes>>

\* ... and runs each of them under its own id, without waiting for it.
BootRuns(r, e) ==
    /\ Alive
    /\ e \in bootList
    /\ bootList' = bootList \ {e}
    /\ RunExisting(r, e, FALSE)
    /\ LogEvents(e, {})
    /\ UNCHANGED <<timers, polled, stop, phase, recovering, amended, recoveryFile, crashes>>

-----------------------------------------------------------------------------
RunStep(r) ==
    \/ ThrottleNew(r) \/ Register(r) \/ PassCredentials(r) \/ StartEngine(r)
    \/ EngineStops(r) \/ EngineSaves(r) \/ CancelSaves(r) \/ Finalize(r)

EngineStep(r) == EngineEnds(r, "success") \/ EngineEnds(r, "error") \/ EngineWaits(r)

ProcessStep ==
    \/ Shutdown \/ Exit \/ ForceExit
    \/ Boot \/ RecoverRunning \/ MarkAllCrashed \/ AmendReads \/ AmendSaves \/ AmendHook
    \/ RecoveryDone \/ BootReads

LifeNext ==
    \/ \E r \in Runs : RunStep(r) \/ EngineStep(r) \/ DenyCredentials(r) \/ TimeOut(r)
    \/ \E e \in Executions :
          \/ StopQueued(e) \/ StopRunning(e) \/ StopWrites(e)
          \/ PollFinds(e) \/ PollSetsTimer(e) \/ Recover(e)
          \/ \E r \in Runs : \/ Create(r, e) \/ TimerFires(r, e)
                             \/ WebhookResumes(r, e) \/ BootRuns(r, e)
    \/ ProcessStep \/ BeginShutdown \/ Crash

LifeSpec == LifeInit /\ [][LifeNext]_lifeVars

\* The event loop gets round to every handler that is due; a workflow's nodes end
\* (or its timeout ends them), a process that is down is started again.
Fairness ==
    /\ \A r \in Runs : WF_lifeVars(RunStep(r)) /\ WF_lifeVars(EngineStep(r))
    /\ \A e \in Executions :
          /\ WF_lifeVars(StopWrites(e)) /\ WF_lifeVars(PollFinds(e)) /\ WF_lifeVars(PollSetsTimer(e))
          /\ WF_lifeVars(\E r \in Runs : TimerFires(r, e))
          /\ WF_lifeVars(\E r \in Runs : BootRuns(r, e))
    /\ WF_lifeVars(ProcessStep \/ \E e \in Executions : Recover(e))

FairLifeSpec == LifeSpec /\ Fairness

-----------------------------------------------------------------------------
(* Properties *)

LiveRuns(e) == {r \in Runs : run[r].exec = e /\ run[r].pc \notin Over}

\* A run that is over holds no place: whatever mix of stop, timeout, end and shutdown an
\* execution meets, its place is released by the time it has ended.  Only executions that
\* wait, or that a restart finds, may lose one, and only with an entry whose promise is
\* pending: a stop drops it while the engine is still on its way to the end, or a second
\* run of the execution puts its own over it.
NoSlotLeak ==
    isEnabled => \A r \in Runs : run[r].pc \in Over /\ r \in Holding =>
        /\ run[r].exec \in MayWait \/ crashes > 0
        /\ ~run[r].settled /\ active[run[r].exec] # r

\* No row is forgotten as `new`: once startup has read the enqueued executions,
\* each of them has a run on its way, is about to be run, or is being stopped.
EnqueuedNotForgotten ==
    phase = "up" => \A e \in Executions :
        db[e].status = "new" => LiveRuns(e) # {} \/ e \in bootList \/ stop[e] # "none"

\* No row is left behind as `running`: once every run of the execution and every
\* write for it is over, the row has its final status, except for the executions
\* a restart finds in the log with nothing but their start, which it leaves alone, and
\* for one that is run twice at a time for a caller who waits for a response: the end of
\* one run takes the entry away that the other attaches the response to.
NoZombieRow ==
    phase = "up" => \A e \in Executions :
        db[e].status = "running" =>
            \/ LiveRuns(e) # {} \/ (crashes > 0 /\ log[e] = {"workflow"})
            \/ stop[e] # "none" \/ \E r \in Runs : run[r].exec = e /\ run[r].cancelSave
            \/ e \in Responding /\ (e \in MayWait \/ crashes > 0)

\* Nobody stops an execution of the queue, and a timeout meets no second run of its
\* execution, which only one that waits or that a restart finds can have.
Undisturbed(t) ==
    \A e \in Executions : QueueOf(Mode[e]) = t =>
        e \notin MayStop /\ (e \in HasTimeout => e \notin MayWait /\ crashes = 0)

\* The limit holds for the engines themselves, from the start to the last node and
\* from one life of the process to the next, as long as nobody stops an execution: the
\* removal of a queued one lets one more of them run (see ConcurrencyGate!GiveUp), and so
\* does a stop, or the timeout of another run, between the registration of a run and the
\* start of its engine, which then runs on without a place.
ConcurrencyRespected ==
    isEnabled => \A t \in Queues : Undisturbed(t) =>
        Cardinality({r \in Runs : /\ run[r].pc = "engine" /\ ~run[r].cancelled
                                  /\ QueueOf(Mode[run[r].exec]) = t}) <= Limit[t]

\* No execution is starved: whatever the queue looks like and whenever the process
\* dies, an enqueued execution is started (or stopped) in the end.
EnqueuedIsStarted ==
    \A e \in Executions : (db[e].status = "new") ~> (db[e].status # "new")

\* No waiting execution is lost: between the row, the query, the timer and the
\* webhook, it is handed to the limiter (or stopped) in the end.
WaitingIsResumed ==
    \A e \in Executions : (db[e].status = "waiting") ~> (db[e].status # "waiting" \/ Has(e))

\* Recovery is at the row of e.
Amending(e) == amended.at # "none" /\ amended.exec = e

\* Success is final: once an execution has succeeded and none of its runs is on its
\* way, nothing makes it run again, neither the timer that a webhook's resumption has
\* left behind nor a poll that had found the row before.  (A row says `running` and
\* finished when a second run of the execution has been cut off by a crash.)  The event log
\* has to hold nothing of it either, and recovery not to be at it: what recovery has read
\* before is written over a success, with `finished` reset, and a success that is achieved
\* while a recovery is under way is not logged: a later startup that marks all it takes for
\* unfinished marks it too, and the next one recovers it.  An execution that has a time to
\* wait for then runs again.
AtRest(e) ==
    /\ db[e].finished /\ db[e].status # "running"
    /\ log[e] = {} /\ e \notin recovering /\ ~Amending(e)
    /\ LiveRuns(e) = {} /\ e \notin bootList /\ stop[e] = "none"
    /\ \A r \in Runs : run[r].exec = e => ~run[r].cancelSave

SuccessIsFinal == [][\A e \in Executions : AtRest(e) => AtRest(e)']_lifeVars

\* Shutdown cancels the enqueued executions whose caller waits for a response,
\* since they cannot be run again at startup.
QueuedRespondersRemoved ==
    [][(phase = "stopping" /\ phase' = "draining") =>
          \A r \in Waiting : run[r].responds => r \notin Waiting']_lifeVars
=============================================================================
