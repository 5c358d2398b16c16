---------------------------- MODULE ScalingQueue ----------------------------
(***************************************************************************)
(* An execution in queue mode: a main process creates its row, adds a job   *)
(* to the queue and awaits the job's end; a worker takes the job, runs the  *)
(* execution and saves its row; a user stops it at the main that awaits it  *)
(* or at another; the leader compares rows and jobs and marks as crashed    *)
(* what has a row and no job.                                              *)
(*                                                                         *)
(* The queue is Bull, external: one worker at a time holds a job's lock; a  *)
(* job whose holder does not renew it is given to another worker once and   *)
(* then fails.  The database is written by all, without conditions.         *)
(***************************************************************************)
EXTENDS Naturals, FiniteSets

CONSTANTS
    Executions, Workers, Leaders,
    NoExecution, NoWorker,
    Endless,           \* executions that do not end unless they are stopped
    Disturbed,         \* executions that a user may stop and that faults may hit
    BatchSize,         \* how many rows a check of queue recovery reads
    UnstartedFirst,    \* whether the database sorts a start that is null before the others
    MaxFaults          \* bound on processes that end, steps that fail and locks that are lost

ASSUME ScalingAssumption ==
    /\ NoExecution \notin Executions /\ NoWorker \notin Workers
    /\ Endless \subseteq Executions /\ Disturbed \subseteq Executions
    /\ BatchSize \in Nat \ {0} /\ UnstartedFirst \in BOOLEAN

VARIABLES
    row,               \* row[e]: the status in the database
    startedAt, clock,  \* startedAt[e]: when it was last set running, 0 for null; the last such time
    \* the main process that runs an execution
    caller,            \* caller[e]: how far WorkflowRunner.run is
    promise,           \* promise[e]: the entry of ActiveExecutions and what became of it
    \* users that stop an execution
    stopped,           \* executions that a user has stopped
    stopWrites,        \* stops that have yet to write the row
    stopJob,           \* stopJob[e]: how far ScalingService.stopJob is
    \* the queue
    job, holder, stalls,
    aborts,            \* abort messages on their way, by worker and execution
    \* the workers
    work, step,        \* the execution of a worker, and how far it is
    missed,            \* executions that a stop passed by on their way to a worker (for the properties)
    \* queue recovery
    recovery, stored, dangling,
    faults

times == <<startedAt, clock>>
main == <<caller, promise>>
user == <<stopped, stopWrites, stopJob>>
queue == <<job, holder, stalls, aborts>>
worker == <<work, step, missed>>
leader == <<recovery, stored, dangling>>
vars == <<row, startedAt, clock, caller, promise, stopped, stopWrites, stopJob, job, holder, stalls, aborts,
          work, step, missed, recovery, stored, dangling, faults>>

InProgress == {"new", "running"}
Ended == {"success", "error", "canceled", "crashed"}
Queued == {e \in Executions : job[e] \in {"waiting", "active"}}

Init ==
    /\ row = [e \in Executions |-> "none"]
    /\ startedAt = [e \in Executions |-> 0] /\ clock = 0
    /\ caller = [e \in Executions |-> "idle"]
    /\ promise = [e \in Executions |-> "none"]
    /\ stopped = {} /\ stopWrites = {}
    /\ stopJob = [e \in Executions |-> "no"]
    /\ job = [e \in Executions |-> "none"]
    /\ holder = [e \in Executions |-> NoWorker]
    /\ stalls = [e \in Executions |-> 0] /\ aborts = {}
    /\ work = [w \in Workers |-> NoExecution] /\ step = [w \in Workers |-> "idle"]
    /\ missed = {}
    /\ recovery = [m \in Leaders |-> "idle"]
    /\ stored = [m \in Leaders |-> {}] /\ dangling = [m \in Leaders |-> {}]
    /\ faults = 0

Save(e, status) == row' = [row EXCEPT ![e] = status]
At(e, from, to) == caller[e] = from /\ caller' = [caller EXCEPT ![e] = to]
Fault(e) == e \in Disturbed /\ faults < MaxFaults /\ faults' = faults + 1

\* finalizeExecution does nothing where the entry is gone.
Finalize(e) == promise' = [promise EXCEPT ![e] = IF @ = "open" THEN "answered" ELSE @]

-----------------------------------------------------------------------------
(* The main process: WorkflowRunner.run and enqueueExecution *)

\* ActiveExecutions.add: the row and the entry.
Create(e) ==
    /\ At(e, "idle", "created")
    /\ Save(e, "new") /\ promise' = [promise EXCEPT ![e] = "open"]
    /\ UNCHANGED <<user, queue, worker, leader, times, faults>>

\* The job is added.  The entry is not looked at: a stop may have removed it.
AddJob(e) ==
    /\ At(e, "created", "added")
    /\ job' = [job EXCEPT ![e] = "waiting"]
    /\ UNCHANGED <<row, promise, user, holder, stalls, aborts, worker, leader, times, faults>>

\* The hook has run, the promise that awaits the job's end is made and attached to
\* the entry if that is still there.
Attach(e) ==
    /\ At(e, "added", "awaiting")
    /\ UNCHANGED <<row, promise, user, queue, worker, leader, times, faults>>

\* Redis or the hook fails and the caller is refused.  processError looks at the row: a
\* worker may have ended it with success, and then nothing is done.  Otherwise the entry
\* is finalized at once, before the row is saved.
EnqueueFails(e) ==
    /\ Fault(e)
    /\ \/ At(e, "created", "failed") /\ Finalize(e)
       \/ row[e] # "success" /\ At(e, "added", "failed") /\ Finalize(e)
       \/ row[e] = "success" /\ At(e, "added", "refused") /\ UNCHANGED promise
    /\ UNCHANGED <<row, user, queue, worker, leader, times>>

\* The job has ended: its row is the answer.  A job that was cancelled counts as ended.
AnswerFromRow(e) ==
    /\ job[e] \in {"completed", "cancelled"}
    /\ At(e, "awaiting", "done") /\ Finalize(e)
    /\ UNCHANGED <<row, user, queue, worker, leader, times, faults>>

\* A slip: a job that has failed is taken at its word.
BelieveFailure(e) ==
    /\ job[e] \in {"stalled", "threw"}
    /\ At(e, "awaiting", "judged") /\ Finalize(e)
    /\ UNCHANGED <<row, user, queue, worker, leader, times, faults>>

\* A slip: the failure is saved, and the entry is left to itself.
JudgeUnanswered(e) ==
    /\ job[e] \in {"stalled", "threw"}
    /\ IF row[e] = "success"
       THEN At(e, "awaiting", "done") /\ Finalize(e)
       ELSE At(e, "awaiting", "judged") /\ UNCHANGED promise
    /\ UNCHANGED <<row, user, queue, worker, leader, times, faults>>

\* A job that has failed is looked into: its row may be a success all the same, and is
\* the answer then.  Otherwise processError answers with the error.
JudgeFailure(e) ==
    /\ job[e] \in {"stalled", "threw"}
    /\ At(e, "awaiting", IF row[e] = "success" THEN "done" ELSE "judged") /\ Finalize(e)
    /\ UNCHANGED <<row, user, queue, worker, leader, times, faults>>

\* The hook that processError runs next saves the row with the error.
SaveFailure(e) ==
    /\ At(e, "failed", "refused") \/ At(e, "judged", "done")
    /\ Save(e, "error")
    /\ UNCHANGED <<promise, user, queue, worker, leader, times, faults>>

\* The main process that runs the execution crashes.
MainCrashes(e) ==
    /\ caller[e] \notin {"idle", "done", "refused", "gone"} /\ Fault(e)
    /\ caller' = [caller EXCEPT ![e] = "gone"]
    /\ promise' = [promise EXCEPT ![e] = IF @ = "open" THEN "lost" ELSE @]
    /\ stopWrites' = IF promise[e] = "rejected" THEN stopWrites \ {e} ELSE stopWrites
    /\ stopJob' = [stopJob EXCEPT ![e] = IF @ = "no" THEN "no" ELSE "cut"]
    /\ UNCHANGED <<row, stopped, queue, worker, leader, times>>

-----------------------------------------------------------------------------
(* Stopping an execution *)

Stoppable(e) == row[e] \in InProgress /\ e \in Disturbed \ stopped
Attached(e) == caller[e] = "awaiting"

\* stopInScalingMode at the main that has the entry: the entry's promise is rejected,
\* the promise that awaits the job cancelled if it is attached.
StopHere(e) ==
    /\ Stoppable(e) /\ stopped' = stopped \cup {e}
    /\ promise[e] = "open"
    /\ promise' = [promise EXCEPT ![e] = "rejected"]
    /\ stopJob' = [stopJob EXCEPT ![e] = IF Attached(e) THEN "asked" ELSE "no"]
    /\ stopWrites' = stopWrites \cup {e}
    /\ UNCHANGED <<row, caller, queue, worker, leader, times, faults>>

\* At another main nothing is found but the row.
StopElsewhere(e) ==
    /\ Stoppable(e) /\ stopped' = stopped \cup {e}
    /\ stopWrites' = stopWrites \cup {e}
    /\ UNCHANGED <<row, main, stopJob, queue, worker, leader, times, faults>>

\* stopDuringRun: the row is written, whatever it says by now.
WriteStop(e) ==
    /\ e \in stopWrites /\ stopWrites' = stopWrites \ {e}
    /\ Save(e, "canceled")
    /\ UNCHANGED <<main, stopped, stopJob, queue, worker, leader, times, faults>>

\* A slip: a job that a worker has is failed without telling the worker.
StopJobSilently(e) ==
    /\ stopJob[e] = "asked"
    /\ stopJob' = [stopJob EXCEPT ![e] = IF job[e] = "active" THEN "told" ELSE "inactive"]
    /\ UNCHANGED <<row, main, stopped, stopWrites, queue, worker, leader, times, faults>>

\* ScalingService.stopJob: if a worker has the job, the workers are told (those that
\* do not have it drop the message) ...
StopJob(e) ==
    /\ stopJob[e] = "asked"
    /\ stopJob' = [stopJob EXCEPT ![e] = IF job[e] = "active" THEN "told" ELSE "inactive"]
    /\ aborts' = aborts \cup (IF job[e] = "active" THEN {w \in Workers : work[w] = e} \X {e} ELSE {})
    /\ UNCHANGED <<row, main, stopped, stopWrites, job, holder, stalls, worker, leader, times, faults>>

\* ... else the job is removed, which fails if a worker has taken it meanwhile.
RemoveJob(e) ==
    /\ stopJob[e] = "inactive"
    /\ stopJob' = [stopJob EXCEPT ![e] = "done"]
    /\ job' = [job EXCEPT ![e] = IF @ = "waiting" THEN "removed" ELSE @]
    /\ missed' = IF job[e] = "active" THEN missed \cup {e} ELSE missed
    /\ UNCHANGED <<row, main, stopped, stopWrites, holder, stalls, aborts, work, step, leader, times, faults>>

\* A job of which the workers were told is moved to failed, whoever has its lock.
FailJob(e) ==
    /\ stopJob[e] = "told"
    /\ stopJob' = [stopJob EXCEPT ![e] = "done"]
    /\ job' = [job EXCEPT ![e] = IF @ = "active" THEN "cancelled" ELSE @]
    /\ holder' = [holder EXCEPT ![e] = NoWorker]
    /\ UNCHANGED <<row, main, stopped, stopWrites, stalls, aborts, worker, leader, times, faults>>

-----------------------------------------------------------------------------
(* A worker: JobProcessor.processJob *)

Busy(w, e, s) == work[w] = e /\ step[w] = s

Rest(w) == work' = [work EXCEPT ![w] = NoExecution] /\ step' = [step EXCEPT ![w] = "idle"]

\* The worker takes the job and reads the row.
TakeJob(w, e) ==
    /\ work[w] = NoExecution /\ job[e] = "waiting"
    /\ job' = [job EXCEPT ![e] = "active"]
    /\ holder' = [holder EXCEPT ![e] = w]
    /\ work' = [work EXCEPT ![w] = e]
    /\ step' = [step EXCEPT ![w] = IF row[e] = "crashed" THEN "saved" ELSE "read"]
    /\ UNCHANGED <<row, main, user, stalls, aborts, missed, leader, times, faults>>

\* setRunning, and the run is among runningJobs.
SetRunning(w, e) ==
    /\ Busy(w, e, "read") /\ step' = [step EXCEPT ![w] = "running"]
    /\ Save(e, "running")
    /\ clock' = clock + 1 /\ startedAt' = [startedAt EXCEPT ![e] = clock + 1]
    /\ UNCHANGED <<main, user, queue, work, missed, leader, faults>>

\* The run ends, and its last hook saves the row.
EndRun(w, e) ==
    /\ Busy(w, e, "running") /\ step' = [step EXCEPT ![w] = "saved"]
    /\ Save(e, "success") \/ Save(e, "error")
    /\ UNCHANGED <<main, user, queue, work, missed, leader, times, faults>>

Locked(w, e) == job[e] = "active" /\ holder[e] = w

\* A job that its worker has the lock of leaves the active ones.
LeavesActive(w, e, to) ==
    /\ job' = [job EXCEPT ![e] = IF Locked(w, e) THEN to ELSE @]
    /\ holder' = [holder EXCEPT ![e] = IF Locked(w, e) THEN NoWorker ELSE @]

\* A slip: the job is completed while the row is still to be saved.
CompleteEarly(w, e) ==
    /\ work[w] = e /\ step[w] \in {"running", "saved"}
    /\ Rest(w)
    /\ LeavesActive(w, e, "completed")
    /\ UNCHANGED <<row, main, user, stalls, aborts, missed, leader, times, faults>>

\* The job is completed, if the worker still has its lock.
Complete(w, e) ==
    /\ Busy(w, e, "saved") /\ Rest(w)
    /\ LeavesActive(w, e, "completed")
    /\ UNCHANGED <<row, main, user, stalls, aborts, missed, leader, times, faults>>

\* Redis or the database fails before the run or after it: the job fails.
JobThrows(w, e) ==
    /\ work[w] = e /\ step[w] \in {"read", "saved"} /\ Fault(e) /\ Rest(w)
    /\ LeavesActive(w, e, "threw")
    /\ UNCHANGED <<row, main, user, stalls, aborts, missed, leader, times>>

\* The abort message: a run is cancelled and its row saved at once; a job that is not
\* among runningJobs yet is not found.
HandleAbort(w, e) ==
    /\ <<w, e>> \in aborts /\ aborts' = aborts \ {<<w, e>>}
    /\ IF Busy(w, e, "running")
       THEN Save(e, "canceled") /\ step' = [step EXCEPT ![w] = "saved"]
       ELSE UNCHANGED <<row, step>>
    /\ missed' = IF Busy(w, e, "read") THEN missed \cup {e} ELSE missed
    /\ UNCHANGED <<main, user, job, holder, stalls, work, leader, times, faults>>

WorkerCrashes(w) ==
    /\ work[w] # NoExecution /\ Fault(work[w]) /\ Rest(w)
    /\ aborts' = {a \in aborts : a[1] # w}
    /\ UNCHANGED <<row, main, user, job, holder, stalls, missed, leader, times>>

\* External: the lock of a job is not renewed, for its worker is gone, or too busy.
\* The job is tried once more, then it fails.
Stall(e) ==
    /\ job[e] = "active"
    /\ IF work[holder[e]] = e THEN Fault(e) ELSE UNCHANGED faults
    /\ IF stalls[e] = 0
       THEN /\ stalls' = [stalls EXCEPT ![e] = 1]
            /\ job' = [job EXCEPT ![e] = "waiting"]
       ELSE /\ job' = [job EXCEPT ![e] = "stalled"]
            /\ UNCHANGED stalls
    /\ holder' = [holder EXCEPT ![e] = NoWorker]
    /\ UNCHANGED <<row, main, user, aborts, worker, leader, times>>

-----------------------------------------------------------------------------
(* Queue recovery, at the leader: recoverFromQueue *)

Recovering(m, from, to) == recovery[m] = from /\ recovery' = [recovery EXCEPT ![m] = to]

InProgressRows == {e \in Executions : row[e] \in InProgress}

\* The rows are sorted by their start, the latest first.
SortedAt(e) == IF startedAt[e] = 0 /\ UnstartedFirst THEN clock + 1 ELSE startedAt[e]

\* What the query may return: BatchSize rows at most, and no row that is later than one of them.
Batches ==
    {batch \in SUBSET InProgressRows :
        /\ Cardinality(batch) <= BatchSize
        /\ batch = InProgressRows \/ Cardinality(batch) = BatchSize
        /\ \A d \in batch, e \in InProgressRows \ batch : SortedAt(e) <= SortedAt(d)}

\* A slip: rows that were never picked up are left out.
ReadRunningRows(m) ==
    /\ InProgressRows # {}
    /\ Recovering(m, "idle", "rows")
    /\ \E batch \in Batches : stored' = [stored EXCEPT ![m] = {e \in batch : row[e] = "running"}]
    /\ UNCHANGED <<row, main, user, queue, worker, dangling, times, faults>>

\* A batch of the rows that are in progress is read; there may be none.
ReadRows(m) ==
    /\ InProgressRows # {}
    /\ Recovering(m, "idle", "rows")
    /\ \E batch \in Batches : stored' = [stored EXCEPT ![m] = batch]
    /\ UNCHANGED <<row, main, user, queue, worker, dangling, times, faults>>

\* Then the jobs.  If the queue is empty the check ends here.
ReadJobs(m) ==
    /\ Recovering(m, "rows", IF Queued = {} \/ stored[m] \subseteq Queued THEN "idle" ELSE "jobs")
    /\ stored' = [stored EXCEPT ![m] = {}]
    /\ dangling' = [dangling EXCEPT ![m] = IF Queued = {} THEN {} ELSE stored[m] \ Queued]
    /\ UNCHANGED <<row, main, user, queue, worker, times, faults>>

\* Rows without a job are marked, whatever they say by now.
MarkAsCrashed(m) ==
    /\ Recovering(m, "jobs", "idle")
    /\ row' = [e \in Executions |-> IF e \in dangling[m] THEN "crashed" ELSE row[e]]
    /\ dangling' = [dangling EXCEPT ![m] = {}]
    /\ UNCHANGED <<main, user, queue, worker, stored, times, faults>>

-----------------------------------------------------------------------------
Run(e) == AddJob(e) \/ Attach(e) \/ AnswerFromRow(e) \/ JudgeFailure(e) \/ SaveFailure(e)

Stop(e) == StopJob(e) \/ RemoveJob(e) \/ FailJob(e)

Process(w, e) ==
    \/ SetRunning(w, e) \/ Complete(w, e) \/ HandleAbort(w, e)
    \/ e \notin Endless /\ EndRun(w, e)

Recover(m) == ReadRows(m) \/ ReadJobs(m) \/ MarkAsCrashed(m)

Next ==
    \/ \E e \in Executions :
          \/ Create(e) \/ Run(e) \/ EnqueueFails(e) \/ MainCrashes(e)
          \/ StopHere(e) \/ StopElsewhere(e) \/ WriteStop(e) \/ Stop(e) \/ Stall(e)
          \/ \E w \in Workers : TakeJob(w, e) \/ Process(w, e) \/ JobThrows(w, e)
    \/ \E w \in Workers : WorkerCrashes(w)
    \/ \E m \in Leaders : Recover(m)

Spec == Init /\ [][Next]_vars

\* A main process goes on with what it has begun, and so does a worker (a run that is
\* not endless ends); the queue gives jobs to workers that are free and notices those
\* that are gone; the leader goes on checking.
Fairness ==
    /\ \A e \in Executions :
          /\ WF_vars(Run(e) \/ WriteStop(e) \/ Stop(e))
          /\ WF_vars((faults' = faults /\ Stall(e)) \/ \E w \in Workers : TakeJob(w, e))
    /\ \A w \in Workers : WF_vars(\E e \in Executions : Process(w, e))
    /\ \A m \in Leaders : WF_vars(Recover(m))

FairSpec == Spec /\ Fairness

-----------------------------------------------------------------------------
(* Properties *)

WorkedOn(e) == \E w \in Workers : work[w] = e

\* An answer is an answer: when the caller has been told that its execution is over, the
\* row is in its final status, or about to be: a failure is answered before the hook saves
\* it, and a main that crashes in between leaves it unsaved.  Only a job that stalled, and
\* so may be at two workers, or that stayed in the queue when its caller was refused, is
\* still written.
AnsweredIsOver ==
    \A e \in Executions :
        promise[e] = "answered" =>
            \/ row[e] \in Ended
            \/ caller[e] \in {"judged", "failed", "gone"}
            \/ stalls[e] > 0 \/ caller[e] = "refused"

\* No success is reported as an error: processError looks at the row before it
\* believes the queue.  It is not proof against a job at two workers, nor against a
\* hook that fails when the job is in the queue already.
SuccessIsKept ==
    [][\A e \in Executions :
          row[e] = "success" /\ row'[e] = "error" => stalls[e] > 0 \/ caller[e] = "failed"]_vars

\* An execution that was stopped where it was awaited does not go on: once the stop
\* has run and the workers have heard of it, none of them runs it, unless the stop
\* passed it by on its way to the worker, or its job stalled.
StoppedRunEnds ==
    \A e \in Executions :
        stopJob[e] = "done" /\ (\A w \in Workers : <<w, e>> \notin aborts)
            => e \in missed \/ stalls[e] > 0 \/ \A w \in Workers : ~Busy(w, e, "running")

\* Every caller is answered, or told that its execution was stopped: whichever of
\* queue, worker and hook fails, unless all workers are taken by executions that do
\* not end, or a hook failed after the worker had finished.
EveryRunIsAnswered ==
    \A e \in Executions \ Endless :
        promise[e] = "open" ~>
            \/ promise[e] # "open" \/ caller[e] = "refused"
            \/ \A w \in Workers : work[w] \in Endless

\* A row whose processes have abandoned it, and of which the queue knows nothing.
Abandoned(e) == row[e] \in InProgress /\ caller[e] = "gone" /\ e \notin Queued /\ ~WorkedOn(e)

\* So many rows may come before it that a check does not see it.
CrowdedOut(e) ==
    Cardinality({d \in InProgressRows \ {e} : SortedAt(d) >= SortedAt(e)}) >= BatchSize

\* A row that its processes have abandoned does not stay in progress: queue recovery finds
\* it, unless it meets an empty queue or a full batch of later rows time and again.
AbandonedIsRecovered ==
    \A e \in Executions : <>[]Abandoned(e) => []<>(Queued = {} \/ CrowdedOut(e))
=============================================================================
