-------------------------- MODULE ScalingQueueProofs --------------------------
(***************************************************************************)
(* Theorems about an execution in queue mode, for any executions, workers,  *)
(* leaders and faults.                                                     *)
(***************************************************************************)
EXTENDS ScalingQueue, TLAPS

\* The state of the main processes, users, queue, workers and leaders.
ScalingTypeOK ==
    /\ row \in [Executions -> InProgress \cup Ended \cup {"none"}]
    /\ startedAt \in [Executions -> Nat] /\ clock \in Nat
    /\ caller \in [Executions -> {"idle", "created", "added", "awaiting", "judged", "failed",
                                  "done", "refused", "gone"}]
    /\ promise \in [Executions -> {"none", "open", "answered", "rejected", "lost"}]
    /\ stopped \subseteq Executions /\ stopWrites \subseteq Executions
    /\ stopJob \in [Executions -> {"no", "asked", "told", "inactive", "done", "cut"}]
    /\ job \in [Executions -> {"none", "waiting", "active", "completed", "cancelled", "removed",
                               "stalled", "threw"}]
    /\ holder \in [Executions -> Workers \cup {NoWorker}]
    /\ stalls \in [Executions -> {0, 1}]
    /\ aborts \subseteq Workers \X Executions
    /\ work \in [Workers -> Executions \cup {NoExecution}]
    /\ step \in [Workers -> {"idle", "read", "running", "saved"}]
    /\ missed \subseteq Executions
    /\ recovery \in [Leaders -> {"idle", "rows", "jobs"}]
    /\ stored \in [Leaders -> SUBSET Executions] /\ dangling \in [Leaders -> SUBSET Executions]
    /\ faults \in Nat

\* How far the main process is with an execution, and its job: there is no job, and no stop
\* of it, before it is added; who has been answered has been so at the end of a job or after
\* a failure; a job is only stopped for a promise that is rejected.
CallersAgree ==
    \A e \in Executions :
        /\ caller[e] \in {"idle", "created"} => job[e] = "none" /\ stopJob[e] = "no"
        /\ caller[e] = "judged" => job[e] \in {"stalled", "threw"}
        /\ caller[e] = "done" => job[e] \in {"completed", "cancelled", "stalled", "threw"}
        /\ promise[e] = "answered" => caller[e] \in {"judged", "failed", "done", "refused", "gone"}
        /\ stopJob[e] # "no" \/ job[e] \in {"cancelled", "removed"} => promise[e] = "rejected"
        /\ job[e] = "cancelled" => stopJob[e] \in {"done", "cut"}
        /\ job[e] = "stalled" => stalls[e] # 0

\* A job that has not stalled is at one worker, which holds its lock until a stop takes it away.
Alone ==
    \A e \in Executions : stalls[e] = 0 =>
        \A w \in Workers : work[w] = e =>
            /\ Locked(w, e) \/ job[e] = "cancelled"
            /\ \A v \in Workers : work[v] = e => v = w

\* The row of a job that has not stalled: in its final status when the worker has saved it,
\* and no success before.
RowsAgree ==
    \A e \in Executions : stalls[e] = 0 =>
        /\ job[e] = "completed" => row[e] \in Ended
        /\ \A w \in Workers : Busy(w, e, "saved") => row[e] \in Ended
        /\ caller[e] \in {"idle", "created", "judged"} \/ job[e] = "waiting" => row[e] # "success"
        /\ \A w \in Workers : Busy(w, e, "read") \/ Busy(w, e, "running") => row[e] # "success"

\* A stop that has told the workers, or found the job with none: it is with none, or the
\* message is on its way.
StopsReach ==
    \A e \in Executions : stalls[e] = 0 /\ stopJob[e] \in {"told", "done"} =>
        /\ job[e] # "waiting"
        /\ \A w \in Workers : (Busy(w, e, "read") \/ Busy(w, e, "running")) /\ e \notin missed =>
              <<w, e>> \in aborts

\* The inductive invariant.
ScalingInv ==
    /\ ScalingTypeOK /\ CallersAgree /\ Alone /\ RowsAgree /\ StopsReach /\ AnsweredIsOver

-----------------------------------------------------------------------------
(* The steps *)

\* What does not look at the variables of a step is kept by it.
LEMMA RestUnchanged ==
    ASSUME ScalingInv
    PROVE  /\ UNCHANGED <<job, holder, stalls, work>> => Alone'
           /\ UNCHANGED <<job, stalls, aborts, work, step, missed, stopJob>> => StopsReach'
           /\ UNCHANGED <<caller, promise, job, stopJob, stalls>> => CallersAgree'
           /\ UNCHANGED <<row, caller, job, stalls, work, step>> => RowsAgree'
           /\ UNCHANGED <<row, promise, stalls, caller>> => AnsweredIsOver'
BY DEF ScalingInv, Alone, Locked, StopsReach, Busy, CallersAgree, RowsAgree, AnsweredIsOver

\* The main process creates the execution and hands it to the queue.  Before the job is added
\* there is nothing at a worker that could write the row.
LEMMA CallersBegin ==
    ASSUME ScalingInv, NEW e \in Executions,
           \/ Create(e) \/ AddJob(e) \/ Attach(e) \/ EnqueueFails(e)
    PROVE  ScalingInv'
<1>1. CASE Create(e)
  <2>1. ScalingTypeOK'
    BY <1>1 DEF ScalingInv, ScalingTypeOK, Create, At, InProgress, Save, leader, queue, user, worker, times
  <2>2. CallersAgree'
    BY <1>1 DEF ScalingInv, CallersAgree, Create, At, queue, user
  <2>3. RowsAgree'
    BY <1>1 DEF ScalingInv, RowsAgree, CallersAgree, Alone, Create, At, Busy, Locked, Save, queue, worker
  <2>4. AnsweredIsOver'
    BY <1>1 DEF ScalingInv, AnsweredIsOver, CallersAgree, Create, At, Save, queue
  <2>5. Alone' /\ StopsReach'
    BY <1>1, RestUnchanged DEF Create, queue, user, worker
  <2> QED
    BY <2>1, <2>2, <2>3, <2>4, <2>5 DEF ScalingInv
<1>2. CASE AddJob(e)
  <2>1. ScalingTypeOK'
    BY <1>2 DEF ScalingInv, ScalingTypeOK, AddJob, At, leader, user, worker, times
  <2>2. CallersAgree'
    BY <1>2 DEF ScalingInv, CallersAgree, ScalingTypeOK, AddJob, At, user
  <2>3. Alone'
    BY <1>2 DEF ScalingInv, Alone, CallersAgree, AddJob, At, Locked, worker
  <2>4. RowsAgree'
    BY <1>2 DEF ScalingInv, RowsAgree, AddJob, At, Busy, worker
  <2>5. StopsReach'
    BY <1>2 DEF ScalingInv, StopsReach, CallersAgree, AddJob, At, Busy, user, worker
  <2>6. AnsweredIsOver'
    BY <1>2 DEF ScalingInv, AnsweredIsOver, AddJob, At
  <2> QED
    BY <2>1, <2>2, <2>3, <2>4, <2>5, <2>6 DEF ScalingInv
<1>3. CASE Attach(e)
  <2>1. ScalingTypeOK'
    BY <1>3 DEF ScalingInv, ScalingTypeOK, Attach, At, leader, queue, user, worker, times
  <2>2. CallersAgree'
    BY <1>3 DEF ScalingInv, CallersAgree, Attach, At, queue, user
  <2>3. RowsAgree'
    BY <1>3 DEF ScalingInv, RowsAgree, Attach, At, Busy, queue, worker
  <2>4. AnsweredIsOver'
    BY <1>3 DEF ScalingInv, AnsweredIsOver, Attach, At, queue
  <2>5. Alone' /\ StopsReach'
    BY <1>3, RestUnchanged DEF Attach, queue, user, worker
  <2> QED
    BY <2>1, <2>2, <2>3, <2>4, <2>5 DEF ScalingInv
<1>4. CASE EnqueueFails(e)
  <2>1. ScalingTypeOK'
    BY <1>4 DEF ScalingInv, ScalingTypeOK, EnqueueFails, At, Fault, Finalize, leader, queue, user, worker, times
  <2>2. CallersAgree'
    BY <1>4 DEF ScalingInv, CallersAgree, ScalingTypeOK, EnqueueFails, At, Finalize, queue, user
  <2>3. RowsAgree'
    BY <1>4 DEF ScalingInv, RowsAgree, ScalingTypeOK, EnqueueFails, At, Busy, queue, worker
  <2>4. AnsweredIsOver'
    BY <1>4 DEF ScalingInv, AnsweredIsOver, ScalingTypeOK, CallersAgree, EnqueueFails, At, Finalize, queue
  <2>5. Alone' /\ StopsReach'
    BY <1>4, RestUnchanged DEF EnqueueFails, queue, user, worker
  <2> QED
    BY <2>1, <2>2, <2>3, <2>4, <2>5 DEF ScalingInv
<1> QED
  BY <1>1, <1>2, <1>3, <1>4

\* It answers, or gives up.  A job that is completed has left its outcome in the row; one that
\* was cancelled has a promise that is rejected, and so answers nobody.
LEMMA CallersEnd ==
    ASSUME ScalingInv, NEW e \in Executions,
           \/ AnswerFromRow(e) \/ JudgeFailure(e) \/ SaveFailure(e) \/ MainCrashes(e)
    PROVE  ScalingInv'
<1>1. CASE AnswerFromRow(e)
  <2>1. ScalingTypeOK'
    BY <1>1 DEF ScalingInv, ScalingTypeOK, AnswerFromRow, At, Finalize, leader, queue, user, worker, times
  <2>2. CallersAgree'
    BY <1>1 DEF ScalingInv, CallersAgree, ScalingTypeOK, AnswerFromRow, At, Finalize, queue, user
  <2>3. RowsAgree'
    BY <1>1 DEF ScalingInv, RowsAgree, AnswerFromRow, At, Busy, queue, worker
  <2>4. AnsweredIsOver'
    BY <1>1 DEF ScalingInv, AnsweredIsOver, ScalingTypeOK, CallersAgree, RowsAgree, AnswerFromRow, At, Finalize, queue
  <2>5. Alone' /\ StopsReach'
    BY <1>1, RestUnchanged DEF AnswerFromRow, queue, user, worker
  <2> QED
    BY <2>1, <2>2, <2>3, <2>4, <2>5 DEF ScalingInv
<1>2. CASE JudgeFailure(e)
  <2>1. ScalingTypeOK'
    BY <1>2 DEF ScalingInv, ScalingTypeOK, JudgeFailure, At, Finalize, leader, queue, user, worker, times
  <2>2. CallersAgree'
    BY <1>2 DEF ScalingInv, CallersAgree, ScalingTypeOK, JudgeFailure, At, Finalize, queue, user
  <2>3. RowsAgree'
    BY <1>2 DEF ScalingInv, RowsAgree, ScalingTypeOK, JudgeFailure, At, Busy, queue, worker
  <2>4. AnsweredIsOver'
    BY <1>2 DEF ScalingInv, AnsweredIsOver, ScalingTypeOK, JudgeFailure, At, Finalize, InProgress, queue
  <2>5. Alone' /\ StopsReach'
    BY <1>2, RestUnchanged DEF JudgeFailure, queue, user, worker
  <2> QED
    BY <2>1, <2>2, <2>3, <2>4, <2>5 DEF ScalingInv
<1>3. CASE SaveFailure(e)
  <2>1. ScalingTypeOK'
    BY <1>3 DEF ScalingInv, ScalingTypeOK, SaveFailure, At, Ended, Save, leader, queue, user, worker, times
  <2>2. CallersAgree'
    BY <1>3 DEF ScalingInv, CallersAgree, ScalingTypeOK, SaveFailure, At, queue, user
  <2>3. RowsAgree'
    BY <1>3 DEF ScalingInv, RowsAgree, ScalingTypeOK, SaveFailure, At, Busy, Ended, Save, queue, worker
  <2>4. AnsweredIsOver'
    BY <1>3 DEF ScalingInv, AnsweredIsOver, ScalingTypeOK, SaveFailure, At, Ended, Save, queue
  <2>5. Alone' /\ StopsReach'
    BY <1>3, RestUnchanged DEF SaveFailure, queue, user, worker
  <2> QED
    BY <2>1, <2>2, <2>3, <2>4, <2>5 DEF ScalingInv
<1>4. CASE MainCrashes(e)
  <2>1. ScalingTypeOK'
    BY <1>4 DEF ScalingInv, ScalingTypeOK, MainCrashes, Fault, leader, queue, worker, times
  <2>2. CallersAgree'
    BY <1>4 DEF ScalingInv, CallersAgree, MainCrashes, queue
  <2>3. RowsAgree'
    BY <1>4 DEF ScalingInv, RowsAgree, MainCrashes, Busy, queue, worker
  <2>4. StopsReach'
    BY <1>4 DEF ScalingInv, StopsReach, MainCrashes, Busy, queue, worker
  <2>5. AnsweredIsOver'
    BY <1>4 DEF ScalingInv, AnsweredIsOver, MainCrashes, queue
  <2>6. Alone'
    BY <1>4, RestUnchanged DEF MainCrashes, queue, worker
  <2> QED
    BY <2>1, <2>2, <2>3, <2>4, <2>5, <2>6 DEF ScalingInv
<1> QED
  BY <1>1, <1>2, <1>3, <1>4

\* A user stops it, and what the stop does later.
LEMMA UsersKeep ==
    ASSUME ScalingInv, NEW e \in Executions,
           \/ StopHere(e) \/ StopElsewhere(e) \/ WriteStop(e) \/ StopJob(e) \/ RemoveJob(e) \/ FailJob(e)
    PROVE  ScalingInv'
<1>1. CASE StopHere(e)
  <2>1. ScalingTypeOK'
    BY <1>1 DEF ScalingInv, ScalingTypeOK, StopHere, leader, queue, worker, times
  <2>2. CallersAgree'
    BY <1>1 DEF ScalingInv, CallersAgree, ScalingTypeOK, StopHere, Attached, queue
  <2>3. StopsReach'
    BY <1>1 DEF ScalingInv, StopsReach, StopHere, Busy, queue, worker
  <2>4. AnsweredIsOver'
    BY <1>1 DEF ScalingInv, AnsweredIsOver, StopHere, queue
  <2>5. Alone' /\ RowsAgree'
    BY <1>1, RestUnchanged DEF StopHere, queue, worker
  <2> QED
    BY <2>1, <2>2, <2>3, <2>4, <2>5 DEF ScalingInv
<1>2. CASE StopElsewhere(e)
  <2>1. ScalingTypeOK'
    BY <1>2 DEF ScalingInv, ScalingTypeOK, StopElsewhere, leader, main, queue, worker, times
  <2>2. CallersAgree' /\ Alone' /\ RowsAgree' /\ StopsReach' /\ AnsweredIsOver'
    BY <1>2, RestUnchanged DEF StopElsewhere, main, queue, worker
  <2> QED
    BY <2>1, <2>2 DEF ScalingInv
<1>3. CASE WriteStop(e)
  <2>1. ScalingTypeOK'
    BY <1>3 DEF ScalingInv, ScalingTypeOK, WriteStop, Ended, Save, leader, main, queue, worker, times
  <2>2. RowsAgree'
    BY <1>3 DEF ScalingInv, RowsAgree, WriteStop, Busy, Ended, Save, main, queue, worker
  <2>3. AnsweredIsOver'
    BY <1>3 DEF ScalingInv, AnsweredIsOver, WriteStop, Ended, Save, main, queue
  <2>4. CallersAgree' /\ Alone' /\ StopsReach'
    BY <1>3, RestUnchanged DEF WriteStop, main, queue, worker
  <2> QED
    BY <2>1, <2>2, <2>3, <2>4 DEF ScalingInv
<1>4. CASE StopJob(e)
  <2>1. ScalingTypeOK'
    BY <1>4 DEF ScalingInv, ScalingTypeOK, StopJob, leader, main, worker, times
  <2>2. CallersAgree'
    BY <1>4 DEF ScalingInv, CallersAgree, StopJob, main
  <2>3. StopsReach'
    BY <1>4 DEF ScalingInv, StopsReach, StopJob, Busy, worker
  <2>4. Alone' /\ RowsAgree' /\ AnsweredIsOver'
    BY <1>4, RestUnchanged DEF StopJob, main, worker
  <2> QED
    BY <2>1, <2>2, <2>3, <2>4 DEF ScalingInv
<1>5. CASE RemoveJob(e)
  <2>1. ScalingTypeOK'
    BY <1>5 DEF ScalingInv, ScalingTypeOK, RemoveJob, leader, main, times
  <2>2. CallersAgree'
    BY <1>5 DEF ScalingInv, CallersAgree, RemoveJob, main
  <2>3. Alone'
    BY <1>5 DEF ScalingInv, Alone, RemoveJob, Locked
  <2>4. RowsAgree'
    BY <1>5 DEF ScalingInv, RowsAgree, RemoveJob, Busy, main
  <2>5. StopsReach'
    BY <1>5 DEF ScalingInv, StopsReach, ScalingTypeOK, CallersAgree, Alone, RemoveJob, Busy, Locked
  <2>6. AnsweredIsOver'
    BY <1>5, RestUnchanged DEF RemoveJob, main
  <2> QED
    BY <2>1, <2>2, <2>3, <2>4, <2>5, <2>6 DEF ScalingInv
<1>6. CASE FailJob(e)
  <2>1. ScalingTypeOK'
    BY <1>6 DEF ScalingInv, ScalingTypeOK, FailJob, leader, main, worker, times
  <2>2. CallersAgree'
    BY <1>6 DEF ScalingInv, CallersAgree, ScalingTypeOK, FailJob, main
  <2>3. Alone'
    BY <1>6 DEF ScalingInv, Alone, ScalingTypeOK, FailJob, Locked, worker
  <2>4. RowsAgree'
    BY <1>6 DEF ScalingInv, RowsAgree, FailJob, Busy, main, worker
  <2>5. StopsReach'
    BY <1>6 DEF ScalingInv, StopsReach, FailJob, Busy, worker
  <2>6. AnsweredIsOver'
    BY <1>6, RestUnchanged DEF FailJob, main
  <2> QED
    BY <2>1, <2>2, <2>3, <2>4, <2>5, <2>6 DEF ScalingInv
<1> QED
  BY <1>1, <1>2, <1>3, <1>4, <1>5, <1>6

\* A job that stalls may be at two workers from then on; nothing is claimed of it.
LEMMA StallKeeps ==
    ASSUME ScalingInv, NEW e \in Executions,
           Stall(e)
    PROVE  ScalingInv'
<1>1. ScalingTypeOK'
  BY DEF ScalingInv, ScalingTypeOK, Stall, Fault, leader, main, user, worker, times
<1>2. CallersAgree'
  BY DEF ScalingInv, CallersAgree, ScalingTypeOK, Stall, main, user
<1>3. Alone'
  BY DEF ScalingInv, Alone, ScalingTypeOK, Stall, Locked, worker
<1>4. RowsAgree'
  BY DEF ScalingInv, RowsAgree, ScalingTypeOK, Stall, Busy, main, worker
<1>5. StopsReach'
  BY DEF ScalingInv, StopsReach, ScalingTypeOK, Stall, Busy, user, worker
<1>6. AnsweredIsOver'
  BY DEF ScalingInv, AnsweredIsOver, ScalingTypeOK, Stall, main
<1> QED
  BY <1>1, <1>2, <1>3, <1>4, <1>5, <1>6 DEF ScalingInv

\* A worker takes a job, runs it, saves its row and lets the job go.  That it is alone with it
\* keeps the others' rows and answers out of reach.
LEMMA WorkersKeep ==
    ASSUME ScalingInv, NEW w \in Workers, NEW e \in Executions,
           \/ TakeJob(w, e) \/ SetRunning(w, e) \/ EndRun(w, e) \/ Complete(w, e) \/ JobThrows(w, e) \/ HandleAbort(w, e)
    PROVE  ScalingInv'
<1>1. CASE TakeJob(w, e)
  <2>1. ScalingTypeOK'
    BY <1>1 DEF ScalingInv, ScalingTypeOK, TakeJob, leader, main, user, times
  <2>2. CallersAgree'
    BY <1>1 DEF ScalingInv, CallersAgree, TakeJob, main, user
  <2>3. Alone'
    BY <1>1 DEF ScalingInv, Alone, ScalingTypeOK, TakeJob, Locked
  <2>4. RowsAgree'
    BY <1>1 DEF ScalingInv, RowsAgree, ScalingTypeOK, TakeJob, Busy, InProgress, main
  <2>5. StopsReach'
    BY <1>1 DEF ScalingInv, StopsReach, ScalingTypeOK, TakeJob, Busy, user
  <2>6. AnsweredIsOver'
    BY <1>1, RestUnchanged DEF TakeJob, main
  <2> QED
    BY <2>1, <2>2, <2>3, <2>4, <2>5, <2>6 DEF ScalingInv
<1>2. CASE SetRunning(w, e)
  <2>1. ScalingTypeOK'
    BY <1>2 DEF ScalingInv, ScalingTypeOK, SetRunning, InProgress, Save, leader, main, queue, user
  <2>2. RowsAgree'
    BY <1>2 DEF ScalingInv, RowsAgree, Alone, SetRunning, Busy, Locked, Save, main, queue
  <2>3. StopsReach'
    BY <1>2 DEF ScalingInv, StopsReach, SetRunning, Busy, queue, user
  <2>4. AnsweredIsOver'
    BY <1>2 DEF ScalingInv, AnsweredIsOver, ScalingTypeOK, CallersAgree, Alone, SetRunning, Busy, Locked, Save, main, queue
  <2>5. CallersAgree' /\ Alone'
    BY <1>2, RestUnchanged DEF SetRunning, main, queue, user
  <2> QED
    BY <2>1, <2>2, <2>3, <2>4, <2>5 DEF ScalingInv
<1>3. CASE EndRun(w, e)
  <2>1. ScalingTypeOK'
    BY <1>3 DEF ScalingInv, ScalingTypeOK, EndRun, Ended, Save, leader, main, queue, user, times
  <2>2. RowsAgree'
    BY <1>3 DEF ScalingInv, RowsAgree, ScalingTypeOK, CallersAgree, Alone, EndRun, Busy, Ended, Locked, Save, main, queue
  <2>3. StopsReach'
    BY <1>3 DEF ScalingInv, StopsReach, EndRun, Busy, queue, user
  <2>4. AnsweredIsOver'
    BY <1>3 DEF ScalingInv, AnsweredIsOver, ScalingTypeOK, EndRun, Ended, Save, main, queue
  <2>5. CallersAgree' /\ Alone'
    BY <1>3, RestUnchanged DEF EndRun, main, queue, user
  <2> QED
    BY <2>1, <2>2, <2>3, <2>4, <2>5 DEF ScalingInv
<1>4. CASE Complete(w, e)
  <2>1. ScalingTypeOK'
    BY <1>4 DEF ScalingInv, ScalingTypeOK, Complete, LeavesActive, Rest, leader, main, user, times
  <2>2. CallersAgree'
    BY <1>4 DEF ScalingInv, CallersAgree, Complete, LeavesActive, Locked, main, user
  <2>3. Alone'
    BY <1>4, ScalingAssumption DEF ScalingInv, Alone, ScalingTypeOK, Complete, LeavesActive, Locked, Rest
  <2>4. RowsAgree'
    BY <1>4 DEF ScalingInv, RowsAgree, ScalingTypeOK, Complete, Busy, LeavesActive, Rest, main
  <2>5. StopsReach'
    BY <1>4 DEF ScalingInv, StopsReach, Complete, Busy, LeavesActive, Rest, user
  <2>6. AnsweredIsOver'
    BY <1>4, RestUnchanged DEF Complete, main
  <2> QED
    BY <2>1, <2>2, <2>3, <2>4, <2>5, <2>6 DEF ScalingInv
<1>5. CASE JobThrows(w, e)
  <2>1. ScalingTypeOK'
    BY <1>5 DEF ScalingInv, ScalingTypeOK, JobThrows, Fault, LeavesActive, Rest, leader, main, user, times
  <2>2. CallersAgree'
    BY <1>5 DEF ScalingInv, CallersAgree, JobThrows, LeavesActive, Locked, main, user
  <2>3. Alone'
    BY <1>5, ScalingAssumption DEF ScalingInv, Alone, ScalingTypeOK, JobThrows, LeavesActive, Locked, Rest
  <2>4. RowsAgree'
    BY <1>5 DEF ScalingInv, RowsAgree, ScalingTypeOK, JobThrows, Busy, LeavesActive, Rest, main
  <2>5. StopsReach'
    BY <1>5 DEF ScalingInv, StopsReach, ScalingTypeOK, JobThrows, Busy, LeavesActive, Rest, user
  <2>6. AnsweredIsOver'
    BY <1>5, RestUnchanged DEF JobThrows, main
  <2> QED
    BY <2>1, <2>2, <2>3, <2>4, <2>5, <2>6 DEF ScalingInv
<1>6. CASE HandleAbort(w, e)
  <2>1. ScalingTypeOK'
    BY <1>6 DEF ScalingInv, ScalingTypeOK, HandleAbort, Ended, Save, leader, main, user, times
  <2>2. RowsAgree'
    BY <1>6 DEF ScalingInv, RowsAgree, ScalingTypeOK, HandleAbort, Busy, Ended, Save, main
  <2>3. StopsReach'
    BY <1>6 DEF ScalingInv, StopsReach, ScalingTypeOK, HandleAbort, Busy, user
  <2>4. AnsweredIsOver'
    BY <1>6 DEF ScalingInv, AnsweredIsOver, ScalingTypeOK, HandleAbort, Ended, Save, main
  <2>5. CallersAgree' /\ Alone'
    BY <1>6, RestUnchanged DEF HandleAbort, main, user
  <2> QED
    BY <2>1, <2>2, <2>3, <2>4, <2>5 DEF ScalingInv
<1> QED
  BY <1>1, <1>2, <1>3, <1>4, <1>5, <1>6

\* A worker that crashes leaves its job to the queue.
LEMMA WorkerCrashKeeps ==
    ASSUME ScalingInv, NEW w \in Workers,
           WorkerCrashes(w)
    PROVE  ScalingInv'
<1>1. ScalingTypeOK'
  BY DEF ScalingInv, ScalingTypeOK, WorkerCrashes, Fault, Rest, leader, main, user, times
<1>2. Alone'
  BY ScalingAssumption DEF ScalingInv, Alone, WorkerCrashes, Locked, Rest
<1>3. RowsAgree'
  BY DEF ScalingInv, RowsAgree, ScalingTypeOK, WorkerCrashes, Busy, Rest, main
<1>4. StopsReach'
  BY DEF ScalingInv, StopsReach, ScalingTypeOK, WorkerCrashes, Busy, Rest, user
<1>5. CallersAgree' /\ AnsweredIsOver'
  BY RestUnchanged DEF WorkerCrashes, main, user
<1> QED
  BY <1>1, <1>2, <1>3, <1>4, <1>5 DEF ScalingInv

\* Queue recovery writes a final status, to whatever row.
LEMMA LeadersKeep ==
    ASSUME ScalingInv, NEW m \in Leaders,
           \/ ReadRows(m) \/ ReadJobs(m) \/ MarkAsCrashed(m)
    PROVE  ScalingInv'
<1>1. CASE ReadRows(m)
  <2>1. ScalingTypeOK'
    BY <1>1 DEF ScalingInv, ScalingTypeOK, ReadRows, Recovering, Batches, InProgressRows, main, queue, user, worker, times
  <2>2. CallersAgree' /\ Alone' /\ RowsAgree' /\ StopsReach' /\ AnsweredIsOver'
    BY <1>1, RestUnchanged DEF ReadRows, main, queue, user, worker
  <2> QED
    BY <2>1, <2>2 DEF ScalingInv
<1>2. CASE ReadJobs(m)
  <2>1. ScalingTypeOK'
    BY <1>2 DEF ScalingInv, ScalingTypeOK, ReadJobs, Recovering, main, queue, user, worker, times
  <2>2. CallersAgree' /\ Alone' /\ RowsAgree' /\ StopsReach' /\ AnsweredIsOver'
    BY <1>2, RestUnchanged DEF ReadJobs, main, queue, user, worker
  <2> QED
    BY <2>1, <2>2 DEF ScalingInv
<1>3. CASE MarkAsCrashed(m)
  <2>1. ScalingTypeOK'
    BY <1>3 DEF ScalingInv, ScalingTypeOK, MarkAsCrashed, Ended, Recovering, main, queue, user, worker, times
  <2>2. RowsAgree'
    BY <1>3 DEF ScalingInv, RowsAgree, MarkAsCrashed, Busy, Ended, main, queue, worker
  <2>3. AnsweredIsOver'
    BY <1>3 DEF ScalingInv, AnsweredIsOver, MarkAsCrashed, Ended, main, queue
  <2>4. CallersAgree' /\ Alone' /\ StopsReach'
    BY <1>3, RestUnchanged DEF MarkAsCrashed, main, queue, user, worker
  <2> QED
    BY <2>1, <2>2, <2>3, <2>4 DEF ScalingInv
<1> QED
  BY <1>1, <1>2, <1>3

-----------------------------------------------------------------------------
(* The theorems *)

LEMMA InitScaling == Init => ScalingInv
<1> SUFFICES ASSUME Init PROVE ScalingInv
  OBVIOUS
<1>1. ScalingTypeOK
  BY DEF Init, ScalingTypeOK
<1>2. CallersAgree /\ RowsAgree /\ AnsweredIsOver
  BY DEF Init, CallersAgree, RowsAgree, AnsweredIsOver, Busy
<1>3. Alone /\ StopsReach
  BY ScalingAssumption DEF Init, Alone, StopsReach
<1> QED
  BY <1>1, <1>2, <1>3 DEF ScalingInv

\* Nothing that happens, in whatever order, breaks the invariant.
LEMMA NextKeepsScaling == ScalingInv /\ [Next]_vars => ScalingInv'
<1> SUFFICES ASSUME ScalingInv, [Next]_vars PROVE ScalingInv'
  OBVIOUS
<1>1. ASSUME NEW e \in Executions,
             \/ Create(e) \/ Run(e) \/ EnqueueFails(e) \/ MainCrashes(e)
             \/ StopHere(e) \/ StopElsewhere(e) \/ WriteStop(e) \/ Stop(e) \/ Stall(e)
      PROVE  ScalingInv'
  BY <1>1, CallersBegin, CallersEnd, UsersKeep, StallKeeps DEF Run, Stop
<1>2. ASSUME NEW e \in Executions, NEW w \in Workers, TakeJob(w, e) \/ Process(w, e) \/ JobThrows(w, e)
      PROVE  ScalingInv'
  BY <1>2, WorkersKeep DEF Process
<1>3. ASSUME NEW w \in Workers, WorkerCrashes(w) PROVE ScalingInv'
  BY <1>3, WorkerCrashKeeps
<1>4. ASSUME NEW m \in Leaders, Recover(m) PROVE ScalingInv'
  BY <1>4, LeadersKeep DEF Recover
<1>5. CASE UNCHANGED vars
  <2>1. ScalingTypeOK'
    BY <1>5 DEF ScalingInv, ScalingTypeOK, vars, times
  <2>2. CallersAgree' /\ Alone' /\ RowsAgree' /\ StopsReach' /\ AnsweredIsOver'
    BY <1>5, RestUnchanged DEF vars
  <2> QED
    BY <2>1, <2>2 DEF ScalingInv
<1> QED
  BY <1>1, <1>2, <1>3, <1>4, <1>5 DEF Next

\* The state of mains, users, queue, workers and leaders always has its type.
THEOREM ScalingIsTyped == Spec => []ScalingTypeOK
<1>1. ScalingInv => ScalingTypeOK
  BY DEF ScalingInv
<1> QED
  BY InitScaling, NextKeepsScaling, <1>1, PTL DEF Spec

\* Who has been answered has an execution that is over: its row is in a final status and
\* stays there, whoever else writes it, once the failure that was the answer is saved, and
\* unless the main crashed before that, the job stalled or its caller was refused.
THEOREM AnswersAreFinal == Spec => []AnsweredIsOver
<1>1. ScalingInv => AnsweredIsOver
  BY DEF ScalingInv
<1> QED
  BY InitScaling, NextKeepsScaling, <1>1, PTL DEF Spec

\* A stop that has run and of which all workers have heard has ended the run, unless it passed
\* the run by on its way to the worker, or the job stalled.
THEOREM StopsEndRuns == Spec => []StoppedRunEnds
<1>1. ScalingInv => StoppedRunEnds
  <2> SUFFICES ASSUME ScalingInv, NEW e \in Executions, stopJob[e] = "done",
                      \A w \in Workers : <<w, e>> \notin aborts,
                      e \notin missed, ~(stalls[e] > 0)
               PROVE  \A w \in Workers : ~Busy(w, e, "running")
    BY DEF StoppedRunEnds
  <2>1. stalls[e] = 0
    BY DEF ScalingInv, ScalingTypeOK
  <2> QED
    BY <2>1 DEF ScalingInv, StopsReach
<1> QED
  BY InitScaling, NextKeepsScaling, <1>1, PTL DEF Spec

\* No step writes an error over a success, but that of a job which stalled, or of a hook that
\* fails when the worker has the job already.
THEOREM SuccessStays == Spec => SuccessIsKept
<1> DEFINE Kept == \A e \in Executions :
                      row[e] = "success" /\ row'[e] = "error" => stalls[e] > 0 \/ caller[e] = "failed"
<1>1. ScalingInv /\ [Next]_vars => [Kept]_vars
  <2> SUFFICES ASSUME ScalingInv, Next,
                      NEW e \in Executions, row[e] = "success", row'[e] = "error", stalls[e] = 0
               PROVE  caller[e] = "failed"
    BY DEF ScalingInv, ScalingTypeOK
  <2>1. ASSUME NEW d \in Executions,
               \/ Create(d) \/ Run(d) \/ EnqueueFails(d) \/ MainCrashes(d)
               \/ StopHere(d) \/ StopElsewhere(d) \/ WriteStop(d) \/ Stop(d) \/ Stall(d)
        PROVE  caller[e] = "failed"
    <3>1. SaveFailure(d)
      BY <2>1 DEF ScalingInv, ScalingTypeOK, Run, Stop, Create, AddJob, Attach, AnswerFromRow, JudgeFailure,
                  EnqueueFails, MainCrashes, StopHere, StopElsewhere, WriteStop, StopJob, RemoveJob, FailJob,
                  Stall, Save
    <3>2. e = d /\ (caller[e] = "failed" \/ caller[e] = "judged")
      BY <3>1 DEF ScalingInv, ScalingTypeOK, SaveFailure, At, Save
    <3> QED
      BY <3>2 DEF ScalingInv, RowsAgree
  <2>2. ASSUME NEW d \in Executions, NEW w \in Workers, TakeJob(w, d) \/ Process(w, d) \/ JobThrows(w, d)
        PROVE  caller[e] = "failed"
    <3>1. EndRun(w, d)
      BY <2>2 DEF ScalingInv, ScalingTypeOK, Process, TakeJob, SetRunning, Complete, HandleAbort, JobThrows, Save
    <3>2. e = d /\ Busy(w, e, "running")
      BY <3>1 DEF ScalingInv, ScalingTypeOK, EndRun, Save
    <3> QED
      BY <3>2 DEF ScalingInv, RowsAgree
  <2>3. ASSUME NEW w \in Workers, WorkerCrashes(w) PROVE FALSE
    BY <2>3 DEF WorkerCrashes
  <2>4. ASSUME NEW m \in Leaders, Recover(m) PROVE FALSE
    BY <2>4 DEF Recover, ReadRows, ReadJobs, MarkAsCrashed
  <2> QED
    BY <2>1, <2>2, <2>3, <2>4 DEF Next
<1> QED
  BY InitScaling, NextKeepsScaling, <1>1, PTL DEF Spec, SuccessIsKept
=============================================================================
