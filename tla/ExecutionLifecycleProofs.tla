---------------------- MODULE ExecutionLifecycleProofs ----------------------
(***************************************************************************)
(* Theorems about the life of executions in regular mode: the runner, the   *)
(* wait tracker, stops and restarts call the limiter as it expects to be    *)
(* called, so that its accounts are right in every state of the system, not *)
(* only under the callers of ConcurrencyControl!Spec; no execution is       *)
(* forgotten in the queue or as running, none runs again after its success, *)
(* and the engines at work keep to the limit.                               *)
(***************************************************************************)
EXTENDS ExecutionLifecycle, ConcurrencyControlProofs

Statuses == {"none", "new", "running", "success", "error", "waiting", "canceled", "crashed"}

Rows == [status : Statuses, waitTill : BOOLEAN, finished : BOOLEAN]

RunRecords ==
    [exec : Executions \cup {NoRun}, resumes : BOOLEAN, responds : BOOLEAN,
     pc : {"unused", "created", "throttled", "added", "checked", "engine", "saving", "saved",
           "done", "removed"},
     status : {"running", "waiting"}, settled : BOOLEAN, response : BOOLEAN,
     engine : Runs \cup {NoRun}, tracked : BOOLEAN, timeout : BOOLEAN, cancelled : BOOLEAN,
     cancelSave : BOOLEAN, outcome : {"none", "success", "error", "waiting"}]

Amendments ==
    [exec : Executions \cup {NoRun}, at : {"none", "marked", "read", "saved"}, row : Rows]

\* The state of the rows, the runs, the wait tracker and the process.
LifeTypeOK ==
    /\ db \in [Executions -> Rows]
    /\ run \in [Runs -> RunRecords]
    /\ active \in [Executions -> Runs \cup {NoRun}]
    /\ timers \subseteq Executions /\ polled \subseteq Executions
    /\ bootList \subseteq Executions /\ recovering \subseteq Executions
    /\ stop \in [Executions -> {"none", "beforeRun", "duringRun"}]
    /\ phase \in {"up", "stopping", "draining", "down", "starting", "recovering", "marking",
                  "booting"}
    /\ log \in [Executions -> SUBSET {"workflow", "node"}]
    /\ amended \in Amendments
    /\ recoveryFile \in BOOLEAN
    /\ crashes \in Nat

Queued(t) == {queue[t][i] : i \in 1..Len(queue[t])}

Counter(r) == QueueOf(Mode[run[r].exec])

\* An entry in a queue is that of the run which waits there, and of its execution.
QueuesAgree ==
    \A t \in Queues : \A x \in Queued(t) :
        /\ run[x.run].exec = x.executionId
        /\ run[x.run].pc = "throttled"
        /\ Counter(x.run) = t

\* Who is inside has called and not been answered yet; who has called and does not wait is
\* inside, if it is counted.
PlacesAgree ==
    /\ \A t \in Queues : \A r \in holders[t] :
          /\ Counter(r) = t
          /\ run[r].pc \notin {"unused", "created", "removed"}
          /\ isEnabled => ~run[r].settled
    /\ \A r \in Runs :
          isEnabled /\ run[r].pc = "throttled" /\ Counter(r) \in Queues /\ r \notin Waiting =>
              r \in holders[Counter(r)]

\* A run before it is registered, and one that goes to its end.
RunsAgree ==
    \A r \in Runs :
        /\ run[r].pc # "unused" => run[r].exec \in Executions
        /\ run[r].pc \in {"created", "throttled"} => ~run[r].settled /\ run[r].status = "running"
        /\ run[r].pc = "saving" => run[r].outcome # "none"

\* The entry under an id is of a run of that execution that has been let through.  As long
\* as its promise is pending it has its place; when it has settled, the execution waits.
EntryAgrees(e, x) ==
    /\ run[x].exec = e
    /\ run[x].pc \notin {"unused", "created", "throttled", "removed"}
    /\ run[x].settled => run[x].status = "waiting"
    /\ isEnabled /\ ~run[x].settled /\ Counter(x) \in Queues => x \in holders[Counter(x)]
    /\ run[x].pc \in {"engine", "saving", "saved"} => run[x].tracked
    /\ run[x].pc = "done" => run[x].settled

EntriesAgree == \A e \in Executions : active[e] # NoRun => EntryAgrees(e, active[e])

\* Where there are runs, timers or lists there is a row.
RowsExist ==
    \A e \in Executions : db[e].status = "none" =>
        /\ e \notin timers \cup polled \cup bootList /\ ~db[e].waitTill
        /\ \A r \in Runs : run[r].exec = e => run[r].pc = "unused"

\* An execution that is new has no run that has been let through.
NewAgrees ==
    \A e \in Executions : db[e].status = "new" =>
        \A r \in Runs : run[r].exec = e =>
           run[r].pc \in {"unused", "created", "throttled", "removed"}

\* In the first life of the process, nothing resumes an execution without a Wait node.
NothingResumes ==
    crashes = 0 =>
        /\ phase \in {"up", "stopping", "draining"} /\ bootList = {}
        /\ \A e \in Executions \ MayWait : e \notin timers \cup polled /\ ~db[e].waitTill
        /\ \A r \in Runs : run[r].pc # "unused" /\ run[r].exec \notin MayWait =>
              run[r].status = "running" /\ run[r].outcome # "waiting"

\* It therefore has one run, whose entry stays until the run gives its place back.
OneRunEach ==
    crashes = 0 => \A r \in Runs : run[r].pc # "unused" /\ run[r].exec \notin MayWait =>
        /\ isEnabled /\ r \in Holding /\ run[r].pc # "throttled" => active[run[r].exec] = r
        /\ \A s \in Runs : run[s].pc # "unused" /\ run[s].exec = run[r].exec => s = r

\* Recovery only amends while it is on, and only what has been more than enqueued.
AmendedAgrees ==
    amended.at # "none" =>
        /\ phase = "recovering" /\ amended.exec \in Executions
        /\ amended.at = "marked" => db[amended.exec].status \notin {"none", "new"}
        /\ amended.at # "marked" => amended.row.status \notin {"none", "new"}

\* The inductive invariant (with AmendedAgrees, of which only recovery makes use).
LifeInv ==
    /\ IInv /\ LifeTypeOK /\ QueuesAgree /\ PlacesAgree /\ RunsAgree /\ EntriesAgree /\ RowsExist
    /\ NewAgrees /\ NothingResumes /\ OneRunEach /\ EnqueuedNotForgotten

-----------------------------------------------------------------------------
(* What a call of the limiter does to the runs *)

\* A caller is let in or waits.
LEMMA ThrottleMoves ==
    ASSUME IInv, NEW r \in Runs, NEW e \in Executions, r \notin Waiting \cup Holding,
           Throttle(r, e)
    PROVE  /\ IInv' /\ isEnabled' = isEnabled
           /\ \A t \in Queues :
                 /\ Queued(t) \subseteq Queued(t)' /\ holders[t] \subseteq holders'[t]
                 /\ \A x \in Queued(t)' \ Queued(t) :
                       QueueOf(Mode[e]) = t /\ x = [executionId |-> e, run |-> r]
                 /\ \A s \in holders'[t] \ holders[t] : QueueOf(Mode[e]) = t /\ s = r
           /\ isEnabled /\ QueueOf(Mode[e]) \in Queues /\ r \notin Waiting' =>
                 r \in holders'[QueueOf(Mode[e])]
<1> DEFINE t == QueueOf(Mode[e])
<1>0. TypeOK
  BY DEF IInv
<1>1. CASE Unlimited(e) /\ UNCHANGED <<capacity, queue, holders>>
  <2>1. IInv'
    BY <1>1, StutterKeepsIInv DEF Throttle
  <2> QED
    BY <1>1, <2>1 DEF Throttle, Queued, Unlimited
<1>2. CASE ~Unlimited(e) /\ Enqueue(t, r, e)
  <2>1. t \in Queues /\ isEnabled' = isEnabled /\ r \notin RunsIn(queue[t]) \cup holders[t]
    BY <1>2 DEF Unlimited, Throttle, Waiting, Holding
  <2>2. IInv'
    BY <1>2, <2>1, EnqueueKeepsIInv
  <2>3. CASE queue' = queue /\ holders' = [holders EXCEPT ![t] = @ \cup {r}]
    BY <1>0, <2>1, <2>2, <2>3 DEF Queued, TypeOK
  <2>4. CASE holders' = holders
             /\ queue' = [queue EXCEPT ![t] = Append(@, [executionId |-> e, run |-> r])]
    <3> DEFINE x == [executionId |-> e, run |-> r]
    <3>1. /\ queue[t] \in Seq(Entries) /\ queue'[t] = Append(queue[t], x)
          /\ \A u \in Queues \ {t} : queue'[u] = queue[u]
      BY <1>0, <2>1, <2>4 DEF TypeOK
    <3>2. Queued(t)' = Queued(t) \cup {x}
      BY <3>1 DEF Queued
    <3>3. \A u \in Queues \ {t} : Queued(u)' = Queued(u)
      BY <3>1 DEF Queued
    <3>4. r \in Waiting'
      <4>1. x \in Queued(t)' /\ x.run = r
        BY <3>2
      <4>2. r \in RunsIn(queue'[t])
        BY <4>1 DEF Queued, RunsIn
      <4> QED
        BY <2>1, <4>2 DEF Waiting
    <3> QED
      BY <2>1, <2>2, <2>4, <3>2, <3>3, <3>4
  <2> QED
    BY <1>2, <2>3, <2>4 DEF Enqueue
<1> QED
  BY <1>1, <1>2 DEF Throttle

\* What is left of a queue after resolveNext, and who is inside then.
LEMMA ResolveNextMoves ==
    ASSUME TypeOK, NEW t \in Queues, NEW rest \in Seq(Entries), NEW inside \in SUBSET Runs,
           ResolveNext(t, rest, inside)
    PROVE  /\ \A u \in Queues \ {t} : Queued(u)' = Queued(u) /\ holders'[u] = holders[u]
           /\ inside \subseteq holders'[t]
           /\ \A x \in Queued(t)' : \E i \in 1..Len(rest) : x = rest[i]
           /\ \A i \in 1..Len(rest) : rest[i] \in Queued(t)' \/ rest[i].run \in holders'[t]
           /\ \A s \in holders'[t] \ inside : \E i \in 1..Len(rest) : s = rest[i].run
<1>1. queue \in [Queues -> Seq(Entries)] /\ holders \in [Queues -> SUBSET Runs]
  BY DEF TypeOK
<1>2. CASE rest = << >>
  BY <1>1, <1>2 DEF ResolveNext, Queued
<1>3. CASE rest # << >>
  <2>1. /\ queue'[t] = Tail(rest) /\ holders'[t] = inside \cup {rest[1].run}
        /\ \A u \in Queues \ {t} : queue'[u] = queue[u] /\ holders'[u] = holders[u]
    BY <1>1, <1>3 DEF ResolveNext
  <2>2. /\ Len(Tail(rest)) = Len(rest) - 1 /\ Len(rest) \in Nat /\ Len(rest) >= 1
        /\ \A i \in 1..(Len(rest) - 1) : Tail(rest)[i] = rest[i + 1]
    BY <1>3
  <2>3. \A i \in 1..Len(rest) :
           i = 1 \/ (i - 1 \in 1..Len(Tail(rest)) /\ rest[i] = Tail(rest)[i - 1])
    BY <2>2
  <2>4. \A u \in Queues \ {t} : Queued(u)' = Queued(u) /\ holders'[u] = holders[u]
    BY <2>1 DEF Queued
  <2>5. \A x \in Queued(t)' : \E i \in 1..Len(rest) : x = rest[i]
    <3>1. \A i \in 1..(Len(rest) - 1) : i + 1 \in 1..Len(rest) /\ queue'[t][i] = rest[i + 1]
      BY <2>1, <2>2
    <3>2. Len(queue'[t]) = Len(rest) - 1
      BY <2>1, <2>2
    <3> QED
      BY <3>1, <3>2 DEF Queued
  <2>6. \A i \in 1..Len(rest) : rest[i] \in Queued(t)' \/ rest[i].run \in holders'[t]
    <3>1. \A i \in 1..Len(rest) : i = 1 \/ rest[i] \in Queued(t)'
      BY <2>1, <2>3 DEF Queued
    <3> QED
      BY <2>1, <3>1
  <2>7. \A s \in holders'[t] \ inside : \E i \in 1..Len(rest) : s = rest[i].run
    BY <2>1, <2>2
  <2> QED
    BY <2>1, <2>4, <2>5, <2>6, <2>7
<1> QED
  BY <1>2, <1>3

\* Who leaves hands the place to one who waits.
LEMMA ReleaseMoves ==
    ASSUME IInv, NEW r \in Runs, NEW e \in Executions, Release(r, e),
           isEnabled /\ QueueOf(Mode[e]) \in Queues => r \in holders[QueueOf(Mode[e])]
    PROVE  /\ IInv' /\ isEnabled' = isEnabled
           /\ \A t \in Queues :
                 /\ Queued(t)' \subseteq Queued(t) /\ holders[t] \ {r} \subseteq holders'[t]
                 /\ \A x \in Queued(t) \ Queued(t)' : x.run \in holders'[t]
                 /\ \A s \in holders'[t] \ holders[t] : \E x \in Queued(t) : s = x.run
           /\ isEnabled /\ QueueOf(Mode[e]) \in Queues => r \notin holders'[QueueOf(Mode[e])]
<1> DEFINE t == QueueOf(Mode[e])
<1>0. TypeOK /\ \A u \in Queues : InOnePlace(queue[u], holders[u])
  BY DEF IInv
<1>1. CASE Unlimited(e) /\ UNCHANGED <<capacity, queue, holders>>
  <2>1. IInv'
    BY <1>1, StutterKeepsIInv DEF Release
  <2> QED
    BY <1>1, <2>1 DEF Release, Queued, Unlimited
<1>2. CASE ~Unlimited(e) /\ Dequeue(t, r)
  <2>1. t \in Queues /\ isEnabled' = isEnabled /\ r \in holders[t]
    BY <1>2 DEF Unlimited, Release
  <2>2. IInv'
    BY <1>2, <2>1, DequeueKeepsIInv
  <2>3. /\ queue[t] \in Seq(Entries) /\ holders[t] \in SUBSET Runs
        /\ ResolveNext(t, queue[t], holders[t] \ {r})
    BY <1>0, <1>2, <2>1 DEF TypeOK, Dequeue
  <2>4. /\ \A u \in Queues \ {t} : Queued(u)' = Queued(u) /\ holders'[u] = holders[u]
        /\ holders[t] \ {r} \subseteq holders'[t]
        /\ \A x \in Queued(t)' : \E i \in 1..Len(queue[t]) : x = queue[t][i]
        /\ \A i \in 1..Len(queue[t]) :
              queue[t][i] \in Queued(t)' \/ queue[t][i].run \in holders'[t]
        /\ \A s \in holders'[t] \ (holders[t] \ {r}) : \E i \in 1..Len(queue[t]) :
              s = queue[t][i].run
    BY <1>0, <2>1, <2>3, ResolveNextMoves
  <2>5. r \notin RunsIn(queue[t])
    BY <1>0, <2>1 DEF InOnePlace
  <2>6. Queued(t)' \subseteq Queued(t) /\ \A x \in Queued(t) \ Queued(t)' : x.run \in holders'[t]
    <3>1. Queued(t)' \subseteq Queued(t)
      BY <2>4 DEF Queued
    <3>2. ASSUME NEW x \in Queued(t), x \notin Queued(t)'
          PROVE  x.run \in holders'[t]
      <4>1. PICK i \in 1..Len(queue[t]) : x = queue[t][i]
        BY DEF Queued
      <4> QED
        BY <2>4, <3>2, <4>1
    <3> QED
      BY <3>1, <3>2
  <2>7. \A s \in holders'[t] \ holders[t] : \E x \in Queued(t) : s = x.run
    BY <2>4 DEF Queued
  <2>8. r \notin holders'[t]
    BY <2>4, <2>5 DEF RunsIn
  <2> QED
    BY <2>1, <2>2, <2>4, <2>6, <2>7, <2>8
<1> QED
  BY <1>1, <1>2 DEF Release

\* An entry that is removed was of that execution; another run may have been let in.
LEMMA RemoveMoves ==
    ASSUME IInv, NEW e \in Executions, Remove(e)
    PROVE  /\ IInv' /\ isEnabled' = isEnabled
           /\ \A t \in Queues :
                 /\ Queued(t)' \subseteq Queued(t) /\ holders[t] \subseteq holders'[t]
                 /\ \A x \in Queued(t) \ Queued(t)' : x.executionId = e \/ x.run \in holders'[t]
                 /\ \A s \in holders'[t] \ holders[t] : \E x \in Queued(t) : s = x.run
<1> DEFINE t == QueueOf(Mode[e])
<1>0. TypeOK
  BY DEF IInv
<1>1. CASE UNCHANGED <<capacity, queue, holders>>
  <2>1. IInv'
    BY <1>1, StutterKeepsIInv DEF Remove
  <2> QED
    BY <1>1, <2>1 DEF Remove, Queued
<1>2. CASE ~Unlimited(e) /\ RemoveFrom(t, e) /\ ~(UNCHANGED <<capacity, queue, holders>>)
  <2>1. t \in Queues /\ isEnabled' = isEnabled
    BY <1>2 DEF Unlimited, Remove
  <2>2. IInv'
    BY <1>2, <2>1, RemoveFromKeepsIInv
  <2>3. PICK i \in 1..Len(queue[t]) :
            /\ queue[t][i].executionId = e
            /\ ResolveNext(t, Without(queue[t], i), holders[t])
    BY <1>2 DEF RemoveFrom, FirstOf
  <2>4. queue[t] \in Seq(Entries) /\ holders[t] \in SUBSET Runs
    BY <1>0, <2>1 DEF TypeOK
  <2> DEFINE w == Without(queue[t], i)
  <2>5. /\ w \in Seq(Entries) /\ Len(w) = Len(queue[t]) - 1 /\ Len(queue[t]) \in Nat
        /\ \A k \in 1..(Len(queue[t]) - 1) : w[k] = IF k < i THEN queue[t][k] ELSE queue[t][k + 1]
    BY <2>4, WithoutFacts
  <2>6. /\ \A u \in Queues \ {t} : Queued(u)' = Queued(u) /\ holders'[u] = holders[u]
        /\ holders[t] \subseteq holders'[t]
        /\ \A x \in Queued(t)' : \E k \in 1..Len(w) : x = w[k]
        /\ \A k \in 1..Len(w) : w[k] \in Queued(t)' \/ w[k].run \in holders'[t]
        /\ \A s \in holders'[t] \ holders[t] : \E k \in 1..Len(w) : s = w[k].run
    BY <1>0, <2>1, <2>3, <2>4, <2>5, ResolveNextMoves
  <2>7. /\ \A k \in 1..Len(w) : \E j \in 1..Len(queue[t]) : w[k] = queue[t][j]
        /\ \A j \in 1..Len(queue[t]) : j = i \/ \E k \in 1..Len(w) : w[k] = queue[t][j]
    <3> HIDE DEF w
    <3>1. ASSUME NEW j \in 1..Len(queue[t]), j # i
          PROVE  \E k \in 1..Len(w) : w[k] = queue[t][j]
      <4>1. CASE j < i
        <5>1. j \in 1..Len(w) /\ w[j] = queue[t][j]
          BY <2>5, <4>1
        <5> QED
          BY <5>1
      <4>2. CASE i < j
        <5>1. j - 1 \in 1..Len(w) /\ ~(j - 1 < i) /\ w[j - 1] = queue[t][(j - 1) + 1]
          BY <2>5, <4>2
        <5> QED
          BY <5>1
      <4> QED
        BY <3>1, <4>1, <4>2
    <3>2. \A k \in 1..Len(w) : \E j \in 1..Len(queue[t]) : w[k] = queue[t][j]
      <4> SUFFICES ASSUME NEW k \in 1..Len(w) PROVE \E j \in 1..Len(queue[t]) : w[k] = queue[t][j]
        OBVIOUS
      <4>1. k \in 1..Len(queue[t]) /\ k + 1 \in 1..Len(queue[t])
        BY <2>5
      <4> QED
        BY <2>5, <4>1
    <3> QED
      BY <3>1, <3>2
  <2> HIDE DEF w
  <2>8. Queued(t)' \subseteq Queued(t)
    <3> SUFFICES ASSUME NEW x \in Queued(t)' PROVE x \in Queued(t)
      OBVIOUS
    <3>1. PICK k \in 1..Len(w) : x = w[k]
      BY <2>6
    <3>2. PICK j \in 1..Len(queue[t]) : w[k] = queue[t][j]
      BY <2>7
    <3> QED
      BY <3>1, <3>2 DEF Queued
  <2>9. \A x \in Queued(t) \ Queued(t)' : x.executionId = e \/ x.run \in holders'[t]
    <3> SUFFICES ASSUME NEW x \in Queued(t), x \notin Queued(t)', x.executionId # e
                 PROVE  x.run \in holders'[t]
      OBVIOUS
    <3>1. PICK j \in 1..Len(queue[t]) : x = queue[t][j]
      BY DEF Queued
    <3>2. j # i
      BY <2>3, <3>1
    <3>3. PICK k \in 1..Len(w) : w[k] = queue[t][j]
      BY <2>7, <3>2
    <3> QED
      BY <2>6, <3>1, <3>3
  <2>10. \A s \in holders'[t] \ holders[t] : \E x \in Queued(t) : s = x.run
    <3> SUFFICES ASSUME NEW s \in holders'[t], s \notin holders[t]
                 PROVE  \E x \in Queued(t) : s = x.run
      OBVIOUS
    <3>1. PICK k \in 1..Len(w) : s = w[k].run
      BY <2>6
    <3>2. PICK j \in 1..Len(queue[t]) : w[k] = queue[t][j]
      BY <2>7
    <3> QED
      BY <3>1, <3>2 DEF Queued
  <2> QED
    BY <2>1, <2>2, <2>6, <2>8, <2>9, <2>10
<1> QED
  BY <1>1, <1>2 DEF Remove

\* Who waits is the run of an entry.
LEMMA WaitingTold ==
    /\ \A r : r \in Waiting <=> \E t \in Queues : \E x \in Queued(t) : x.run = r
    /\ \A r : r \in Waiting' <=> \E t \in Queues : \E x \in Queued(t)' : x.run = r
BY DEF Waiting, RunsIn, Queued

\* Entries and places are of runs and executions.
LEMMA LimiterTyped ==
    ASSUME IInv
    PROVE  /\ \A t \in Queues :
                 /\ \A x \in Queued(t) : x.run \in Runs /\ x.executionId \in Executions
                 /\ \A s \in holders[t] : s \in Runs
           /\ \A r : r \in Holding <=> \E t \in Queues : r \in holders[t]
           /\ \A r : r \in Waiting <=> \E t \in Queues : \E x \in Queued(t) : x.run = r
<1>1. queue \in [Queues -> Seq(Entries)] /\ holders \in [Queues -> SUBSET Runs]
  BY DEF IInv, TypeOK
<1>2. \A t \in Queues : \A i \in 1..Len(queue[t]) : queue[t][i] \in Entries
  BY <1>1
<1>3. \A t \in Queues : \A x \in Queued(t) : x \in Entries
  BY <1>2 DEF Queued
<1>4. \A t \in Queues : \A x \in Queued(t) : x.run \in Runs /\ x.executionId \in Executions
  BY <1>3 DEF Entries
<1>5. \A t \in Queues : \A s \in holders[t] : s \in Runs
  BY <1>1
<1>6. \A r : r \in Holding <=> \E t \in Queues : r \in holders[t]
  BY DEF Holding
<1> QED
  BY <1>4, <1>5, <1>6, WaitingTold

\* The same in the next state.
LEMMA LimiterTypedNext ==
    ASSUME IInv'
    PROVE  /\ \A t \in Queues :
                 /\ \A x \in Queued(t)' : x.run \in Runs /\ x.executionId \in Executions
                 /\ \A s \in holders'[t] : s \in Runs
           /\ \A r : r \in Holding' <=> \E t \in Queues : r \in holders'[t]
           /\ \A r : r \in Waiting' <=> \E t \in Queues : \E x \in Queued(t)' : x.run = r
<1>1. queue' \in [Queues -> Seq(Entries)] /\ holders' \in [Queues -> SUBSET Runs]
  BY DEF IInv, TypeOK
<1>2. \A t \in Queues : \A i \in 1..Len(queue'[t]) : queue'[t][i] \in Entries
  BY <1>1
<1>3. \A t \in Queues : \A x \in Queued(t)' : x \in Entries
  BY <1>2 DEF Queued
<1>4. \A t \in Queues : \A x \in Queued(t)' : x.run \in Runs /\ x.executionId \in Executions
  BY <1>3 DEF Entries
<1>5. \A t \in Queues : \A s \in holders'[t] : s \in Runs
  BY <1>1
<1>6. \A r : r \in Holding' <=> \E t \in Queues : r \in holders'[t]
  BY DEF Holding
<1> QED
  BY <1>4, <1>5, <1>6, WaitingTold

\* A step that does not call the limiter.
LEMMA LimiterSame ==
    ASSUME IInv, UNCHANGED <<isEnabled, capacity, queue, holders>>
    PROVE  /\ IInv' /\ isEnabled' = isEnabled /\ Waiting' = Waiting /\ Holding' = Holding
           /\ \A t \in Queues : Queued(t)' = Queued(t) /\ holders'[t] = holders[t]
<1>1. IInv'
  BY StutterKeepsIInv
<1> QED
  BY <1>1 DEF Waiting, Holding, Queued

-----------------------------------------------------------------------------
(* What a step writes to the runs, field by field *)

AllRuns == [Runs -> RunRecords]

\* Two records of a run that agree in what the invariant speaks of.
Alike(x, y) ==
    /\ x.exec = y.exec /\ x.pc = y.pc /\ x.status = y.status
    /\ x.settled = y.settled /\ x.tracked = y.tracked /\ x.outcome = y.outcome

\* The promise of an entry settles.
LEMMA SetSettled ==
    ASSUME NEW f \in AllRuns, NEW r \in Runs,
           NEW v \in BOOLEAN
    PROVE  LET g == [f EXCEPT ![r].settled = v]
           IN  /\ g \in AllRuns
               /\ g[r].settled = v /\ g[r].exec = f[r].exec /\ g[r].pc = f[r].pc
               /\ g[r].status = f[r].status /\ g[r].tracked = f[r].tracked
               /\ g[r].outcome = f[r].outcome
               /\ \A s \in Runs : s # r => g[s] = f[s]
BY DEF AllRuns, RunRecords

\* The engine is attached to an entry.
LEMMA SetTracked ==
    ASSUME NEW f \in AllRuns, NEW r \in Runs,
           NEW v \in BOOLEAN
    PROVE  LET g == [f EXCEPT ![r].tracked = v]
           IN  /\ g \in AllRuns
               /\ g[r].tracked = v /\ g[r].exec = f[r].exec /\ g[r].pc = f[r].pc
               /\ g[r].status = f[r].status /\ g[r].settled = f[r].settled
               /\ g[r].outcome = f[r].outcome
               /\ \A s \in Runs : s # r => g[s] = f[s]
BY DEF AllRuns, RunRecords

\* The response promise of an entry.
LEMMA SetResponse ==
    ASSUME NEW f \in AllRuns, NEW r \in Runs,
           NEW v \in BOOLEAN
    PROVE  LET g == [f EXCEPT ![r].response = v]
           IN  /\ g \in AllRuns
               /\ \A s \in Runs : Alike(g[s], f[s])
BY DEF AllRuns, RunRecords, Alike

\* The timer of an execution that has timed out.
LEMMA SetTimeout ==
    ASSUME NEW f \in AllRuns, NEW r \in Runs,
           NEW v \in BOOLEAN
    PROVE  LET g == [f EXCEPT ![r].timeout = v]
           IN  /\ g \in AllRuns
               /\ \A s \in Runs : Alike(g[s], f[s])
BY DEF AllRuns, RunRecords, Alike

\* The engine is told to stop.
LEMMA SetCancelled ==
    ASSUME NEW f \in AllRuns, NEW r \in Runs,
           NEW v \in BOOLEAN
    PROVE  LET g == [f EXCEPT ![r].cancelled = v]
           IN  /\ g \in AllRuns
               /\ \A s \in Runs : Alike(g[s], f[s])
BY DEF AllRuns, RunRecords, Alike

\* The hooks of a canceled engine are to run.
LEMMA SetCancelSave ==
    ASSUME NEW f \in AllRuns, NEW r \in Runs,
           NEW v \in BOOLEAN
    PROVE  LET g == [f EXCEPT ![r].cancelSave = v]
           IN  /\ g \in AllRuns
               /\ \A s \in Runs : Alike(g[s], f[s])
BY DEF AllRuns, RunRecords, Alike

\* Which engine an entry can cancel.
LEMMA SetEngine ==
    ASSUME NEW f \in AllRuns, NEW r \in Runs,
           NEW v \in Runs \cup {NoRun}
    PROVE  LET g == [f EXCEPT ![r].engine = v]
           IN  /\ g \in AllRuns
               /\ \A s \in Runs : Alike(g[s], f[s])
BY DEF AllRuns, RunRecords, Alike

\* Canceling an engine changes nothing that the invariant speaks of.
LEMMA CancelChanges ==
    ASSUME NEW f \in AllRuns, NEW w \in Runs \cup {NoRun}
    PROVE  LET g == Cancel(f, w)
           IN  g \in AllRuns /\ \A s \in Runs : Alike(g[s], f[s])
<1>1. CASE w # NoRun /\ f[w].pc \in Cancellable /\ ~f[w].cancelled
  <2> DEFINE g == [f EXCEPT ![w].cancelled = TRUE]
             h == [g EXCEPT ![w].cancelSave = TRUE]
  <2>1. Cancel(f, w) = h
    BY <1>1 DEF Cancel
  <2>2. g \in AllRuns /\ \A s \in Runs : Alike(g[s], f[s])
    BY <1>1, SetCancelled
  <2>3. h \in AllRuns /\ \A s \in Runs : Alike(h[s], g[s])
    BY <1>1, <2>2, SetCancelSave
  <2> HIDE DEF g, h
  <2> QED
    BY <2>1, <2>2, <2>3 DEF Alike
<1> QED
  BY <1>1 DEF Cancel, Alike

-----------------------------------------------------------------------------
(* What it writes to the rows *)

AllRows == [Executions -> Rows]

\* A row gets or loses its waitTill.
LEMMA SetWaitTill ==
    ASSUME NEW f \in AllRows, NEW e \in Executions, NEW v \in BOOLEAN
    PROVE  LET g == [f EXCEPT ![e].waitTill = v]
           IN  /\ g \in AllRows
               /\ g[e].status = f[e].status /\ g[e].waitTill = v
               /\ \A d \in Executions : d # e => g[d] = f[d]
BY DEF AllRows, Rows

\* A row is marked as finished.
LEMMA SetFinished ==
    ASSUME NEW f \in AllRows, NEW e \in Executions, NEW v \in BOOLEAN
    PROVE  LET g == [f EXCEPT ![e].finished = v]
           IN  /\ g \in AllRows
               /\ g[e].status = f[e].status /\ g[e].waitTill = f[e].waitTill
               /\ \A d \in Executions : d # e => g[d] = f[d]
BY DEF AllRows, Rows

\* A row is written as a whole.
LEMMA SetRow ==
    ASSUME NEW f \in AllRows, NEW e \in Executions, NEW v \in Statuses, NEW w \in BOOLEAN,
           NEW u \in BOOLEAN
    PROVE  LET g == [f EXCEPT ![e] = [status |-> v, finished |-> u, waitTill |-> w]]
           IN  /\ g \in AllRows
               /\ g[e].status = v /\ g[e].waitTill = w
               /\ \A d \in Executions : d # e => g[d] = f[d]
BY DEF AllRows, Rows

-----------------------------------------------------------------------------
(* Steps that leave the limiter and the entries alone *)

\* The parts of the invariant that relate queues, places, runs and entries.
RunsAndPlaces ==
    IInv /\ QueuesAgree /\ PlacesAgree /\ RunsAgree /\ EntriesAgree /\ OneRunEach

\* A step that changes nothing they speak of.
LEMMA RunsStay ==
    ASSUME LifeInv, UNCHANGED <<isEnabled, capacity, queue, holders, active, crashes>>,
           \A s \in Runs : Alike(run'[s], run[s])
    PROVE  RunsAndPlaces'
<1>1. /\ IInv' /\ isEnabled' = isEnabled /\ Waiting' = Waiting /\ Holding' = Holding
      /\ \A t \in Queues : Queued(t)' = Queued(t) /\ holders'[t] = holders[t]
  BY LimiterSame DEF LifeInv
<1>2. QueuesAgree' /\ PlacesAgree'
  BY <1>1, LimiterTyped DEF LifeInv, QueuesAgree, PlacesAgree, Counter, Alike
<1>3. RunsAgree'
  BY DEF LifeInv, RunsAgree, Alike
<1>4. EntriesAgree'
  BY DEF LifeInv, LifeTypeOK, EntriesAgree, EntryAgrees, Counter, Alike
<1>5. OneRunEach'
  BY <1>1 DEF LifeInv, OneRunEach, Alike
<1> QED
  BY <1>1, <1>2, <1>3, <1>4, <1>5 DEF RunsAndPlaces

\* A run that has been let through goes on; another may be said to wait.
LEMMA RunGoesOn ==
    ASSUME LifeInv, UNCHANGED <<isEnabled, capacity, queue, holders, active, crashes>>,
           NEW r \in Runs,
           run[r].pc \in {"added", "checked", "engine", "saving", "saved"},
           run'[r].pc \in {"checked", "engine", "saving", "saved", "done"},
           run'[r].pc = "saving" => run'[r].outcome # "none",
           active[run[r].exec] = r =>
              /\ run[r].tracked => run'[r].tracked
              /\ run[r].pc \in {"added", "checked"} => run'[r].tracked \/ run'[r].pc = "checked"
              /\ run'[r].pc = "done" => run[r].settled,
           \A s \in Runs :
              /\ run'[s].exec = run[s].exec /\ run'[s].settled = run[s].settled
              /\ run'[s].status # run[s].status =>
                    run'[s].status = "waiting" /\ run[s].pc \notin {"created", "throttled"}
              /\ s # r => /\ run'[s].pc = run[s].pc /\ run'[s].tracked = run[s].tracked
                          /\ run'[s].outcome = run[s].outcome
    PROVE  RunsAndPlaces'
<1>1. /\ IInv' /\ isEnabled' = isEnabled /\ Waiting' = Waiting /\ Holding' = Holding
      /\ \A t \in Queues : Queued(t)' = Queued(t) /\ holders'[t] = holders[t]
  BY LimiterSame DEF LifeInv
<1>2. QueuesAgree' /\ PlacesAgree'
  BY <1>1, LimiterTyped DEF LifeInv, QueuesAgree, PlacesAgree, Counter
<1>3. RunsAgree'
  BY DEF LifeInv, RunsAgree
<1>4. EntriesAgree'
  <2> SUFFICES ASSUME NEW e \in Executions, NEW x \in Runs, active[e] = x
               PROVE  EntryAgrees(e, x)'
    BY DEF EntriesAgree, LifeInv, LifeTypeOK
  <2>1. EntryAgrees(e, x)
    BY NoRunAssumption DEF LifeInv, EntriesAgree
  <2>2. CASE x # r
    BY <2>1 DEF EntryAgrees, Counter
  <2>3. CASE x = r
    <3>1. run[r].exec = e
      BY <2>1, <2>3 DEF EntryAgrees
    <3>2. active[run[r].exec] = r /\ run'[r].exec = e /\ run'[r].settled = run[r].settled
      BY <2>3, <3>1
    <3>3. run'[r].settled => run'[r].status = "waiting"
      BY <2>1, <2>3 DEF EntryAgrees
    <3>4. isEnabled' /\ ~run'[r].settled /\ Counter(r)' \in Queues => r \in holders'[Counter(r)']
      BY <2>1, <3>2 DEF EntryAgrees, Counter
    <3>5. /\ run'[r].pc \in {"engine", "saving", "saved"} => run'[r].tracked
          /\ run'[r].pc = "done" => run'[r].settled
      BY <2>1, <3>2 DEF EntryAgrees
    <3> QED
      BY <3>2, <3>3, <3>4, <3>5 DEF EntryAgrees
  <2> QED
    BY <2>2, <2>3
<1>5. OneRunEach'
  BY <1>1 DEF LifeInv, OneRunEach
<1> QED
  BY <1>1, <1>2, <1>3, <1>4, <1>5 DEF RunsAndPlaces

\* add inserts a row and a run, which has yet to call the limiter.
LEMMA CreateKeeps ==
    ASSUME LifeInv, NEW r \in Runs, NEW e \in Executions, Create(r, e)
    PROVE  LifeInv'
<1>1. /\ IInv' /\ isEnabled' = isEnabled /\ Waiting' = Waiting /\ Holding' = Holding
      /\ \A t \in Queues : Queued(t)' = Queued(t) /\ holders'[t] = holders[t]
  BY LimiterSame DEF LifeInv, Create, limiter
<1>2. /\ db[e].status = "none"
      /\ run[r].pc \in Over /\ r \notin Holding
      /\ \A d \in Executions : active[d] # r
      /\ UNCHANGED <<active, timers, polled, stop, phase, bootList, recovering, amended, log,
                     recoveryFile, crashes>>
  BY DEF Create, Free, process
<1>3. /\ run' \in AllRuns
      /\ run'[r].exec = e /\ run'[r].pc = "created" /\ run'[r].status = "running"
      /\ ~run'[r].settled /\ ~run'[r].tracked /\ run'[r].outcome = "none"
      /\ \A s \in Runs : s # r => Alike(run'[s], run[s])
  <2> DEFINE b == e \in Responding
             x == Entered(e, "created", FALSE, b)
             f == [run EXCEPT ![r] = x]
  <2>1. run \in AllRuns /\ b \in BOOLEAN
    BY DEF LifeInv, LifeTypeOK, AllRuns
  <2>2. run' = f
    BY DEF Create
  <2> HIDE DEF b
  <2>3. x \in RunRecords
    BY <2>1 DEF RunRecords, Entered
  <2>4. /\ x.exec = e /\ x.pc = "created" /\ x.status = "running" /\ x.settled = FALSE
        /\ x.tracked = FALSE /\ x.outcome = "none"
    BY DEF Entered
  <2> HIDE DEF x
  <2>5. f \in AllRuns /\ f[r] = x /\ \A s \in Runs : s # r => f[s] = run[s]
    BY <2>1, <2>3 DEF AllRuns
  <2> QED
    BY <2>2, <2>4, <2>5 DEF Alike
<1>4. /\ db' \in AllRows
      /\ db'[e].status = "new" /\ db'[e].waitTill = db[e].waitTill
      /\ \A d \in Executions : d # e => db'[d] = db[d]
  <2>0. db \in AllRows /\ e \in Executions
    BY DEF LifeInv, LifeTypeOK, AllRows
  <2> DEFINE f == [db EXCEPT ![e].status = "new"]
  <2>1. /\ f \in AllRows
        /\ f[e].status = "new" /\ f[e].waitTill = db[e].waitTill
        /\ \A d \in Executions : d # e => f[d] = db[d]
    BY <2>0 DEF AllRows, Rows, Statuses
  <2> HIDE DEF f
  <2>2. db' = f
    BY DEF Create, f
  <2> QED
    BY <2>0, <2>1, <2>2
<1>5. LifeTypeOK'
  BY <1>2, <1>3, <1>4, SMTT(10) DEF LifeInv, LifeTypeOK, AllRuns, AllRows
<1>6. QueuesAgree' /\ PlacesAgree'
  BY <1>1, <1>2, <1>3, LimiterTypedNext, SMTT(10)
     DEF LifeInv, QueuesAgree, PlacesAgree, Alike, Over, Counter
<1>7. RunsAgree'
  BY <1>3, SMTT(10) DEF LifeInv, RunsAgree, Alike
<1>8. EntriesAgree'
  BY <1>1, <1>2, <1>3, SMTT(10)
     DEF LifeInv, EntriesAgree, Alike, LifeTypeOK, EntryAgrees, Counter
<1>9. RowsExist' /\ NewAgrees' /\ NothingResumes' /\ EnqueuedNotForgotten'
  BY <1>2, <1>3, <1>4, SMTT(10)
     DEF LifeInv, RowsExist, NewAgrees, NothingResumes, EnqueuedNotForgotten, Alike, Over,
         LiveRuns
<1>10. OneRunEach'
  BY <1>1, <1>2, <1>3, SMTT(10) DEF LifeInv, OneRunEach, RowsExist, Alike
<1> QED
  BY <1>1, <1>5, <1>6, <1>7, <1>8, <1>9, <1>10 DEF LifeInv

\* A new run is let in or waits; the run of another execution is as it was.
LEMMA ThrottleNewKeeps ==
    ASSUME LifeInv, NEW r \in Runs, ThrottleNew(r)
    PROVE  LifeInv'
<1>0. r \notin Waiting \cup Holding /\ run[r].exec \in Executions
  BY LimiterTyped DEF LifeInv, QueuesAgree, PlacesAgree, RunsAgree, ThrottleNew
<1>1. /\ IInv' /\ isEnabled' = isEnabled
      /\ \A t \in Queues : Queued(t) \subseteq Queued(t)' /\ holders[t] \subseteq holders'[t]
      /\ \A t \in Queues : \A x \in Queued(t)' \ Queued(t) :
           QueueOf(Mode[run[r].exec]) = t /\ x = [executionId |-> run[r].exec, run |-> r]
      /\ \A t \in Queues : \A s \in holders'[t] \ holders[t] :
            QueueOf(Mode[run[r].exec]) = t /\ s = r
      /\ isEnabled /\ QueueOf(Mode[run[r].exec]) \in Queues /\ r \notin Waiting' =>
            r \in holders'[QueueOf(Mode[run[r].exec])]
  BY <1>0, ThrottleMoves DEF LifeInv, ThrottleNew
<1>2. /\ run[r].pc = "created"
      /\ UNCHANGED <<db, active, timers, polled, stop, phase, bootList, recovering, amended,
                     recoveryFile, crashes>>
      /\ log' \in [Executions -> SUBSET {"workflow", "node"}]
  BY DEF ThrottleNew, LogEvents, LogThrottled, lifecycle, LifeInv, LifeTypeOK
<1>3. /\ run' \in AllRuns
      /\ run'[r].pc = "throttled" /\ run'[r].exec = run[r].exec /\ run'[r].status = run[r].status
      /\ run'[r].settled = run[r].settled /\ run'[r].tracked = run[r].tracked
      /\ run'[r].outcome = run[r].outcome
      /\ \A s \in Runs : s # r => Alike(run'[s], run[s])
  <2>1. run \in AllRuns
    BY DEF LifeInv, LifeTypeOK, AllRuns
  <2> DEFINE f == [run EXCEPT ![r].pc = "throttled"]
  <2>2. /\ f \in AllRuns
        /\ f[r].pc = "throttled" /\ f[r].exec = run[r].exec /\ f[r].status = run[r].status
        /\ f[r].settled = run[r].settled /\ f[r].tracked = run[r].tracked
        /\ f[r].outcome = run[r].outcome
        /\ \A s \in Runs : s # r => f[s] = run[s]
    BY <2>1 DEF AllRuns, RunRecords
  <2> HIDE DEF f
  <2>3. run' = f
    BY DEF ThrottleNew, f
  <2> QED
    BY <2>2, <2>3 DEF Alike
<1>4. LifeTypeOK'
  BY <1>2, <1>3, SMTT(10) DEF LifeInv, LifeTypeOK, AllRuns
<1>5. QueuesAgree' /\ PlacesAgree'
  BY <1>1, <1>2, <1>3, LimiterTyped, LimiterTypedNext, SMTT(10)
     DEF LifeInv, QueuesAgree, PlacesAgree, Alike, RunsAgree, Counter
<1>6. RunsAgree'
  BY <1>2, <1>3, SMTT(10) DEF LifeInv, RunsAgree, Alike
<1>7. EntriesAgree'
  BY <1>1, <1>2, <1>3, SMTT(10)
     DEF LifeInv, EntriesAgree, Alike, LifeTypeOK, EntryAgrees, Counter
<1>8. RowsExist' /\ NewAgrees' /\ NothingResumes' /\ EnqueuedNotForgotten'
  BY <1>2, <1>3, SMTT(10)
     DEF LifeInv, RowsExist, NewAgrees, NothingResumes, EnqueuedNotForgotten, Alike, Over,
         LiveRuns
<1>9. OneRunEach'
  BY <1>1, <1>2, <1>3, LimiterTyped, LimiterTypedNext, SMTT(10) DEF LifeInv, OneRunEach, Alike
<1> QED
  BY <1>1, <1>4, <1>5, <1>6, <1>7, <1>8, <1>9 DEF LifeInv

\* A run that has been let through enters its id, where it may replace another entry.
LEMMA RegisterKeeps ==
    ASSUME LifeInv, NEW r \in Runs, Register(r)
    PROVE  LifeInv'
<1>1. /\ IInv' /\ isEnabled' = isEnabled /\ Waiting' = Waiting /\ Holding' = Holding
      /\ \A t \in Queues : Queued(t)' = Queued(t) /\ holders'[t] = holders[t]
  BY LimiterSame DEF LifeInv, Register, limiter
<1>2. /\ run[r].pc = "throttled" /\ r \notin Waiting
      /\ active' \in [Executions -> Runs \cup {NoRun}] /\ active'[run[r].exec] = r
      /\ \A d \in Executions : d # run[r].exec => active'[d] = active[d]
      /\ UNCHANGED <<timers, polled, stop, phase, bootList, recovering, amended, log, recoveryFile,
                     crashes>>
  BY DEF Register, process, LifeInv, LifeTypeOK, RunsAgree
<1>3. /\ run' \in AllRuns
      /\ run'[r].pc = "added" /\ run'[r].status = "running" /\ run'[r].exec = run[r].exec
      /\ run'[r].settled = run[r].settled /\ run'[r].tracked = run[r].tracked
      /\ run'[r].outcome = run[r].outcome
      /\ \A s \in Runs : s # r => Alike(run'[s], run[s])
  <2> DEFINE b == active[run[r].exec] # NoRun /\ run[active[run[r].exec]].response
  <2>0. b \in BOOLEAN
    OBVIOUS
  <2> HIDE DEF b
  <2>1. run \in AllRuns
    BY DEF LifeInv, LifeTypeOK, AllRuns
  <2> DEFINE f == [run EXCEPT ![r].pc = "added"]
  <2>2. /\ f \in AllRuns
        /\ f[r].pc = "added" /\ f[r].exec = run[r].exec /\ f[r].status = run[r].status
        /\ f[r].settled = run[r].settled /\ f[r].tracked = run[r].tracked
        /\ f[r].outcome = run[r].outcome
        /\ \A s \in Runs : s # r => f[s] = run[s]
    BY <2>1 DEF AllRuns, RunRecords
  <2> HIDE DEF f
  <2> DEFINE g == [f EXCEPT ![r].status = "running"]
  <2>3. /\ g \in AllRuns
        /\ g[r].status = "running" /\ g[r].exec = f[r].exec /\ g[r].pc = f[r].pc
        /\ g[r].settled = f[r].settled /\ g[r].tracked = f[r].tracked
        /\ g[r].outcome = f[r].outcome
        /\ \A s \in Runs : s # r => g[s] = f[s]
    BY <2>2 DEF AllRuns, RunRecords
  <2> HIDE DEF g
  <2> DEFINE h == [g EXCEPT ![r].response = b]
  <2>4. /\ h \in AllRuns
        /\ \A s \in Runs : Alike(h[s], g[s])
    BY <2>3, <2>0, SetResponse
  <2> HIDE DEF h
  <2>5. run' = h
    BY DEF Register, f, g, h, b
  <2> QED
    BY <2>2, <2>3, <2>4, <2>5 DEF Alike
<1>4. /\ db' \in AllRows
      /\ db'[run[r].exec].status = "running"
      /\ db'[run[r].exec].waitTill => db[run[r].exec].waitTill
      /\ \A d \in Executions : d # run[r].exec => db'[d] = db[d]
  <2> DEFINE b == db[run[r].exec].waitTill /\ ~run[r].resumes
  <2>0. db \in AllRows /\ run[r].exec \in Executions
    BY <1>2 DEF LifeInv, LifeTypeOK, AllRows, RunsAgree
  <2>00. b \in BOOLEAN
    OBVIOUS
  <2> HIDE DEF b
  <2> DEFINE f == [db EXCEPT ![run[r].exec].status = "running"]
  <2>1. /\ f \in AllRows
        /\ f[run[r].exec].status = "running" /\ f[run[r].exec].waitTill = db[run[r].exec].waitTill
        /\ \A d \in Executions : d # run[r].exec => f[d] = db[d]
    BY <2>0 DEF AllRows, Rows, Statuses
  <2> HIDE DEF f
  <2> DEFINE g == [f EXCEPT ![run[r].exec].waitTill = b]
  <2>2. /\ g \in AllRows
        /\ g[run[r].exec].status = f[run[r].exec].status /\ g[run[r].exec].waitTill = b
        /\ \A d \in Executions : d # run[r].exec => g[d] = f[d]
    BY <2>1, <2>0, <2>00, SetWaitTill
  <2> HIDE DEF g
  <2>3. db' = g
    BY DEF Register, f, g, b
  <2> QED
    BY <2>1, <2>2, <2>3 DEF b
<1>5. LifeTypeOK'
  BY <1>2, <1>3, <1>4, SMTT(10) DEF LifeInv, LifeTypeOK, AllRuns, AllRows
<1>6. QueuesAgree' /\ PlacesAgree'
  BY <1>1, <1>2, <1>3, LimiterTypedNext, SMTT(10)
     DEF LifeInv, QueuesAgree, PlacesAgree, Alike, Counter
<1>7. RunsAgree'
  BY <1>2, <1>3, SMTT(10) DEF LifeInv, RunsAgree, Alike
<1>8. EntriesAgree'
  BY <1>1, <1>2, <1>3, SMTT(10)
     DEF LifeInv, EntriesAgree, PlacesAgree, Alike, RunsAgree, EntryAgrees, Counter
<1>9. RowsExist' /\ NewAgrees' /\ NothingResumes' /\ EnqueuedNotForgotten'
  BY <1>2, <1>3, <1>4, SMTT(10)
     DEF LifeInv, RowsExist, NewAgrees, NothingResumes, EnqueuedNotForgotten, Alike, LiveRuns
<1>10. OneRunEach'
  BY <1>1, <1>2, <1>3, SMTT(10) DEF LifeInv, OneRunEach, Alike, RunsAgree
<1> QED
  BY <1>1, <1>5, <1>6, <1>7, <1>8, <1>9, <1>10 DEF LifeInv

\* The credentials check passes and the response promise is attached, or that throws.
LEMMA PassCredentialsKeeps ==
    ASSUME LifeInv, NEW r \in Runs, PassCredentials(r)
    PROVE  LifeInv'
<1>1. /\ UNCHANGED <<isEnabled, capacity, queue, holders>>
      /\ run[r].pc = "added"
      /\ UNCHANGED <<db, active, timers, polled, stop, phase, bootList, recovering, amended, log,
                     recoveryFile, crashes>>
  BY DEF PassCredentials, limiter, process
<1>2. /\ run' \in AllRuns
      /\ run'[r].exec = run[r].exec /\ run'[r].pc \in {"checked", "done"}
      /\ run'[r].status = run[r].status
      /\ run'[r].settled = run[r].settled /\ run'[r].tracked = run[r].tracked
      /\ run'[r].outcome = run[r].outcome
      /\ run'[r].pc = "done" => active[run[r].exec] = NoRun
      /\ \A s \in Runs : s # r => Alike(run'[s], run[s])
  <2>1. run \in AllRuns
    BY DEF LifeInv, LifeTypeOK, AllRuns
  <2>2. CASE run' = [run EXCEPT ![r].pc = "checked"]
    <3> DEFINE f == [run EXCEPT ![r].pc = "checked"]
    <3>1. /\ f \in AllRuns
          /\ f[r].pc = "checked" /\ f[r].exec = run[r].exec /\ f[r].status = run[r].status
          /\ f[r].settled = run[r].settled /\ f[r].tracked = run[r].tracked
          /\ f[r].outcome = run[r].outcome
          /\ \A s \in Runs : s # r => f[s] = run[s]
      BY <2>1 DEF AllRuns, RunRecords
    <3>2. run' = f
      BY <2>2
    <3> HIDE DEF f
    <3> QED
      BY <3>1, <3>2 DEF Alike
  <2>3. CASE run' = [run EXCEPT ![r].pc = "done"] /\ active[run[r].exec] = NoRun
    <3> DEFINE f == [run EXCEPT ![r].pc = "done"]
    <3>1. /\ f \in AllRuns
          /\ f[r].pc = "done" /\ f[r].exec = run[r].exec /\ f[r].status = run[r].status
          /\ f[r].settled = run[r].settled /\ f[r].tracked = run[r].tracked
          /\ f[r].outcome = run[r].outcome
          /\ \A s \in Runs : s # r => f[s] = run[s]
      BY <2>1 DEF AllRuns, RunRecords
    <3>2. run' = f
      BY <2>3
    <3> HIDE DEF f
    <3> QED
      BY <2>3, <3>1, <3>2 DEF Alike
  <2>4. CASE /\ active[run[r].exec] \in Runs
               /\ run' = [run EXCEPT ![r].pc = "checked", ![active[run[r].exec]].response = TRUE]
    <3> DEFINE x == active[run[r].exec]
               f == [run EXCEPT ![r].pc = "checked"]
               b == TRUE
               g == [f EXCEPT ![x].response = b]
    <3>1. /\ f \in AllRuns
          /\ f[r].pc = "checked" /\ f[r].exec = run[r].exec /\ f[r].status = run[r].status
          /\ f[r].settled = run[r].settled /\ f[r].tracked = run[r].tracked
          /\ f[r].outcome = run[r].outcome
          /\ \A s \in Runs : s # r => f[s] = run[s]
      BY <2>1 DEF AllRuns, RunRecords
    <3>2. run' = g
      BY <2>4
    <3>3. x \in Runs /\ b \in BOOLEAN
      BY <2>4
    <3> HIDE DEF f, x, b
    <3>4. g \in AllRuns /\ \A s \in Runs : Alike(g[s], f[s])
      BY <3>1, <3>3, SetResponse
    <3> HIDE DEF g
    <3> QED
      BY <3>1, <3>2, <3>4 DEF Alike
  <2> QED
    BY <2>2, <2>3, <2>4 DEF PassCredentials, LifeInv, LifeTypeOK
<1>3. RunsAndPlaces'
  BY <1>1, <1>2, RunGoesOn, NoRunAssumption DEF Alike
<1>4. LifeTypeOK'
  BY <1>1, <1>2, SMTT(10) DEF LifeInv, LifeTypeOK, AllRuns
<1>5. RowsExist' /\ NewAgrees' /\ NothingResumes' /\ EnqueuedNotForgotten'
  BY <1>1, <1>2, SMTT(10)
     DEF LifeInv, RowsExist, NewAgrees, NothingResumes, EnqueuedNotForgotten, Alike, LiveRuns
<1> QED
  BY <1>3, <1>4, <1>5 DEF LifeInv, RunsAndPlaces

\* The engine of a run is attached to the entry under its id.
LEMMA StartEngineKeeps ==
    ASSUME LifeInv, NEW r \in Runs, StartEngine(r)
    PROVE  LifeInv'
<1>1. /\ UNCHANGED <<isEnabled, capacity, queue, holders>>
      /\ run[r].pc = "checked"
      /\ active[run[r].exec] \in Runs \cup {NoRun}
      /\ UNCHANGED <<active, timers, polled, stop, phase, bootList, recovering, amended,
                     recoveryFile, crashes>>
      /\ log' \in [Executions -> SUBSET {"workflow", "node"}]
  BY DEF StartEngine, LogEvents, lifecycle, limiter, LifeInv, LifeTypeOK, RunsAgree
<1>2. /\ run' \in AllRuns
      /\ run'[r].exec = run[r].exec /\ run'[r].pc = "engine" /\ run'[r].status = run[r].status
      /\ run'[r].settled = run[r].settled /\ run'[r].outcome = run[r].outcome
      /\ active[run[r].exec] # NoRun => run'[r].tracked
      /\ \A s \in Runs : s # r => Alike(run'[s], run[s])
  <2> DEFINE e == run[r].exec
             x == active[e]
             b == x # NoRun
             c == (x # NoRun) /\ (e \in HasTimeout)
             f == [run EXCEPT ![r].pc = "engine"]
             g == [f EXCEPT ![r].tracked = b]
             h == [g EXCEPT ![r].timeout = c]
             k == [h EXCEPT ![x].engine = r]
  <2>1. run \in AllRuns /\ b \in BOOLEAN /\ c \in BOOLEAN /\ (b <=> x # NoRun)
    BY DEF LifeInv, LifeTypeOK, AllRuns
  <2>2. run' = IF x = NoRun THEN h ELSE k
    BY DEF StartEngine
  <2> HIDE DEF b, c
  <2>3. /\ f \in AllRuns
        /\ f[r].pc = "engine" /\ f[r].exec = run[r].exec /\ f[r].status = run[r].status
        /\ f[r].settled = run[r].settled /\ f[r].outcome = run[r].outcome
        /\ \A s \in Runs : s # r => f[s] = run[s]
    BY <2>1 DEF AllRuns, RunRecords
  <2> HIDE DEF f
  <2>4. /\ g \in AllRuns
        /\ g[r].tracked = b /\ g[r].exec = f[r].exec /\ g[r].pc = f[r].pc
        /\ g[r].status = f[r].status
        /\ g[r].settled = f[r].settled /\ g[r].outcome = f[r].outcome
        /\ \A s \in Runs : s # r => g[s] = f[s]
    BY <2>1, <2>3, SetTracked
  <2> HIDE DEF g
  <2>5. h \in AllRuns /\ \A s \in Runs : Alike(h[s], g[s])
    BY <2>1, <2>4, SetTimeout
  <2> HIDE DEF h
  <2>6. CASE x = NoRun
    BY <2>2, <2>3, <2>4, <2>5, <2>6 DEF Alike
  <2>7. CASE x # NoRun
    <3>1. x \in Runs
      BY <1>1, <2>7
    <3> HIDE DEF x
    <3>2. k \in AllRuns /\ \A s \in Runs : Alike(k[s], h[s])
      BY <2>5, <3>1, SetEngine
    <3> HIDE DEF k
    <3>3. run' = k
      BY <2>2, <2>7
    <3> QED
      BY <2>1, <2>3, <2>4, <2>5, <2>7, <3>2, <3>3 DEF Alike
  <2> QED
    BY <2>6, <2>7
<1>3. /\ db' \in AllRows
      /\ db'[run[r].exec].status = "running"
      /\ db'[run[r].exec].waitTill = db[run[r].exec].waitTill
      /\ \A d \in Executions : d # run[r].exec => db'[d] = db[d]
  <2>0. db \in AllRows /\ run[r].exec \in Executions
    BY <1>1 DEF LifeInv, LifeTypeOK, AllRows, RunsAgree
  <2> DEFINE f == [db EXCEPT ![run[r].exec].status = "running"]
  <2>1. /\ f \in AllRows
        /\ f[run[r].exec].status = "running" /\ f[run[r].exec].waitTill = db[run[r].exec].waitTill
        /\ \A d \in Executions : d # run[r].exec => f[d] = db[d]
    BY <2>0 DEF AllRows, Rows, Statuses
  <2> HIDE DEF f
  <2>2. db' = f
    BY <1>1 DEF StartEngine, f
  <2> QED
    BY <2>0, <2>1, <2>2
<1>4. RunsAndPlaces'
  BY <1>1, <1>2, RunGoesOn, NoRunAssumption DEF Alike
<1>5. LifeTypeOK'
  BY <1>1, <1>2, <1>3, SMTT(10) DEF LifeInv, LifeTypeOK, AllRuns, AllRows
<1>6. RowsExist' /\ NewAgrees' /\ NothingResumes' /\ EnqueuedNotForgotten'
  BY <1>1, <1>2, <1>3, SMTT(10)
     DEF LifeInv, RowsExist, NewAgrees, NothingResumes, EnqueuedNotForgotten, Alike, LiveRuns
<1> QED
  BY <1>4, <1>5, <1>6 DEF LifeInv, RunsAndPlaces

\* The credentials check refuses: the entry is finalized, its place given back.
LEMMA DenyCredentialsKeeps ==
    ASSUME LifeInv, NEW r \in Runs, DenyCredentials(r)
    PROVE  LifeInv'
<1>1. /\ UNCHANGED <<isEnabled, capacity, queue, holders>>
      /\ run[r].pc = "added"
      /\ UNCHANGED <<db, active, timers, polled, stop, phase, bootList, recovering, amended,
                     recoveryFile, crashes>>
      /\ log' \in [Executions -> SUBSET {"workflow", "node"}]
  BY DEF DenyCredentials, LogEvents, lifecycle, limiter, LifeInv, LifeTypeOK
<1>2. /\ run' \in AllRuns
      /\ run'[r].pc = "saving" /\ run'[r].outcome = "error" /\ run'[r].tracked = TRUE
      /\ run'[r].exec = run[r].exec /\ run'[r].status = run[r].status
      /\ run'[r].settled = run[r].settled
      /\ \A s \in Runs : s # r => Alike(run'[s], run[s])
  <2>1. run \in AllRuns
    BY DEF LifeInv, LifeTypeOK, AllRuns
  <2> DEFINE f == [run EXCEPT ![r].pc = "saving"]
  <2>2. /\ f \in AllRuns
        /\ f[r].pc = "saving" /\ f[r].exec = run[r].exec /\ f[r].status = run[r].status
        /\ f[r].settled = run[r].settled /\ f[r].tracked = run[r].tracked
        /\ f[r].outcome = run[r].outcome
        /\ \A s \in Runs : s # r => f[s] = run[s]
    BY <2>1 DEF AllRuns, RunRecords
  <2> HIDE DEF f
  <2> DEFINE g == [f EXCEPT ![r].outcome = "error"]
  <2>3. /\ g \in AllRuns
        /\ g[r].outcome = "error" /\ g[r].exec = f[r].exec /\ g[r].pc = f[r].pc
        /\ g[r].status = f[r].status /\ g[r].settled = f[r].settled /\ g[r].tracked = f[r].tracked
        /\ \A s \in Runs : s # r => g[s] = f[s]
    BY <2>2 DEF AllRuns, RunRecords
  <2> HIDE DEF g
  <2> DEFINE h == [g EXCEPT ![r].tracked = TRUE]
  <2>4. /\ h \in AllRuns
        /\ h[r].tracked = TRUE /\ h[r].exec = g[r].exec /\ h[r].pc = g[r].pc
        /\ h[r].status = g[r].status /\ h[r].settled = g[r].settled /\ h[r].outcome = g[r].outcome
        /\ \A s \in Runs : s # r => h[s] = g[s]
    BY <2>3, SetTracked
  <2> HIDE DEF h
  <2>5. run' = h
    BY DEF DenyCredentials, f, g, h
  <2> QED
    BY <2>2, <2>3, <2>4, <2>5 DEF Alike
<1>3. RunsAndPlaces'
  BY <1>1, <1>2, RunGoesOn DEF Alike
<1>4. LifeTypeOK'
  BY <1>1, <1>2, SMTT(10) DEF LifeInv, LifeTypeOK, AllRuns
<1>5. RowsExist' /\ NewAgrees' /\ NothingResumes' /\ EnqueuedNotForgotten'
  BY <1>1, <1>2, SMTT(10)
     DEF LifeInv, RowsExist, NewAgrees, NothingResumes, EnqueuedNotForgotten, Alike, LiveRuns
<1> QED
  BY <1>3, <1>4, <1>5 DEF LifeInv, RunsAndPlaces

\* The engine ends with success or error.
LEMMA EngineEndsKeeps ==
    ASSUME LifeInv, NEW r \in Runs, NEW o \in {"success", "error"}, EngineEnds(r, o)
    PROVE  LifeInv'
<1>1. /\ UNCHANGED <<isEnabled, capacity, queue, holders>>
      /\ run[r].pc = "engine"
      /\ UNCHANGED <<db, active, timers, polled, stop, phase, bootList, recovering, amended,
                     recoveryFile, crashes>>
      /\ log' \in [Executions -> SUBSET {"workflow", "node"}]
  BY DEF EngineEnds, LogEvents, lifecycle, limiter, LifeInv, LifeTypeOK
<1>2. /\ run' \in AllRuns
      /\ run'[r].pc = "saving" /\ run'[r].outcome = o /\ run'[r].exec = run[r].exec
      /\ run'[r].status = run[r].status /\ run'[r].settled = run[r].settled
      /\ run'[r].tracked = run[r].tracked
      /\ \A s \in Runs : s # r => Alike(run'[s], run[s])
  <2>1. run \in AllRuns
    BY DEF LifeInv, LifeTypeOK, AllRuns
  <2> DEFINE f == [run EXCEPT ![r].pc = "saving"]
  <2>2. /\ f \in AllRuns
        /\ f[r].pc = "saving" /\ f[r].exec = run[r].exec /\ f[r].status = run[r].status
        /\ f[r].settled = run[r].settled /\ f[r].tracked = run[r].tracked
        /\ f[r].outcome = run[r].outcome
        /\ \A s \in Runs : s # r => f[s] = run[s]
    BY <2>1 DEF AllRuns, RunRecords
  <2> HIDE DEF f
  <2> DEFINE g == [f EXCEPT ![r].outcome = o]
  <2>3. /\ g \in AllRuns
        /\ g[r].outcome = o /\ g[r].exec = f[r].exec /\ g[r].pc = f[r].pc
        /\ g[r].status = f[r].status /\ g[r].settled = f[r].settled /\ g[r].tracked = f[r].tracked
        /\ \A s \in Runs : s # r => g[s] = f[s]
    BY <2>2 DEF AllRuns, RunRecords
  <2> HIDE DEF g
  <2>4. run' = g
    BY DEF EngineEnds, f, g
  <2> QED
    BY <2>2, <2>3, <2>4 DEF Alike
<1>3. RunsAndPlaces'
  BY <1>1, <1>2, RunGoesOn DEF Alike
<1>4. LifeTypeOK'
  BY <1>1, <1>2, SMTT(10) DEF LifeInv, LifeTypeOK, AllRuns
<1>5. RowsExist' /\ NewAgrees' /\ NothingResumes' /\ EnqueuedNotForgotten'
  BY <1>1, <1>2, SMTT(10)
     DEF LifeInv, RowsExist, NewAgrees, NothingResumes, EnqueuedNotForgotten, Alike, LiveRuns
<1> QED
  BY <1>3, <1>4, <1>5 DEF LifeInv, RunsAndPlaces

\* A Wait node marks the entry under the id as waiting.
LEMMA EngineWaitsKeeps ==
    ASSUME LifeInv, NEW r \in Runs, EngineWaits(r)
    PROVE  LifeInv'
<1> DEFINE x == active[run[r].exec]
<1>1. /\ UNCHANGED <<isEnabled, capacity, queue, holders>>
      /\ run[r].pc = "engine" /\ run[r].exec \in MayWait
      /\ x \in Runs /\ run[x].exec = run[r].exec
      /\ run[x].pc \notin {"unused", "created", "throttled", "removed"}
      /\ UNCHANGED <<db, active, timers, polled, stop, phase, bootList, recovering, amended,
                     recoveryFile, crashes>>
      /\ log' \in [Executions -> SUBSET {"workflow", "node"}]
  BY DEF EngineWaits, LogEvents, lifecycle, limiter, LifeInv, LifeTypeOK, RunsAgree, EntriesAgree,
         EntryAgrees
<1>2. /\ run' \in AllRuns
      /\ \A s \in Runs : run'[s].exec = run[s].exec
      /\ \A s \in Runs : run'[s].pc = (IF s = r THEN "saving" ELSE run[s].pc)
      /\ \A s \in Runs : run'[s].status = (IF s = x THEN "waiting" ELSE run[s].status)
      /\ \A s \in Runs : run'[s].settled = run[s].settled
      /\ \A s \in Runs : run'[s].tracked = run[s].tracked
      /\ \A s \in Runs : run'[s].outcome = (IF s = r THEN "waiting" ELSE run[s].outcome)
  <2>1. run \in AllRuns
    BY DEF LifeInv, LifeTypeOK, AllRuns
  <2> DEFINE f == [run EXCEPT ![r].pc = "saving"]
  <2>2. /\ f \in AllRuns
        /\ f[r].pc = "saving" /\ f[r].exec = run[r].exec /\ f[r].status = run[r].status
        /\ f[r].settled = run[r].settled /\ f[r].tracked = run[r].tracked
        /\ f[r].outcome = run[r].outcome
        /\ \A s \in Runs : s # r => f[s] = run[s]
    BY <2>1 DEF AllRuns, RunRecords
  <2> HIDE DEF f
  <2> DEFINE g == [f EXCEPT ![r].outcome = "waiting"]
  <2>3. /\ g \in AllRuns
        /\ g[r].outcome = "waiting" /\ g[r].exec = f[r].exec /\ g[r].pc = f[r].pc
        /\ g[r].status = f[r].status /\ g[r].settled = f[r].settled /\ g[r].tracked = f[r].tracked
        /\ \A s \in Runs : s # r => g[s] = f[s]
    BY <2>2 DEF AllRuns, RunRecords
  <2> HIDE DEF g
  <2> DEFINE h == [g EXCEPT ![x].status = "waiting"]
  <2>4. /\ h \in AllRuns
        /\ h[x].status = "waiting" /\ h[x].exec = g[x].exec /\ h[x].pc = g[x].pc
        /\ h[x].settled = g[x].settled /\ h[x].tracked = g[x].tracked
        /\ h[x].outcome = g[x].outcome
        /\ \A s \in Runs : s # x => h[s] = g[s]
    <3>1. g \in [Runs -> RunRecords] /\ x \in Runs
      BY <2>3, <1>1 DEF AllRuns
    <3>2. /\ h[x].status = "waiting" /\ h[x].exec = g[x].exec /\ h[x].pc = g[x].pc
          /\ h[x].settled = g[x].settled /\ h[x].tracked = g[x].tracked
          /\ h[x].outcome = g[x].outcome
      BY <3>1 DEF RunRecords
    <3>3. \A s \in Runs : s # x => h[s] = g[s]
      BY <3>1
    <3>4. [g[x] EXCEPT !.status = "waiting"] \in RunRecords
      BY <3>1 DEF RunRecords
    <3>5. h \in [Runs -> RunRecords]
      BY <3>1, <3>4
    <3> QED
      BY <3>2, <3>3, <3>5 DEF AllRuns
  <2> HIDE DEF h
  <2>5. run' = h
    BY DEF EngineWaits, f, g, h
  <2> QED
    BY <2>2, <2>3, <2>4, <2>5
<1>3. RunsAndPlaces'
  BY <1>1, <1>2, RunGoesOn
<1>4. LifeTypeOK'
  BY <1>1, <1>2, SMTT(10) DEF LifeInv, LifeTypeOK, AllRuns
<1>5. RowsExist' /\ NewAgrees' /\ NothingResumes' /\ EnqueuedNotForgotten'
  BY <1>1, <1>2, SMTT(10)
     DEF LifeInv, RowsExist, NewAgrees, NothingResumes, EnqueuedNotForgotten, LiveRuns
<1> QED
  BY <1>3, <1>4, <1>5 DEF LifeInv, RunsAndPlaces

\* The engine finds that it has been canceled.
LEMMA EngineStopsKeeps ==
    ASSUME LifeInv, NEW r \in Runs, EngineStops(r)
    PROVE  LifeInv'
<1>1. /\ UNCHANGED <<isEnabled, capacity, queue, holders>>
      /\ run[r].pc = "engine"
      /\ UNCHANGED <<db, active, timers, polled, stop, phase, bootList, recovering, amended, log,
                     recoveryFile, crashes>>
  BY DEF EngineStops, limiter, process
<1>2. /\ run' \in AllRuns
      /\ run'[r].pc = "saved" /\ run'[r].exec = run[r].exec /\ run'[r].status = run[r].status
      /\ run'[r].settled = run[r].settled /\ run'[r].tracked = run[r].tracked
      /\ run'[r].outcome = run[r].outcome
      /\ \A s \in Runs : s # r => Alike(run'[s], run[s])
  <2>1. run \in AllRuns
    BY DEF LifeInv, LifeTypeOK, AllRuns
  <2> DEFINE f == [run EXCEPT ![r].pc = "saved"]
  <2>2. /\ f \in AllRuns
        /\ f[r].pc = "saved" /\ f[r].exec = run[r].exec /\ f[r].status = run[r].status
        /\ f[r].settled = run[r].settled /\ f[r].tracked = run[r].tracked
        /\ f[r].outcome = run[r].outcome
        /\ \A s \in Runs : s # r => f[s] = run[s]
    BY <2>1 DEF AllRuns, RunRecords
  <2> HIDE DEF f
  <2>3. run' = f
    BY DEF EngineStops, f
  <2> QED
    BY <2>2, <2>3 DEF Alike
<1>3. RunsAndPlaces'
  BY <1>1, <1>2, RunGoesOn DEF Alike
<1>4. LifeTypeOK'
  BY <1>1, <1>2, SMTT(10) DEF LifeInv, LifeTypeOK, AllRuns
<1>5. RowsExist' /\ NewAgrees' /\ NothingResumes' /\ EnqueuedNotForgotten'
  BY <1>1, <1>2, SMTT(10)
     DEF LifeInv, RowsExist, NewAgrees, NothingResumes, EnqueuedNotForgotten, Alike, LiveRuns
<1> QED
  BY <1>3, <1>4, <1>5 DEF LifeInv, RunsAndPlaces

\* The hook writes the end of a run into the row.
LEMMA EngineSavesKeeps ==
    ASSUME LifeInv, NEW r \in Runs, EngineSaves(r)
    PROVE  LifeInv'
<1>1. /\ UNCHANGED <<isEnabled, capacity, queue, holders>>
      /\ run[r].pc = "saving"
      /\ run[r].outcome \in {"success", "error", "waiting"}
      /\ UNCHANGED <<active, timers, polled, stop, phase, bootList, recovering, amended,
                     recoveryFile, crashes>>
      /\ log' \in [Executions -> SUBSET {"workflow", "node"}]
  BY DEF EngineSaves, LogEvents, lifecycle, limiter, LifeInv, LifeTypeOK, RunsAgree, RunRecords
<1>2. /\ run' \in AllRuns
      /\ run'[r].pc = "saved" /\ run'[r].exec = run[r].exec /\ run'[r].status = run[r].status
      /\ run'[r].settled = run[r].settled /\ run'[r].tracked = run[r].tracked
      /\ run'[r].outcome = run[r].outcome
      /\ \A s \in Runs : s # r => Alike(run'[s], run[s])
  <2>1. run \in AllRuns
    BY DEF LifeInv, LifeTypeOK, AllRuns
  <2> DEFINE f == [run EXCEPT ![r].pc = "saved"]
  <2>2. /\ f \in AllRuns
        /\ f[r].pc = "saved" /\ f[r].exec = run[r].exec /\ f[r].status = run[r].status
        /\ f[r].settled = run[r].settled /\ f[r].tracked = run[r].tracked
        /\ f[r].outcome = run[r].outcome
        /\ \A s \in Runs : s # r => f[s] = run[s]
    BY <2>1 DEF AllRuns, RunRecords
  <2> HIDE DEF f
  <2>3. run' = f
    BY DEF EngineSaves, f
  <2> QED
    BY <2>2, <2>3 DEF Alike
<1>3. /\ db' \in AllRows
      /\ db'[run[r].exec].status = run[r].outcome
      /\ db'[run[r].exec].waitTill => db[run[r].exec].waitTill \/ run[r].outcome = "waiting"
      /\ \A d \in Executions : d # run[r].exec => db'[d] = db[d]
  <2>0. db \in AllRows /\ run[r].exec \in Executions
    BY <1>1 DEF LifeInv, LifeTypeOK, AllRows, RunsAgree
  <2> DEFINE u == run[r].outcome = "success"
  <2> DEFINE w == db[run[r].exec].waitTill \/ run[r].outcome = "waiting"
  <2> DEFINE v == run[r].outcome
  <2> DEFINE f == [db EXCEPT ![run[r].exec] = [status |-> v, finished |-> u, waitTill |-> w]]
  <2>1. v \in Statuses /\ u \in BOOLEAN /\ w \in BOOLEAN
    BY <1>1 DEF Statuses
  <2> HIDE DEF u, w, v
  <2>2. /\ f \in AllRows
        /\ f[run[r].exec].status = v /\ f[run[r].exec].waitTill = w
        /\ \A d \in Executions : d # run[r].exec => f[d] = db[d]
    BY <2>0, <2>1, SetRow
  <2> HIDE DEF f
  <2>3. db' = f
    BY DEF EngineSaves, f, u, w, v
  <2> QED
    BY <2>2, <2>3 DEF w, v
<1>4. RunsAndPlaces'
  BY <1>1, <1>2, RunGoesOn DEF Alike
<1>5. LifeTypeOK'
  BY <1>1, <1>2, <1>3, SMTT(10) DEF LifeInv, LifeTypeOK, AllRuns, AllRows
<1>6. RowsExist' /\ NewAgrees' /\ NothingResumes' /\ EnqueuedNotForgotten'
  BY <1>1, <1>2, <1>3, SMTT(10)
     DEF LifeInv, RowsExist, NewAgrees, NothingResumes, EnqueuedNotForgotten, Alike, LiveRuns
<1> QED
  BY <1>4, <1>5, <1>6 DEF LifeInv, RunsAndPlaces

\* The hook of a canceled engine writes into the row.
LEMMA CancelSavesKeeps ==
    ASSUME LifeInv, NEW r \in Runs, CancelSaves(r)
    PROVE  LifeInv'
<1>1. /\ UNCHANGED <<isEnabled, capacity, queue, holders>>
      /\ UNCHANGED <<active, timers, polled, stop, phase, bootList, recovering, amended,
                     recoveryFile, crashes>>
      /\ log' \in [Executions -> SUBSET {"workflow", "node"}]
  BY DEF CancelSaves, LogEvents, lifecycle, limiter, LifeInv, LifeTypeOK
<1>2. /\ run' \in AllRuns
      /\ \A s \in Runs : Alike(run'[s], run[s])
  <2>1. run \in AllRuns
    BY DEF LifeInv, LifeTypeOK, AllRuns
  <2> DEFINE f == [run EXCEPT ![r].cancelSave = FALSE]
  <2>2. /\ f \in AllRuns
        /\ \A s \in Runs : Alike(f[s], run[s])
    BY <2>1, SetCancelSave
  <2> HIDE DEF f
  <2>3. run' = f
    BY DEF CancelSaves, f
  <2> QED
    BY <2>2, <2>3 DEF Alike
<1>3. /\ db' \in AllRows
      /\ \A d \in Executions : db'[d].waitTill = db[d].waitTill
      /\ \A d \in Executions : db'[d].status = db[d].status \/ db'[d].status = "canceled"
  <2> DEFINE e == run[r].exec
             f == [db EXCEPT ![e].status = "canceled"]
             g == [f EXCEPT ![e].finished = FALSE]
  <2>0. db \in AllRows
    BY DEF LifeInv, LifeTypeOK, AllRows
  <2>1. db' = g
    BY DEF CancelSaves
  <2>2. CASE e \in Executions
    <3> HIDE DEF e
    <3>1. /\ f \in AllRows /\ f[e].status = "canceled" /\ f[e].waitTill = db[e].waitTill
          /\ \A d \in Executions : d # e => f[d] = db[d]
      BY <2>0, <2>2 DEF AllRows, Rows, Statuses
    <3> HIDE DEF f
    <3>2. /\ g \in AllRows /\ g[e].status = f[e].status /\ g[e].waitTill = f[e].waitTill
          /\ \A d \in Executions : d # e => g[d] = f[d]
      BY <3>1, <2>2, SetFinished
    <3> QED
      BY <2>1, <3>1, <3>2
  <2>3. CASE e \notin Executions
    <3> HIDE DEF e
    <3>1. f = db
      BY <2>0, <2>3 DEF AllRows
    <3> HIDE DEF f
    <3>2. g = db
      BY <2>0, <2>3, <3>1 DEF AllRows
    <3> QED
      BY <2>0, <2>1, <3>2
  <2> QED
    BY <2>2, <2>3
<1>4. RunsAndPlaces'
  BY <1>1, <1>2, RunsStay
<1>5. LifeTypeOK'
  BY <1>1, <1>2, <1>3, SMTT(10) DEF LifeInv, LifeTypeOK, AllRuns, AllRows
<1>6. RowsExist' /\ NewAgrees' /\ NothingResumes' /\ EnqueuedNotForgotten'
  BY <1>1, <1>2, <1>3, SMTT(10)
     DEF LifeInv, RowsExist, NewAgrees, NothingResumes, EnqueuedNotForgotten, Alike, LiveRuns
<1> QED
  BY <1>4, <1>5, <1>6 DEF LifeInv, RunsAndPlaces

\* What finalizeExecution writes into the runs.
LEMMA FinalWrites ==
    ASSUME NEW f \in AllRuns, NEW r \in Runs, NEW x \in Runs
    PROVE  LET h == [f EXCEPT ![r].pc = "done", ![x].settled = TRUE]
           IN  /\ h \in AllRuns
               /\ \A s \in Runs : /\ h[s].exec = f[s].exec /\ h[s].status = f[s].status
                                  /\ h[s].tracked = f[s].tracked /\ h[s].outcome = f[s].outcome
               /\ \A s \in Runs : h[s].pc = (IF s = r THEN "done" ELSE f[s].pc)
               /\ \A s \in Runs : s # x => h[s].settled = f[s].settled
               /\ h[x].settled
<1> DEFINE b == TRUE
           g == [f EXCEPT ![r].pc = "done"]
           h == [g EXCEPT ![x].settled = b]
<1>1. b \in BOOLEAN
  OBVIOUS
<1> HIDE DEF b
<1>2. /\ g \in AllRuns
      /\ g[r].pc = "done" /\ g[r].exec = f[r].exec /\ g[r].status = f[r].status
      /\ g[r].settled = f[r].settled /\ g[r].tracked = f[r].tracked /\ g[r].outcome = f[r].outcome
      /\ \A s \in Runs : s # r => g[s] = f[s]
  BY DEF AllRuns, RunRecords
<1> HIDE DEF g
<1>3. /\ h \in AllRuns
      /\ h[x].settled = b /\ h[x].exec = g[x].exec /\ h[x].pc = g[x].pc
      /\ h[x].status = g[x].status /\ h[x].tracked = g[x].tracked /\ h[x].outcome = g[x].outcome
      /\ \A s \in Runs : s # x => h[s] = g[s]
  BY <1>1, <1>2, SetSettled
<1>4. [f EXCEPT ![r].pc = "done", ![x].settled = TRUE] = h
  BY DEF g, h, b
<1> HIDE DEF h
<1>5. \A s \in Runs : /\ h[s].exec = f[s].exec /\ h[s].status = f[s].status
                     /\ h[s].tracked = f[s].tracked /\ h[s].outcome = f[s].outcome
  BY <1>2, <1>3
<1>6. \A s \in Runs : h[s].pc = (IF s = r THEN "done" ELSE f[s].pc)
  BY <1>2, <1>3
<1>7. \A s \in Runs : s # x => h[s].settled = f[s].settled
  BY <1>2, <1>3
<1>8. h[x].settled
  BY <1>3 DEF b
<1> QED
  BY <1>3, <1>4, <1>5, <1>6, <1>7, <1>8

\* finalizeExecution finds a pending promise: that run gives its place back.
LEMMA FinalizeSettles ==
    ASSUME LifeInv, NEW r \in Runs, Finalize(r), run[r].tracked, active[run[r].exec] # NoRun,
           ~run[active[run[r].exec]].settled
    PROVE  LifeInv'
<1> DEFINE e == run[r].exec
           x == active[e]
<1>0. /\ e \in Executions /\ run[r].pc = "saved"
      /\ x \in Runs /\ run[x].exec = e /\ ~run[x].settled
      /\ run[x].pc \notin {"unused", "created", "throttled", "removed"}
      /\ isEnabled /\ Counter(x) \in Queues => x \in holders[Counter(x)]
  BY DEF LifeInv, LifeTypeOK, EntriesAgree, EntryAgrees, RunsAgree, Finalize
<1>1. /\ IInv' /\ isEnabled' = isEnabled
      /\ \A t \in Queues :
            Queued(t)' \subseteq Queued(t) /\ holders[t] \ {x} \subseteq holders'[t]
      /\ \A t \in Queues : \A y \in Queued(t) \ Queued(t)' : y.run \in holders'[t]
      /\ \A t \in Queues : \A s \in holders'[t] \ holders[t] : \E y \in Queued(t) : s = y.run
      /\ isEnabled /\ Counter(x) \in Queues => x \notin holders'[Counter(x)]
  BY <1>0, ReleaseMoves DEF LifeInv, Finalize, Counter
<1>2. /\ active' \in [Executions -> Runs \cup {NoRun}]
      /\ \A d \in Executions : d # e => active'[d] = active[d]
      /\ active'[e] = NoRun \/ (active'[e] = x /\ run[x].status = "waiting")
      /\ UNCHANGED <<db, timers, polled, stop, phase, bootList, recovering, amended, log,
                     recoveryFile, crashes>>
  BY <1>0 DEF Finalize, process, LifeInv, LifeTypeOK
<1> HIDE DEF x, e
<1>20. isEnabled => \A s \in Holding' : run[s].pc = "throttled" \/ (s \in Holding /\ s # x)
  BY <1>1, LimiterTyped, LimiterTypedNext DEF LifeInv, QueuesAgree, PlacesAgree
<1>3. /\ run' \in AllRuns
      /\ \A s \in Runs : /\ run'[s].exec = run[s].exec /\ run'[s].status = run[s].status
                       /\ run'[s].tracked = run[s].tracked /\ run'[s].outcome = run[s].outcome
      /\ \A s \in Runs : run'[s].pc = (IF s = r THEN "done" ELSE run[s].pc)
      /\ \A s \in Runs : s # x => run'[s].settled = run[s].settled
      /\ run'[x].settled
  <2> DEFINE h == [run EXCEPT ![r].pc = "done", ![x].settled = TRUE]
  <2>1. run \in AllRuns /\ x \in Runs
    BY <1>0 DEF LifeInv, LifeTypeOK, AllRuns
  <2>2. run' = h
    BY DEF Finalize, x, e
  <2>3. /\ h \in AllRuns
        /\ \A s \in Runs : /\ h[s].exec = run[s].exec /\ h[s].status = run[s].status
                           /\ h[s].tracked = run[s].tracked /\ h[s].outcome = run[s].outcome
        /\ \A s \in Runs : h[s].pc = (IF s = r THEN "done" ELSE run[s].pc)
        /\ \A s \in Runs : s # x => h[s].settled = run[s].settled
        /\ h[x].settled
    BY <2>1, FinalWrites
  <2> HIDE DEF h
  <2> QED
    BY <2>2, <2>3
<1>21. \A d \in Executions : d # e /\ active[d] # NoRun =>
          active[d] # x /\ active[d] # r /\ run[active[d]].exec = d
  BY <1>0 DEF LifeInv, EntriesAgree, EntryAgrees, e
<1>4. LifeTypeOK'
  BY <1>2, <1>3, SMTT(10) DEF LifeInv, LifeTypeOK, AllRuns
<1>5. QueuesAgree' /\ PlacesAgree'
  BY <1>0, <1>1, <1>3, LimiterTyped, LimiterTypedNext, SMTT(10)
     DEF LifeInv, QueuesAgree, PlacesAgree, RunsAgree, Counter
<1>6. RunsAgree'
  BY <1>0, <1>3, SMTT(10) DEF LifeInv, RunsAgree
<1>7. RowsExist' /\ NewAgrees' /\ NothingResumes' /\ EnqueuedNotForgotten'
  BY <1>0, <1>2, <1>3, SMTT(10)
     DEF LifeInv, RowsExist, NewAgrees, NothingResumes, EnqueuedNotForgotten, LiveRuns
<1>8. OneRunEach'
  BY <1>0, <1>1, <1>2, <1>3, <1>20, SMTT(10) DEF LifeInv, OneRunEach, RunsAgree
<1>22. EntriesAgree'
  <2> SUFFICES ASSUME NEW d \in Executions, NEW y \in Runs, active'[d] = y
               PROVE  EntryAgrees(d, y)'
    BY <1>2 DEF EntriesAgree
  <2>1. CASE d # e
    <3>1. active[d] = y /\ y # x /\ y # r /\ y # NoRun
      BY <1>2, <1>21, <2>1, NoRunAssumption
    <3>2. /\ run'[y].exec = run[y].exec /\ run'[y].pc = run[y].pc
          /\ run'[y].status = run[y].status
          /\ run'[y].settled = run[y].settled /\ run'[y].tracked = run[y].tracked
      BY <1>3, <3>1
    <3>3. EntryAgrees(d, y)
      BY <3>1 DEF LifeInv, EntriesAgree
    <3>4. isEnabled' /\ Counter(y) \in Queues /\ y \in holders[Counter(y)] =>
             y \in holders'[Counter(y)]
      BY <1>1, <3>1
    <3> QED
      BY <1>1, <3>2, <3>3, <3>4 DEF EntryAgrees, Counter
  <2>2. CASE d = e
    <3>1. y = x /\ run[x].status = "waiting" /\ x # NoRun
      BY <1>2, <2>2, NoRunAssumption
    <3>2. EntryAgrees(e, x)
      BY <1>0, <3>1 DEF LifeInv, EntriesAgree, x
    <3> QED
      BY <1>3, <2>2, <3>1, <3>2 DEF EntryAgrees
  <2> QED
    BY <2>1, <2>2
<1> QED
  BY <1>1, <1>4, <1>5, <1>6, <1>7, <1>8, <1>22 DEF LifeInv

\* finalizeExecution finds no entry, or an answer that has been given.
LEMMA FinalizeFindsNothing ==
    ASSUME LifeInv, NEW r \in Runs, Finalize(r),
           ~run[r].tracked \/ active[run[r].exec] = NoRun \/ run[active[run[r].exec]].settled
    PROVE  LifeInv'
<1>1. /\ UNCHANGED <<isEnabled, capacity, queue, holders>>
      /\ run[r].pc = "saved"
      /\ active[run[r].exec] = r => run[r].settled
      /\ UNCHANGED <<db, active, timers, polled, stop, phase, bootList, recovering, amended, log,
                     recoveryFile, crashes>>
  BY NoRunAssumption
     DEF Finalize, limiter, process, LifeInv, EntriesAgree, EntryAgrees, RunsAgree
<1>2. /\ run' \in AllRuns
      /\ run'[r].pc = "done" /\ run'[r].exec = run[r].exec /\ run'[r].status = run[r].status
      /\ run'[r].settled = run[r].settled /\ run'[r].tracked = run[r].tracked
      /\ run'[r].outcome = run[r].outcome
      /\ \A s \in Runs : s # r => Alike(run'[s], run[s])
  <2>1. run \in AllRuns
    BY DEF LifeInv, LifeTypeOK, AllRuns
  <2> DEFINE f == [run EXCEPT ![r].pc = "done"]
  <2>2. /\ f \in AllRuns
        /\ f[r].pc = "done" /\ f[r].exec = run[r].exec /\ f[r].status = run[r].status
        /\ f[r].settled = run[r].settled /\ f[r].tracked = run[r].tracked
        /\ f[r].outcome = run[r].outcome
        /\ \A s \in Runs : s # r => f[s] = run[s]
    BY <2>1 DEF AllRuns, RunRecords
  <2> HIDE DEF f
  <2>3. run' = f
    BY DEF Finalize, f
  <2> QED
    BY <2>2, <2>3 DEF Alike
<1>3. RunsAndPlaces'
  BY <1>1, <1>2, RunGoesOn DEF Alike
<1>4. LifeTypeOK'
  BY <1>1, <1>2, SMTT(10) DEF LifeInv, LifeTypeOK, AllRuns
<1>5. RowsExist' /\ NewAgrees' /\ NothingResumes' /\ EnqueuedNotForgotten'
  BY <1>1, <1>2, SMTT(10)
     DEF LifeInv, RowsExist, NewAgrees, NothingResumes, EnqueuedNotForgotten, Alike, LiveRuns
<1> QED
  BY <1>3, <1>4, <1>5 DEF LifeInv, RunsAndPlaces

\* A stop drops the entry of an execution that waits, and releases nothing.
LEMMA StopForgets ==
    ASSUME LifeInv, NEW e \in Executions, NEW runs \in AllRuns,
           \A s \in Runs : Alike(runs[s], run[s]), StopEntry(e, runs),
           active[e] = NoRun \/ run[active[e]].status = "waiting",
           timers' \subseteq timers, stop' \in [Executions -> {"none", "beforeRun", "duringRun"}],
           \A d \in Executions : stop[d] # "none" => stop'[d] # "none",
           UNCHANGED <<db, polled, phase, bootList, recovering, amended, log, recoveryFile,
                       crashes>>
    PROVE  LifeInv'
<1>1. /\ IInv' /\ isEnabled' = isEnabled /\ Waiting' = Waiting /\ Holding' = Holding
      /\ \A t \in Queues : Queued(t)' = Queued(t) /\ holders'[t] = holders[t]
  BY LimiterSame DEF LifeInv, StopEntry, limiter
<1>2. /\ run' = runs
      /\ active' \in [Executions -> Runs \cup {NoRun}]
      /\ \A d \in Executions : d # e => active'[d] = active[d]
      /\ active'[e] = active[e] \/ (active'[e] = NoRun /\ run[active[e]].status = "waiting")
  BY DEF StopEntry, LifeInv, LifeTypeOK
<1>3. run' \in AllRuns /\ \A s \in Runs : Alike(run'[s], run[s])
  BY <1>2
<1>4. LifeTypeOK'
  BY <1>2, SMTT(10) DEF LifeInv, LifeTypeOK, AllRuns
<1>5. QueuesAgree' /\ PlacesAgree'
  BY <1>1, <1>3, LimiterTypedNext, SMTT(10)
     DEF LifeInv, QueuesAgree, PlacesAgree, Alike, Counter
<1>6. RunsAgree'
  BY <1>3, SMTT(10) DEF LifeInv, RunsAgree, Alike
<1>7. EntriesAgree'
  BY <1>1, <1>2, SMTT(10) DEF LifeInv, EntriesAgree, Alike, EntryAgrees, Counter
<1>8. RowsExist' /\ NewAgrees' /\ NothingResumes' /\ EnqueuedNotForgotten'
  BY <1>3, SMTT(10)
     DEF LifeInv, RowsExist, NewAgrees, NothingResumes, EnqueuedNotForgotten, Alike, LiveRuns
<1>9. OneRunEach'
  BY <1>1, <1>2, SMTT(10) DEF LifeInv, OneRunEach, NothingResumes, Alike, RunsAgree
<1> QED
  BY <1>1, <1>4, <1>5, <1>6, <1>7, <1>8, <1>9 DEF LifeInv

\* A stop rejects the promise of an entry, whose place is given back.
LEMMA StopRejects ==
    ASSUME LifeInv, NEW e \in Executions, NEW runs \in AllRuns,
           \A s \in Runs : Alike(runs[s], run[s]), StopEntry(e, runs),
           active[e] # NoRun, run[active[e]].status # "waiting",
           timers' \subseteq timers, stop' \in [Executions -> {"none", "beforeRun", "duringRun"}],
           \A d \in Executions : stop[d] # "none" => stop'[d] # "none",
           UNCHANGED <<db, polled, phase, bootList, recovering, amended, log, recoveryFile,
                       crashes>>
    PROVE  LifeInv'
<1> DEFINE x == active[e]
<1>0. /\ x \in Runs /\ run[x].exec = e /\ ~run[x].settled
      /\ run[x].pc \notin {"unused", "created", "throttled", "removed"}
      /\ isEnabled /\ Counter(x) \in Queues => x \in holders[Counter(x)]
  BY DEF LifeInv, LifeTypeOK, EntriesAgree, EntryAgrees
<1>1. /\ IInv' /\ isEnabled' = isEnabled
      /\ \A t \in Queues :
            Queued(t)' \subseteq Queued(t) /\ holders[t] \ {x} \subseteq holders'[t]
      /\ \A t \in Queues : \A y \in Queued(t) \ Queued(t)' : y.run \in holders'[t]
      /\ \A t \in Queues : \A s \in holders'[t] \ holders[t] : \E y \in Queued(t) : s = y.run
      /\ isEnabled /\ Counter(x) \in Queues => x \notin holders'[Counter(x)]
  BY <1>0, ReleaseMoves DEF LifeInv, StopEntry, Counter
<1>2. /\ active' \in [Executions -> Runs \cup {NoRun}] /\ active'[e] = NoRun
      /\ \A d \in Executions : d # e => active'[d] = active[d]
  BY DEF StopEntry, LifeInv, LifeTypeOK
<1>20. isEnabled => \A s \in Holding' : run[s].pc = "throttled" \/ (s \in Holding /\ s # x)
  BY <1>1, LimiterTyped, LimiterTypedNext DEF LifeInv, QueuesAgree, PlacesAgree
<1>3. /\ run' \in AllRuns
      /\ run'[x].settled = TRUE /\ run'[x].exec = run[x].exec /\ run'[x].pc = run[x].pc
      /\ run'[x].status = run[x].status /\ run'[x].tracked = run[x].tracked
      /\ run'[x].outcome = run[x].outcome
      /\ \A s \in Runs : s # x => Alike(run'[s], run[s])
  <2> DEFINE f == Cancel(runs, run[x].engine)
             b == TRUE
             g == [f EXCEPT ![x].settled = b]
  <2>1. run' = g
    BY <1>0 DEF StopEntry
  <2>2. run[x].engine \in Runs \cup {NoRun} /\ b \in BOOLEAN
    BY DEF LifeInv, LifeTypeOK, RunRecords
  <2>3. f \in AllRuns /\ \A s \in Runs : Alike(f[s], runs[s])
    BY <2>2, CancelChanges
  <2> HIDE DEF f, b
  <2>4. /\ g \in AllRuns
        /\ g[x].settled = b /\ g[x].exec = f[x].exec /\ g[x].pc = f[x].pc
        /\ g[x].status = f[x].status /\ g[x].tracked = f[x].tracked /\ g[x].outcome = f[x].outcome
        /\ \A s \in Runs : s # x => g[s] = f[s]
    BY <1>0, <2>2, <2>3, SetSettled
  <2> HIDE DEF g
  <2> QED
    BY <1>0, <2>1, <2>3, <2>4 DEF Alike, b
<1> HIDE DEF x
<1>4. LifeTypeOK'
  BY <1>2, <1>3, SMTT(10) DEF LifeInv, LifeTypeOK, AllRuns
<1>5. QueuesAgree' /\ PlacesAgree'
  BY <1>0, <1>1, <1>3, NoRunAssumption, LimiterTyped, LimiterTypedNext, SMTT(10)
     DEF LifeInv, QueuesAgree, PlacesAgree, Alike, RunsAgree, Counter
<1>6. RunsAgree'
  BY <1>0, <1>3, SMTT(10) DEF LifeInv, RunsAgree, Alike
<1>7. EntriesAgree'
  BY <1>0, <1>1, <1>2, <1>3, SMTT(10) DEF LifeInv, EntriesAgree, Alike, EntryAgrees, Counter
<1>8. RowsExist' /\ NewAgrees' /\ NothingResumes' /\ EnqueuedNotForgotten'
  BY <1>3, SMTT(10)
     DEF LifeInv, RowsExist, NewAgrees, NothingResumes, EnqueuedNotForgotten, Alike, LiveRuns
<1>9. OneRunEach'
  BY <1>0, <1>1, <1>2, <1>3, <1>20, SMTT(10) DEF LifeInv, OneRunEach, Alike, RunsAgree
<1> QED
  BY <1>1, <1>4, <1>5, <1>6, <1>7, <1>8, <1>9 DEF LifeInv

\* A timeout stops the entry under the id.
LEMMA TimeOutKeeps ==
    ASSUME LifeInv, NEW r \in Runs, TimeOut(r)
    PROVE  LifeInv'
<1> DEFINE b == FALSE
           runs == [run EXCEPT ![r].timeout = b]
<1>1. run \in AllRuns /\ run[r].exec \in Executions /\ b \in BOOLEAN
  BY DEF LifeInv, LifeTypeOK, AllRuns, TimeOut, Cancellable, RunsAgree
<1>2. StopEntry(run[r].exec, runs)
  BY DEF TimeOut
<1> HIDE DEF b
<1>3. runs \in AllRuns /\ \A s \in Runs : Alike(runs[s], run[s])
  BY <1>1, SetTimeout
<1> HIDE DEF runs
<1>4. /\ timers' \subseteq timers /\ stop' \in [Executions -> {"none", "beforeRun", "duringRun"}]
      /\ \A d \in Executions : stop[d] # "none" => stop'[d] # "none"
      /\ UNCHANGED <<db, polled, phase, bootList, recovering, amended, log, recoveryFile, crashes>>
  BY DEF TimeOut, process, LifeInv, LifeTypeOK
<1> QED
  BY <1>1, <1>2, <1>3, <1>4, StopForgets, StopRejects

\* A user stops an execution that runs or waits.
LEMMA StopRunningKeeps ==
    ASSUME LifeInv, NEW e \in Executions, StopRunning(e)
    PROVE  LifeInv'
<1>1. run \in AllRuns /\ \A s \in Runs : Alike(run[s], run[s])
  BY DEF LifeInv, LifeTypeOK, AllRuns, Alike
<1>2. StopEntry(e, run)
  BY DEF StopRunning
<1>3. /\ timers' \subseteq timers /\ stop' \in [Executions -> {"none", "beforeRun", "duringRun"}]
      /\ \A d \in Executions : stop[d] # "none" => stop'[d] # "none"
      /\ UNCHANGED <<db, polled, phase, bootList, recovering, amended, log, recoveryFile, crashes>>
  BY DEF StopRunning, process, LifeInv, LifeTypeOK
<1> QED
  BY <1>1, <1>2, <1>3, StopForgets, StopRejects

\* A user stops an execution that is new: it leaves the queue.
LEMMA StopQueuedKeeps ==
    ASSUME LifeInv, NEW e \in Executions, StopQueued(e)
    PROVE  LifeInv'
<1>1. /\ IInv' /\ isEnabled' = isEnabled
      /\ \A t \in Queues : Queued(t)' \subseteq Queued(t) /\ holders[t] \subseteq holders'[t]
      /\ \A t \in Queues : \A x \in Queued(t) \ Queued(t)' :
            x.executionId = e \/ x.run \in holders'[t]
      /\ \A t \in Queues : \A s \in holders'[t] \ holders[t] : \E x \in Queued(t) : s = x.run
  BY RemoveMoves DEF LifeInv, StopQueued
<1>2. /\ stop' \in [Executions -> {"none", "beforeRun", "duringRun"}] /\ stop'[e] # "none"
      /\ \A d \in Executions : d # e => stop'[d] = stop[d]
      /\ UNCHANGED <<db, active, timers, polled, phase, bootList, recovering, amended, log,
                     recoveryFile, crashes>>
  BY DEF StopQueued, process, LifeInv, LifeTypeOK
<1>3. /\ run' \in AllRuns
      /\ \A s \in Runs : /\ run'[s].exec = run[s].exec /\ run'[s].status = run[s].status
                         /\ run'[s].settled = run[s].settled
                         /\ run'[s].tracked = run[s].tracked /\ run'[s].outcome = run[s].outcome
      /\ \A s \in Runs : IF s \in Waiting /\ s \notin Waiting' \cup Holding'
                         THEN run'[s].pc = "removed" ELSE run'[s].pc = run[s].pc
  <2>1. run \in [Runs -> RunRecords]
    BY DEF LifeInv, LifeTypeOK
  <2>2. \A s \in Runs :
          LET x == [run[s] EXCEPT !.pc = "removed"]
          IN  /\ x \in RunRecords /\ x.pc = "removed" /\ x.exec = run[s].exec
              /\ x.status = run[s].status
              /\ x.settled = run[s].settled /\ x.tracked = run[s].tracked
              /\ x.outcome = run[s].outcome
    BY <2>1 DEF RunRecords
  <2>3. run' = [s \in Runs |-> IF s \in Waiting /\ s \notin Waiting' \cup Holding'
                               THEN [run[s] EXCEPT !.pc = "removed"] ELSE run[s]]
    BY DEF StopQueued
  <2> QED
    BY <2>1, <2>2, <2>3 DEF AllRuns
<1>4. \A s \in Runs : s \in Waiting /\ s \notin Waiting' \cup Holding' =>
          run[s].exec = e /\ run[s].pc = "throttled"
  BY <1>1, LimiterTyped, LimiterTypedNext DEF LifeInv, QueuesAgree
<1>5. \A s \in Holding' : run[s].pc = "throttled" \/ s \in Holding
  BY <1>1, LimiterTyped, LimiterTypedNext DEF LifeInv, QueuesAgree
<1>6. LifeTypeOK'
  BY <1>2, <1>3, SMTT(10) DEF LifeInv, LifeTypeOK, AllRuns
<1>7. QueuesAgree' /\ PlacesAgree'
  BY <1>1, <1>3, LimiterTypedNext, SMTT(10)
     DEF LifeInv, QueuesAgree, PlacesAgree, RunsAgree, Counter
<1>8. RunsAgree'
  BY <1>3, <1>4, SMTT(10) DEF LifeInv, RunsAgree
<1>9. EntriesAgree'
  BY <1>1, <1>2, <1>3, <1>4, SMTT(10)
     DEF LifeInv, EntriesAgree, LifeTypeOK, EntryAgrees, Counter
<1>10. RowsExist' /\ NewAgrees' /\ NothingResumes' /\ EnqueuedNotForgotten'
  BY <1>2, <1>3, <1>4, SMTT(10)
     DEF LifeInv, RowsExist, NewAgrees, NothingResumes, EnqueuedNotForgotten, LiveRuns
<1>11. OneRunEach'
  BY <1>1, <1>2, <1>3, <1>4, <1>5, SMTT(10) DEF LifeInv, OneRunEach
<1> QED
  BY <1>1, <1>6, <1>7, <1>8, <1>9, <1>10, <1>11 DEF LifeInv

\* The stop of a user writes the row.
LEMMA StopWritesKeeps ==
    ASSUME LifeInv, NEW e \in Executions, StopWrites(e)
    PROVE  LifeInv'
<1>1. /\ UNCHANGED <<isEnabled, capacity, queue, holders>>
      /\ stop' \in [Executions -> {"none", "beforeRun", "duringRun"}]
      /\ \A d \in Executions : d # e => stop'[d] = stop[d]
      /\ UNCHANGED <<run, active, timers, polled, phase, bootList, recovering, amended, log,
                     recoveryFile, crashes>>
  BY DEF StopWrites, limiter, process, LifeInv, LifeTypeOK
<1>2. /\ db' \in AllRows
      /\ db'[e].status = "canceled" /\ (db'[e].waitTill => db[e].waitTill)
      /\ \A d \in Executions : d # e => db'[d] = db[d]
  <2> DEFINE f == [db EXCEPT ![e].status = "canceled"]
             x == [status |-> "canceled", finished |-> FALSE, waitTill |-> FALSE]
             g == [db EXCEPT ![e] = x]
  <2>1. db \in AllRows
    BY DEF LifeInv, LifeTypeOK, AllRows
  <2>2. /\ f \in AllRows /\ f[e].status = "canceled" /\ f[e].waitTill = db[e].waitTill
        /\ \A d \in Executions : d # e => f[d] = db[d]
    BY <2>1 DEF AllRows, Rows, Statuses
  <2>3. db' = f \/ db' = g
    BY DEF StopWrites
  <2> HIDE DEF f
  <2>4. x \in Rows /\ x.status = "canceled" /\ x.waitTill = FALSE
    BY DEF Rows, Statuses
  <2> HIDE DEF x
  <2>5. g \in AllRows /\ g[e] = x /\ \A d \in Executions : d # e => g[d] = db[d]
    BY <2>1, <2>4 DEF AllRows
  <2> HIDE DEF g
  <2> QED
    BY <2>2, <2>3, <2>4, <2>5
<1>3. RunsAndPlaces'
  BY <1>1, RunsStay DEF Alike
<1>4. LifeTypeOK'
  BY <1>1, <1>2, SMTT(10) DEF LifeInv, LifeTypeOK, AllRows
<1>5. RowsExist' /\ NewAgrees' /\ NothingResumes' /\ EnqueuedNotForgotten'
  BY <1>1, <1>2, SMTT(10)
     DEF LifeInv, RowsExist, NewAgrees, NothingResumes, EnqueuedNotForgotten, LiveRuns
<1> QED
  BY <1>3, <1>4, <1>5 DEF LifeInv, RunsAndPlaces

\* The tracker reads the waiting rows ...
LEMMA PollFindsKeeps ==
    ASSUME LifeInv, NEW e \in Executions, PollFinds(e)
    PROVE  LifeInv'
<1>1. /\ UNCHANGED <<isEnabled, capacity, queue, holders>>
      /\ db[e].waitTill /\ polled' = polled \cup {e}
      /\ UNCHANGED <<db, run, active, timers, stop, phase, bootList, recovering, amended, log,
                     recoveryFile, crashes>>
  BY DEF PollFinds, limiter, process
<1>2. RunsAndPlaces'
  BY <1>1, RunsStay DEF Alike
<1>3. LifeTypeOK'
  BY <1>1, SMTT(10) DEF LifeInv, LifeTypeOK
<1>4. RowsExist' /\ NewAgrees' /\ NothingResumes' /\ EnqueuedNotForgotten'
  BY <1>1, SMTT(10)
     DEF LifeInv, RowsExist, NewAgrees, NothingResumes, EnqueuedNotForgotten, LiveRuns
<1> QED
  BY <1>2, <1>3, <1>4 DEF LifeInv, RunsAndPlaces

\* ... and sets a timer for what it has read.
LEMMA PollSetsTimerKeeps ==
    ASSUME LifeInv, NEW e \in Executions, PollSetsTimer(e)
    PROVE  LifeInv'
<1>1. /\ UNCHANGED <<isEnabled, capacity, queue, holders>>
      /\ e \in polled /\ timers' = timers \cup {e} /\ polled' = polled \ {e}
      /\ UNCHANGED <<db, run, active, stop, phase, bootList, recovering, amended, log,
                     recoveryFile, crashes>>
  BY DEF PollSetsTimer, limiter, process
<1>2. RunsAndPlaces'
  BY <1>1, RunsStay DEF Alike
<1>3. LifeTypeOK'
  BY <1>1, SMTT(10) DEF LifeInv, LifeTypeOK
<1>4. RowsExist' /\ NewAgrees' /\ NothingResumes' /\ EnqueuedNotForgotten'
  BY <1>1, SMTT(10)
     DEF LifeInv, RowsExist, NewAgrees, NothingResumes, EnqueuedNotForgotten, LiveRuns
<1> QED
  BY <1>2, <1>3, <1>4 DEF LifeInv, RunsAndPlaces

\* add is called for an execution that exists, by a timer, a webhook or at startup.
LEMMA ResumeKeeps ==
    ASSUME LifeInv, NEW r \in Runs, NEW e \in Executions, NEW responds \in BOOLEAN,
           RunExisting(r, e, responds), db[e].status # "none", crashes = 0 => e \in MayWait,
           timers' \subseteq timers, bootList' \subseteq bootList,
           bootList \ {e} \subseteq bootList',
           log' \in [Executions -> SUBSET {"workflow", "node"}],
           UNCHANGED <<polled, stop, phase, recovering, amended, recoveryFile, crashes>>
    PROVE  LifeInv'
<1>0. r \notin Waiting \cup Holding /\ run[r].pc \in Over /\ \A d \in Executions : active[d] # r
  BY LimiterTyped DEF LifeInv, QueuesAgree, RunExisting, Free, Over
<1>1. /\ IInv' /\ isEnabled' = isEnabled
      /\ \A t \in Queues : Queued(t) \subseteq Queued(t)' /\ holders[t] \subseteq holders'[t]
      /\ \A t \in Queues : \A x \in Queued(t)' \ Queued(t) :
           QueueOf(Mode[e]) = t /\ x = [executionId |-> e, run |-> r]
      /\ \A t \in Queues : \A s \in holders'[t] \ holders[t] : QueueOf(Mode[e]) = t /\ s = r
      /\ isEnabled /\ QueueOf(Mode[e]) \in Queues /\ r \notin Waiting' =>
            r \in holders'[QueueOf(Mode[e])]
  BY <1>0, ThrottleMoves DEF LifeInv, RunExisting
<1>2. UNCHANGED <<db, active>>
  BY DEF RunExisting
<1>3. /\ run' \in AllRuns
      /\ run'[r].exec = e /\ run'[r].pc = "throttled" /\ run'[r].status = "running"
      /\ ~run'[r].settled /\ ~run'[r].tracked /\ run'[r].outcome = "none"
      /\ \A s \in Runs : s # r => Alike(run'[s], run[s])
  <2> DEFINE b == responds
             x == Entered(e, "throttled", TRUE, b)
             f == [run EXCEPT ![r] = x]
  <2>1. run \in AllRuns /\ b \in BOOLEAN
    BY DEF LifeInv, LifeTypeOK, AllRuns
  <2>2. run' = f
    BY DEF RunExisting
  <2> HIDE DEF b
  <2>3. x \in RunRecords
    BY <2>1 DEF RunRecords, Entered
  <2>4. /\ x.exec = e /\ x.pc = "throttled" /\ x.status = "running" /\ x.settled = FALSE
        /\ x.tracked = FALSE /\ x.outcome = "none"
    BY DEF Entered
  <2> HIDE DEF x
  <2>5. f \in AllRuns /\ f[r] = x /\ \A s \in Runs : s # r => f[s] = run[s]
    BY <2>1, <2>3 DEF AllRuns
  <2> QED
    BY <2>2, <2>4, <2>5 DEF Alike
<1>4. LifeTypeOK'
  BY <1>2, <1>3, SMTT(10) DEF LifeInv, LifeTypeOK, AllRuns
<1>5. QueuesAgree' /\ PlacesAgree'
  BY <1>0, <1>1, <1>3, LimiterTyped, LimiterTypedNext, SMTT(10)
     DEF LifeInv, QueuesAgree, PlacesAgree, Alike, Counter
<1>6. RunsAgree'
  BY <1>3, SMTT(10) DEF LifeInv, RunsAgree, Alike
<1>7. EntriesAgree'
  BY <1>0, <1>1, <1>2, <1>3, SMTT(10)
     DEF LifeInv, EntriesAgree, Alike, LifeTypeOK, EntryAgrees, Counter
<1>8. RowsExist' /\ NewAgrees' /\ NothingResumes' /\ EnqueuedNotForgotten'
  BY <1>0, <1>2, <1>3, SMTT(10)
     DEF LifeInv, RowsExist, NewAgrees, NothingResumes, EnqueuedNotForgotten, Alike, Over,
         LiveRuns
<1>9. OneRunEach'
  BY <1>1, <1>2, <1>3, LimiterTyped, LimiterTypedNext, SMTT(10) DEF LifeInv, OneRunEach, Alike
<1> QED
  BY <1>1, <1>4, <1>5, <1>6, <1>7, <1>8, <1>9 DEF LifeInv

\* The timer of a waiting execution fires.
LEMMA TimerFiresKeeps ==
    ASSUME LifeInv, NEW r \in Runs, NEW e \in Executions, TimerFires(r, e)
    PROVE  LifeInv'
<1>1. CASE ~db[e].finished
  <2> DEFINE b == FALSE
  <2>1. db[e].status # "none" /\ (crashes = 0 => e \in MayWait) /\ b \in BOOLEAN
    BY DEF TimerFires, LifeInv, RowsExist, NothingResumes
  <2>2. /\ RunExisting(r, e, b) /\ timers' \subseteq timers /\ bootList' = bootList
        /\ log' \in [Executions -> SUBSET {"workflow", "node"}]
        /\ UNCHANGED <<polled, stop, phase, recovering, amended, recoveryFile, crashes>>
    BY <1>1 DEF TimerFires, lifecycle, LogThrottled, LogEvents, LifeInv, LifeTypeOK
  <2> HIDE DEF b
  <2> QED
    BY <2>1, <2>2, ResumeKeeps
<1>2. CASE UNCHANGED <<limiter, run, active, db, log, polled, stop, lifecycle>>
  <2>1. IInv' /\ isEnabled' = isEnabled /\ Waiting' = Waiting /\ Holding' = Holding
        /\ \A t \in Queues : Queued(t)' = Queued(t) /\ holders'[t] = holders[t]
    BY <1>2, LimiterSame DEF LifeInv, limiter
  <2>2. /\ timers' \subseteq timers
        /\ UNCHANGED <<run, active, db, log, polled, stop, phase, bootList, recovering, amended,
                       recoveryFile, crashes>>
    BY <1>2 DEF TimerFires, lifecycle
  <2>3. /\ LifeTypeOK' /\ RunsAgree' /\ RowsExist' /\ NewAgrees' /\ NothingResumes'
        /\ EnqueuedNotForgotten'
    BY <2>2 DEF LifeInv, LifeTypeOK, RunsAgree, RowsExist, NewAgrees, NothingResumes,
           EnqueuedNotForgotten, LiveRuns
  <2>4. QueuesAgree' /\ PlacesAgree' /\ EntriesAgree' /\ OneRunEach'
    BY <2>1, <2>2
       DEF LifeInv, QueuesAgree, PlacesAgree, EntriesAgree, EntryAgrees, OneRunEach, Counter
  <2> QED
    BY <2>1, <2>3, <2>4 DEF LifeInv
<1> QED
  BY <1>1, <1>2 DEF TimerFires

\* The webhook of a waiting execution is called.
LEMMA WebhookResumesKeeps ==
    ASSUME LifeInv, NEW r \in Runs, NEW e \in Executions, WebhookResumes(r, e)
    PROVE  LifeInv'
<1> DEFINE b == e \in Responding
<1>1. db[e].status # "none" /\ (crashes = 0 => e \in MayWait) /\ b \in BOOLEAN
  BY DEF WebhookResumes, LifeInv, NothingResumes
<1>2. /\ RunExisting(r, e, b) /\ timers' \subseteq timers /\ bootList' = bootList
      /\ log' \in [Executions -> SUBSET {"workflow", "node"}]
      /\ UNCHANGED <<polled, stop, phase, recovering, amended, recoveryFile, crashes>>
  BY DEF WebhookResumes, lifecycle, LogThrottled, LogEvents, LifeInv, LifeTypeOK
<1> HIDE DEF b
<1> QED
  BY <1>1, <1>2, ResumeKeeps

\* Startup runs an execution of its list.
LEMMA BootRunsKeeps ==
    ASSUME LifeInv, NEW r \in Runs, NEW e \in Executions, BootRuns(r, e)
    PROVE  LifeInv'
<1> DEFINE b == FALSE
<1>1. db[e].status # "none" /\ (crashes = 0 => e \in MayWait) /\ b \in BOOLEAN
  BY DEF BootRuns, LifeInv, RowsExist, NothingResumes
<1>2. /\ RunExisting(r, e, b) /\ timers' \subseteq timers /\ bootList' = bootList \ {e}
      /\ log' \in [Executions -> SUBSET {"workflow", "node"}]
      /\ UNCHANGED <<polled, stop, phase, recovering, amended, recoveryFile, crashes>>
  BY DEF BootRuns, LogEvents, LifeInv, LifeTypeOK
<1> HIDE DEF b
<1> QED
  BY <1>1, <1>2, ResumeKeeps

\* The process is told to stop.
LEMMA BeginShutdownKeeps ==
    ASSUME LifeInv, BeginShutdown
    PROVE  LifeInv'
<1>1. /\ UNCHANGED <<isEnabled, capacity, queue, holders>>
      /\ phase' = "stopping" /\ phase = "up" /\ timers' = {} /\ polled' \subseteq polled
      /\ UNCHANGED <<db, run, active, stop, bootList, recovering, amended, log, recoveryFile,
                     crashes>>
  BY DEF BeginShutdown, limiter
<1>2. RunsAndPlaces'
  BY <1>1, RunsStay DEF Alike
<1>3. LifeTypeOK'
  BY <1>1, SMTT(10) DEF LifeInv, LifeTypeOK
<1>4. RowsExist' /\ NewAgrees' /\ NothingResumes' /\ EnqueuedNotForgotten'
  BY <1>1, SMTT(10) DEF LifeInv, RowsExist, NewAgrees, NothingResumes, EnqueuedNotForgotten
<1> QED
  BY <1>2, <1>3, <1>4 DEF LifeInv, RunsAndPlaces

\* The shutdown stops the timers and disables the limiter; nothing is queued after it.
LEMMA ShutdownKeeps ==
    ASSUME LifeInv, Shutdown
    PROVE  LifeInv'
<1> DEFINE entries == {e \in Executions : active[e] # NoRun}
           stopped == {active[e] : e \in {d \in entries : run[active[d]].response
                                                          /\ run[active[d]].status # "waiting"}}
           gone    == {e \in entries :
              run[active[e]].response \/ run[active[e]].status = "waiting"}
<1>0. /\ stopped \subseteq Runs /\ gone \subseteq Executions
      /\ \A s \in stopped : run[s].pc \notin {"created", "throttled"}
      /\ \A e \in Executions : active[e] \in stopped /\ active[e] # NoRun => e \in gone
  BY DEF LifeInv, LifeTypeOK, EntriesAgree, EntryAgrees
<1>1. /\ isEnabled' = FALSE
      /\ \A t \in Queues : Queued(t)' = Queued(t) /\ holders'[t] = holders[t]
  BY DEF Shutdown, Disable, Queued
<1>2. IInv'
  BY DEF Shutdown, Disable, LifeInv, IInv, TypeOK, CapacityAccounting, WorkConserving
<1>3. /\ active' \in [Executions -> Runs \cup {NoRun}]
      /\ \A e \in Executions : active'[e] = IF e \in gone THEN NoRun ELSE active[e]
      /\ phase' = "draining" /\ phase = "stopping"
      /\ UNCHANGED <<db, timers, polled, stop, bootList, recovering, amended, log, recoveryFile,
                     crashes>>
  BY DEF Shutdown, LifeInv, LifeTypeOK
<1>4. /\ run' \in AllRuns
      /\ \A s \in Runs : /\ run'[s].exec = run[s].exec /\ run'[s].status = run[s].status
                         /\ run'[s].pc = run[s].pc
                         /\ run'[s].tracked = run[s].tracked /\ run'[s].outcome = run[s].outcome
      /\ \A s \in Runs : s \notin stopped => run'[s].settled = run[s].settled
  <2> DEFINE hit(r) == {x \in stopped : run[x].engine = r}
             now(r) == IF hit(r) = {} THEN run[r] ELSE Cancel(run, r)[r]
  <2>1. run' = [r \in Runs |-> IF r \in stopped THEN [now(r) EXCEPT !.settled = TRUE] ELSE now(r)]
    BY DEF Shutdown
  <2> SUFFICES ASSUME NEW s \in Runs
               PROVE  /\ run'[s] \in RunRecords
                      /\ run'[s].exec = run[s].exec /\ run'[s].status = run[s].status
                      /\ run'[s].pc = run[s].pc
                      /\ run'[s].tracked = run[s].tracked /\ run'[s].outcome = run[s].outcome
                      /\ s \notin stopped => run'[s].settled = run[s].settled
    BY <2>1 DEF AllRuns
  <2> DEFINE f == Cancel(run, s)
             n == now(s)
             b == TRUE
             m == [n EXCEPT !.settled = b]
  <2>2. run \in AllRuns /\ b \in BOOLEAN
    BY DEF LifeInv, LifeTypeOK, AllRuns
  <2>3. run'[s] = IF s \in stopped THEN m ELSE n
    BY <2>1
  <2>4. n = run[s] \/ n = f[s]
    OBVIOUS
  <2> HIDE DEF n, b, stopped, gone, entries
  <2>5. f \in AllRuns /\ Alike(f[s], run[s])
    BY <2>2, CancelChanges
  <2> HIDE DEF f
  <2>6. n \in RunRecords /\ Alike(n, run[s])
    BY <2>2, <2>4, <2>5 DEF AllRuns, Alike
  <2>7. /\ m \in RunRecords
        /\ m.exec = n.exec /\ m.status = n.status /\ m.pc = n.pc /\ m.tracked = n.tracked
        /\ m.outcome = n.outcome
    BY <2>2, <2>6 DEF RunRecords
  <2> HIDE DEF m
  <2> QED
    BY <2>3, <2>6, <2>7 DEF Alike
<1> HIDE DEF stopped, gone, entries
<1>5. LifeTypeOK'
  BY <1>3, <1>4, SMTT(10) DEF LifeInv, LifeTypeOK, AllRuns
<1>6. QueuesAgree' /\ PlacesAgree'
  BY <1>1, <1>2, <1>4, LimiterTypedNext, SMTT(10) DEF LifeInv, QueuesAgree, PlacesAgree, Counter
<1>7. RunsAgree'
  BY <1>0, <1>4, SMTT(10) DEF LifeInv, RunsAgree
<1>8. EntriesAgree'
  BY <1>0, <1>1, <1>3, <1>4, SMTT(10) DEF LifeInv, EntriesAgree, EntryAgrees
<1>9. RowsExist' /\ NewAgrees' /\ NothingResumes' /\ EnqueuedNotForgotten'
  BY <1>3, <1>4, SMTT(10)
     DEF LifeInv, RowsExist, NewAgrees, NothingResumes, EnqueuedNotForgotten
<1>10. OneRunEach'
  BY <1>1, <1>3, <1>4, SMTT(10) DEF LifeInv, OneRunEach
<1> QED
  BY <1>2, <1>5, <1>6, <1>7, <1>8, <1>9, <1>10 DEF LifeInv

\* A new process has an empty limiter, whose invariant holds.
LEMMA EmptyIInv == Init' => IInv'
<1>1. Init => IInv
  BY InitIInv
<1> QED
  BY <1>1, PTL

\* A new process has no runs.
LEMMA UnusedRuns ==
    /\ [r \in Runs |-> Unused] \in AllRuns
    /\ \A r \in Runs : [s \in Runs |-> Unused][r].pc = "unused"
<1>1. Unused \in RunRecords /\ Unused.pc = "unused"
  BY DEF Unused, Entered, RunRecords
<1> QED
  BY <1>1 DEF AllRuns

\* A process that is not recovering amends nothing.
LEMMA NothingTyped == NothingAmended \in Amendments /\ NothingAmended.at = "none"
BY DEF NothingAmended, Amendments, NoRow, Rows, Statuses

\* The process ends or dies, and its memory with it.
LEMMA GoDownKeeps ==
    ASSUME LifeInv, GoDown
    PROVE  LifeInv'
<1>1. Init' /\ isEnabled' = (Queues # {})
  BY DEF GoDown, Init
<1>2. IInv' /\ \A t \in Queues : Queued(t)' = {} /\ holders'[t] = {}
  <2>1. IInv'
    BY <1>1, EmptyIInv
  <2>2. \A t \in Queues : queue'[t] = << >> /\ holders'[t] = {}
    BY DEF GoDown
  <2> QED
    BY <2>1, <2>2 DEF Queued
<1>3. /\ phase' = "down" /\ crashes' = crashes + 1 /\ crashes' \in Nat /\ crashes' # 0
      /\ active' = [e \in Executions |-> NoRun] /\ stop' = [e \in Executions |-> "none"]
      /\ timers' = {} /\ polled' = {} /\ bootList' = {} /\ recovering' = {}
      /\ amended' \in Amendments
      /\ UNCHANGED <<db, recoveryFile>>
      /\ log' \in [Executions -> SUBSET {"workflow", "node"}]
  BY NothingTyped DEF GoDown, LifeInv, LifeTypeOK
<1>4. run' \in AllRuns /\ \A r \in Runs : run'[r].pc = "unused"
  BY UnusedRuns DEF GoDown
<1>5. LifeTypeOK'
  BY <1>3, <1>4, SMTT(10) DEF LifeInv, LifeTypeOK, AllRuns
<1>6. QueuesAgree' /\ PlacesAgree'
  BY <1>2, <1>4, SMTT(10) DEF QueuesAgree, PlacesAgree
<1>7. RunsAgree'
  BY <1>4, SMTT(10) DEF RunsAgree
<1>8. EntriesAgree'
  BY <1>3, SMTT(10) DEF EntriesAgree
<1>9. RowsExist' /\ NewAgrees' /\ NothingResumes' /\ EnqueuedNotForgotten'
  BY <1>3, <1>4, SMTT(10)
     DEF LifeInv, RowsExist, NewAgrees, NothingResumes, EnqueuedNotForgotten
<1>10. OneRunEach'
  BY <1>4, SMTT(10) DEF OneRunEach
<1> QED
  BY <1>2, <1>5, <1>6, <1>7, <1>8, <1>9, <1>10 DEF LifeInv

\* The process starts again.
LEMMA BootKeeps ==
    ASSUME LifeInv, Boot
    PROVE  LifeInv'
<1>1. /\ UNCHANGED <<isEnabled, capacity, queue, holders>>
      /\ phase = "down" /\ phase' = "starting"
      /\ UNCHANGED <<db, run, active, timers, polled, stop, bootList, recovering, amended, log,
                     recoveryFile, crashes>>
  BY DEF Boot, limiter
<1>2. RunsAndPlaces'
  BY <1>1, RunsStay DEF Alike
<1>3. LifeTypeOK'
  BY <1>1, SMTT(10) DEF LifeInv, LifeTypeOK
<1>4. RowsExist' /\ NewAgrees' /\ NothingResumes' /\ EnqueuedNotForgotten'
  BY <1>1, SMTT(10) DEF LifeInv, RowsExist, NewAgrees, NothingResumes, EnqueuedNotForgotten
<1> QED
  BY <1>2, <1>3, <1>4 DEF LifeInv, RunsAndPlaces

\* Recovery collects what the log or the database takes for unfinished, and looks for its file.
LEMMA RecoverRunningKeeps ==
    ASSUME LifeInv, RecoverRunning
    PROVE  LifeInv'
<1>1. /\ UNCHANGED <<isEnabled, capacity, queue, holders>>
      /\ phase = "starting" /\ phase' \in {"booting", "marking", "recovering"}
      /\ recovering' \subseteq Executions /\ recoveryFile' \in BOOLEAN
      /\ UNCHANGED <<db, run, active, timers, polled, stop, bootList, amended, log, crashes>>
  BY DEF RecoverRunning, limiter
<1>2. RunsAndPlaces'
  BY <1>1, RunsStay DEF Alike
<1>3. LifeTypeOK'
  BY <1>1, SMTT(10) DEF LifeInv, LifeTypeOK
<1>4. RowsExist' /\ NewAgrees' /\ NothingResumes' /\ EnqueuedNotForgotten'
  BY <1>1, SMTT(10) DEF LifeInv, RowsExist, NewAgrees, NothingResumes, EnqueuedNotForgotten
<1> QED
  BY <1>2, <1>3, <1>4 DEF LifeInv, RunsAndPlaces

\* After a recovery that did not come to its end, all of them are marked as crashed.
LEMMA MarkAllCrashedKeeps ==
    ASSUME LifeInv, MarkAllCrashed
    PROVE  LifeInv'
<1>1. /\ UNCHANGED <<isEnabled, capacity, queue, holders>>
      /\ phase = "marking" /\ phase' = "recovering" /\ recovering' = {}
      /\ UNCHANGED <<run, active, timers, polled, stop, bootList, amended, log, recoveryFile,
                     crashes>>
  BY DEF MarkAllCrashed, limiter
<1>2. /\ db' \in AllRows
      /\ \A d \in Executions : db'[d].waitTill = db[d].waitTill
      /\ \A d \in Executions :
            db'[d].status = db[d].status \/ (d \in recovering /\ db'[d].status = "crashed")
  <2>1. db \in [Executions -> Rows]
    BY DEF LifeInv, LifeTypeOK
  <2>2. \A d \in Executions :
          LET x == [db[d] EXCEPT !.status = "crashed"]
          IN  x \in Rows /\ x.waitTill = db[d].waitTill /\ x.status = "crashed"
    BY <2>1 DEF Rows, Statuses
  <2>3. db' = [e \in Executions |-> IF e \in recovering
                                    THEN [db[e] EXCEPT !.status = "crashed"] ELSE db[e]]
    BY DEF MarkAllCrashed
  <2> QED
    BY <2>1, <2>2, <2>3 DEF AllRows
<1>3. RunsAndPlaces'
  BY <1>1, RunsStay DEF Alike
<1>4. LifeTypeOK'
  BY <1>1, <1>2, SMTT(10) DEF LifeInv, LifeTypeOK, AllRows
<1>5. RowsExist' /\ NewAgrees' /\ NothingResumes' /\ EnqueuedNotForgotten'
  BY <1>1, <1>2, SMTT(10)
     DEF LifeInv, RowsExist, NewAgrees, NothingResumes, EnqueuedNotForgotten
<1> QED
  BY <1>3, <1>4, <1>5 DEF LifeInv, RunsAndPlaces

\* Recovery goes on with the next execution, and writes its row if the log has nothing of it.
LEMMA RecoverKeeps ==
    ASSUME LifeInv, NEW e \in Executions, Recover(e)
    PROVE  LifeInv'
<1>1. /\ UNCHANGED <<isEnabled, capacity, queue, holders>>
      /\ phase = "recovering" /\ recovering' \subseteq recovering
      /\ UNCHANGED <<run, active, timers, polled, stop, phase, bootList, log, recoveryFile,
                     crashes>>
  BY DEF Recover, limiter
<1>2. /\ db' \in AllRows
      /\ \A d \in Executions : db'[d].waitTill = db[d].waitTill
      /\ \A d \in Executions :
            db'[d].status = db[d].status \/ (d = e /\ db'[d].status = "crashed")
  <2> DEFINE f == [db EXCEPT ![e].status = "crashed"]
  <2>1. db \in AllRows
    BY DEF LifeInv, LifeTypeOK, AllRows
  <2>2. /\ f \in AllRows /\ f[e].status = "crashed" /\ f[e].waitTill = db[e].waitTill
        /\ \A d \in Executions : d # e => f[d] = db[d]
    BY <2>1 DEF AllRows, Rows, Statuses
  <2>3. db' = f \/ db' = db
    BY DEF Recover
  <2> HIDE DEF f
  <2> QED
    BY <2>1, <2>2, <2>3
<1>3. RunsAndPlaces'
  BY <1>1, RunsStay DEF Alike
<1>4. amended' \in Amendments
  <2>1. db[e] \in Rows /\ amended \in Amendments
    BY DEF LifeInv, LifeTypeOK
  <2>2. [db[e] EXCEPT !.status = "crashed"] \in Rows /\ NoRow \in Rows
    BY <2>1 DEF Rows, Statuses, NoRow
  <2> QED
    BY <2>1, <2>2 DEF Recover, Amendments
<1>5. LifeTypeOK'
  BY <1>1, <1>2, <1>4, SMTT(10) DEF LifeInv, LifeTypeOK, AllRows
<1>6. RowsExist' /\ NewAgrees' /\ NothingResumes' /\ EnqueuedNotForgotten'
  BY <1>1, <1>2, SMTT(10)
     DEF LifeInv, RowsExist, NewAgrees, NothingResumes, EnqueuedNotForgotten
<1> QED
  BY <1>3, <1>5, <1>6 DEF LifeInv, RunsAndPlaces

\* The row that has been marked is read again.
LEMMA AmendReadsKeeps ==
    ASSUME LifeInv, AmendedAgrees, AmendReads
    PROVE  LifeInv'
<1>1. /\ UNCHANGED <<isEnabled, capacity, queue, holders>>
      /\ UNCHANGED <<db, run, active, timers, polled, stop, phase, bootList, recovering, log,
                     recoveryFile, crashes>>
      /\ phase = "recovering"
  BY DEF AmendReads, AmendedAgrees, limiter
<1>2. amended' \in Amendments
  <2>1. amended.exec \in Executions /\ db \in [Executions -> Rows] /\ amended \in Amendments
    BY DEF AmendReads, AmendedAgrees, LifeInv, LifeTypeOK
  <2>2. amended' = [amended EXCEPT !.at = "read", !.row = db[amended.exec]]
    BY DEF AmendReads
  <2>3. db[amended.exec] \in Rows
    BY <2>1
  <2> DEFINE row == db[amended.exec]
  <2> HIDE DEF row
  <2>4. row \in Rows /\ amended' = [amended EXCEPT !.at = "read", !.row = row]
    BY <2>2, <2>3 DEF row
  <2> QED
    BY <2>1, <2>4 DEF Amendments
<1>3. RunsAndPlaces'
  BY <1>1, RunsStay DEF Alike
<1>4. LifeTypeOK'
  BY <1>1, <1>2, SMTT(10) DEF LifeInv, LifeTypeOK
<1>5. RowsExist' /\ NewAgrees' /\ NothingResumes' /\ EnqueuedNotForgotten'
  BY <1>1, SMTT(10) DEF LifeInv, RowsExist, NewAgrees, NothingResumes, EnqueuedNotForgotten
<1> QED
  BY <1>3, <1>4, <1>5 DEF LifeInv, RunsAndPlaces

\* The row that recovery writes is one of an execution that has been more than enqueued: it
\* was so when the row was read, and the hook takes nothing of that back.
LEMMA AmendWrites ==
    ASSUME LifeInv, AmendedAgrees, amended.at # "none", NEW row \in Rows,
           db' = [db EXCEPT ![amended.exec] = row], row.status \notin {"none", "new"},
           amended' \in Amendments, UNCHANGED <<isEnabled, capacity, queue, holders>>,
           UNCHANGED <<run, active, timers, polled, stop, phase, bootList, recovering, log,
                       recoveryFile, crashes>>
    PROVE  LifeInv'
<1>1. phase = "recovering" /\ amended.exec \in Executions /\ crashes # 0
  BY DEF AmendedAgrees, LifeInv, NothingResumes
<1>2. /\ db' \in AllRows /\ db'[amended.exec] = row
      /\ \A d \in Executions : d # amended.exec => db'[d] = db[d]
  BY <1>1 DEF LifeInv, LifeTypeOK, AllRows
<1>3. RunsAndPlaces'
  BY RunsStay DEF Alike
<1>4. LifeTypeOK'
  BY <1>2, SMTT(10) DEF LifeInv, LifeTypeOK, AllRows
<1>5. RowsExist' /\ NewAgrees' /\ NothingResumes' /\ EnqueuedNotForgotten'
  BY <1>1, <1>2, SMTT(10)
     DEF LifeInv, RowsExist, NewAgrees, NothingResumes, EnqueuedNotForgotten
<1> QED
  BY <1>3, <1>4, <1>5 DEF LifeInv, RunsAndPlaces

\* The row is written as it was read.
LEMMA AmendSavesKeeps ==
    ASSUME LifeInv, AmendedAgrees, AmendSaves
    PROVE  LifeInv'
<1>1. /\ amended \in Amendments /\ amended.at = "read"
      /\ amended.row \in Rows /\ amended.row.status \notin {"none", "new"}
  BY DEF AmendSaves, AmendedAgrees, LifeInv, LifeTypeOK, Amendments
<1>2. amended' \in Amendments
  BY <1>1 DEF AmendSaves, Amendments
<1> QED
  BY <1>1, <1>2, AmendWrites DEF AmendSaves, limiter

\* The hook of the recovery writes a final status, or that the execution waits.
LEMMA AmendHookWrites ==
    ASSUME LifeInv, AmendedAgrees, AmendHook
    PROVE  \E row \in Rows :
              /\ db' = [db EXCEPT ![amended.exec] = row]
              /\ row.status \notin {"none", "new", "running"} /\ row.finished = FALSE
<1>1. amended.exec \in Executions /\ db \in [Executions -> Rows] /\ amended.row \in Rows
  BY DEF AmendHook, AmendedAgrees, LifeInv, LifeTypeOK, Amendments
<1>2. PICK final \in {"waiting", "crashed", "canceled", "error", "success"} :
        db' = [db EXCEPT ![amended.exec] =
                 [status |-> final, finished |-> FALSE,
                  waitTill |-> @.waitTill \/ amended.row.waitTill]]
  BY DEF AmendHook
<1> DEFINE row == [status |-> final, finished |-> FALSE,
                   waitTill |-> db[amended.exec].waitTill \/ amended.row.waitTill]
<1>3. row \in Rows /\ row.status = final /\ row.finished = FALSE
  BY <1>1, <1>2 DEF Rows, Statuses
<1>4. db' = [db EXCEPT ![amended.exec] = row]
  BY <1>1, <1>2
<1> QED
  BY <1>2, <1>3, <1>4

LEMMA AmendHookKeeps ==
    ASSUME LifeInv, AmendedAgrees, AmendHook
    PROVE  LifeInv'
<1>1. PICK row \in Rows : /\ db' = [db EXCEPT ![amended.exec] = row]
                          /\ row.status \notin {"none", "new", "running"}
  BY AmendHookWrites
<1>2. amended' \in Amendments /\ amended.at # "none"
  BY NothingTyped DEF AmendHook
<1> QED
  BY <1>1, <1>2, AmendWrites DEF AmendHook, limiter

\* Recovery is over.
LEMMA RecoveryDoneKeeps ==
    ASSUME LifeInv, RecoveryDone
    PROVE  LifeInv'
<1>1. /\ UNCHANGED <<isEnabled, capacity, queue, holders>>
      /\ phase = "recovering" /\ phase' = "booting" /\ recoveryFile' \in BOOLEAN
      /\ UNCHANGED <<db, run, active, timers, polled, stop, bootList, recovering, amended, log,
                     crashes>>
  BY DEF RecoveryDone, limiter
<1>2. RunsAndPlaces'
  BY <1>1, RunsStay DEF Alike
<1>3. LifeTypeOK'
  BY <1>1, SMTT(10) DEF LifeInv, LifeTypeOK
<1>4. RowsExist' /\ NewAgrees' /\ NothingResumes' /\ EnqueuedNotForgotten'
  BY <1>1, SMTT(10) DEF LifeInv, RowsExist, NewAgrees, NothingResumes, EnqueuedNotForgotten
<1> QED
  BY <1>2, <1>3, <1>4 DEF LifeInv, RunsAndPlaces

\* Startup reads the rows that are new.
LEMMA BootReadsKeeps ==
    ASSUME LifeInv, BootReads
    PROVE  LifeInv'
<1>1. /\ UNCHANGED <<isEnabled, capacity, queue, holders>>
      /\ phase = "booting" /\ phase' = "up"
      /\ bootList' = {e \in Executions : db[e].status = "new"}
      /\ UNCHANGED <<db, run, active, timers, polled, stop, recovering, amended, log, recoveryFile,
                     crashes>>
  BY DEF BootReads, limiter
<1>2. RunsAndPlaces'
  BY <1>1, RunsStay DEF Alike
<1>3. LifeTypeOK'
  BY <1>1, SMTT(10) DEF LifeInv, LifeTypeOK
<1>4. RowsExist' /\ NewAgrees' /\ NothingResumes' /\ EnqueuedNotForgotten'
  BY <1>1, SMTT(10) DEF LifeInv, RowsExist, NewAgrees, NothingResumes, EnqueuedNotForgotten
<1> QED
  BY <1>2, <1>3, <1>4 DEF LifeInv, RunsAndPlaces

\* The invariant holds at first.
LEMMA LifeBegins ==
    ASSUME LifeInit
    PROVE  LifeInv
<1>1. IInv /\ \A t \in Queues : Queued(t) = {} /\ holders[t] = {}
  <2>1. IInv
    BY InitIInv DEF LifeInit
  <2>2. \A t \in Queues : queue[t] = << >> /\ holders[t] = {}
    BY DEF LifeInit, Init
  <2> QED
    BY <2>1, <2>2 DEF Queued
<1>2. run \in AllRuns /\ \A r \in Runs : run[r].pc = "unused"
  BY UnusedRuns DEF LifeInit
<1>3. db \in AllRows /\ \A e \in Executions : db[e].status = "none" /\ db[e].waitTill = FALSE
  <2>1. NoRow \in Rows /\ NoRow.status = "none" /\ NoRow.waitTill = FALSE
    BY DEF NoRow, Rows, Statuses
  <2> HIDE DEF NoRow
  <2> QED
    BY <2>1 DEF LifeInit, AllRows
<1>4. /\ phase = "up" /\ crashes = 0 /\ recoveryFile = FALSE
      /\ active = [e \in Executions |-> NoRun] /\ stop = [e \in Executions |-> "none"]
      /\ timers = {} /\ polled = {} /\ bootList = {} /\ recovering = {}
      /\ log \in [Executions -> SUBSET {"workflow", "node"}] /\ amended \in Amendments
  BY NothingTyped DEF LifeInit
<1>5. LifeTypeOK
  BY <1>2, <1>3, <1>4 DEF LifeTypeOK, AllRuns, AllRows
<1>6. QueuesAgree /\ PlacesAgree /\ EntriesAgree /\ RunsAgree
  BY <1>1, <1>2, <1>4 DEF QueuesAgree, PlacesAgree, EntriesAgree, RunsAgree
<1>7. RowsExist /\ NewAgrees /\ NothingResumes /\ OneRunEach /\ EnqueuedNotForgotten
  BY <1>2, <1>3, <1>4 DEF RowsExist, NewAgrees, NothingResumes, OneRunEach, EnqueuedNotForgotten
<1> QED
  BY <1>1, <1>5, <1>6, <1>7 DEF LifeInv

\* Every step of the system keeps the invariant.
LEMMA LifeNextKeeps ==
    ASSUME LifeInv, AmendedAgrees, [LifeNext]_lifeVars
    PROVE  LifeInv'
<1>1. ASSUME NEW r \in Runs, RunStep(r)
      PROVE  LifeInv'
  BY <1>1, ThrottleNewKeeps, RegisterKeeps, PassCredentialsKeeps, StartEngineKeeps,
     EngineStopsKeeps, EngineSavesKeeps, CancelSavesKeeps, FinalizeSettles, FinalizeFindsNothing
     DEF RunStep
<1>2. ASSUME NEW r \in Runs, EngineStep(r) \/ DenyCredentials(r) \/ TimeOut(r)
      PROVE  LifeInv'
  BY <1>2, EngineEndsKeeps, EngineWaitsKeeps, DenyCredentialsKeeps, TimeOutKeeps DEF EngineStep
<1>3. ASSUME NEW e \in Executions,
             \/ StopQueued(e) \/ StopRunning(e) \/ StopWrites(e)
             \/ PollFinds(e) \/ PollSetsTimer(e) \/ Recover(e)
      PROVE  LifeInv'
  BY <1>3, StopQueuedKeeps, StopRunningKeeps, StopWritesKeeps, PollFindsKeeps, PollSetsTimerKeeps,
     RecoverKeeps
<1>4. ASSUME NEW r \in Runs, NEW e \in Executions,
             Create(r, e) \/ TimerFires(r, e) \/ WebhookResumes(r, e) \/ BootRuns(r, e)
      PROVE  LifeInv'
  BY <1>4, CreateKeeps, TimerFiresKeeps, WebhookResumesKeeps, BootRunsKeeps
<1>5. CASE ProcessStep \/ BeginShutdown \/ Crash
  BY <1>5, ShutdownKeeps, GoDownKeeps, BootKeeps, RecoverRunningKeeps, MarkAllCrashedKeeps,
     AmendReadsKeeps, AmendSavesKeeps, AmendHookKeeps, RecoveryDoneKeeps, BootReadsKeeps,
     BeginShutdownKeeps DEF ProcessStep, Exit, ForceExit, Crash
<1>6. CASE UNCHANGED lifeVars
  <2>1. IInv' /\ isEnabled' = isEnabled /\ Waiting' = Waiting /\ Holding' = Holding
        /\ \A t \in Queues : Queued(t)' = Queued(t) /\ holders'[t] = holders[t]
    BY <1>6, LimiterSame DEF LifeInv, lifeVars
  <2>2. UNCHANGED <<db, run, active, timers, polled, stop, phase, bootList, recovering, amended,
                    log, recoveryFile, crashes>>
    BY <1>6 DEF lifeVars
  <2>3. /\ LifeTypeOK' /\ RunsAgree' /\ RowsExist' /\ NewAgrees' /\ NothingResumes'
        /\ EnqueuedNotForgotten'
    BY <2>2 DEF LifeInv, LifeTypeOK, RunsAgree, RowsExist, NewAgrees, NothingResumes,
           EnqueuedNotForgotten, LiveRuns
  <2>4. QueuesAgree' /\ PlacesAgree' /\ EntriesAgree' /\ OneRunEach'
    BY <2>1, <2>2
       DEF LifeInv, QueuesAgree, PlacesAgree, EntriesAgree, EntryAgrees, OneRunEach, Counter
  <2> QED
    BY <2>1, <2>3, <2>4 DEF LifeInv
<1> QED
  BY <1>1, <1>2, <1>3, <1>4, <1>5, <1>6 DEF LifeNext

\* What has been more than enqueued is never new again.
LEMMA StatusesGoOn ==
    ASSUME LifeInv, AmendedAgrees, LifeNext, NEW d \in Executions,
           db[d].status \notin {"none", "new"}
    PROVE  db'[d].status \notin {"none", "new"}
<1>1. db \in AllRows /\ run \in AllRuns
  BY DEF LifeInv, LifeTypeOK, AllRows, AllRuns
<1>2. ASSUME db' = db PROVE db'[d].status \notin {"none", "new"}
  BY <1>2
<1>3. ASSUME NEW r \in Runs, RunStep(r) \/ EngineStep(r) \/ DenyCredentials(r) \/ TimeOut(r)
      PROVE  db'[d].status \notin {"none", "new"}
  <2>1. CASE Register(r) \/ StartEngine(r)
    <3> DEFINE f == [db EXCEPT ![run[r].exec].status = "running"]
               g == [f EXCEPT ![run[r].exec].waitTill = @ /\ ~run[r].resumes]
    <3>1. f \in AllRows /\ f[d].status \notin {"none", "new"}
      BY <1>1 DEF AllRows, Rows, Statuses
    <3> HIDE DEF f
    <3>2. g[d].status = f[d].status
      BY <3>1 DEF AllRows, Rows
    <3> HIDE DEF g
    <3>3. db' = f \/ db' = g
      BY <2>1 DEF Register, StartEngine, f, g
    <3> QED
      BY <3>1, <3>2, <3>3
  <2>2. CASE EngineSaves(r)
    <3>1. run[r].outcome \in {"success", "error", "waiting"}
      BY <1>1, <2>2 DEF EngineSaves, LifeInv, RunsAgree, AllRuns, RunRecords
    <3> QED
      BY <1>1, <2>2, <3>1 DEF EngineSaves, AllRows, Rows
  <2>3. CASE CancelSaves(r)
    BY <1>1, <2>3 DEF CancelSaves, AllRows, Rows
  <2>4. CASE \/ ThrottleNew(r) \/ PassCredentials(r) \/ EngineStops(r) \/ Finalize(r)
             \/ EngineStep(r) \/ DenyCredentials(r) \/ TimeOut(r)
    BY <1>2, <2>4 DEF ThrottleNew, PassCredentials, EngineStops, Finalize, EngineStep, EngineEnds,
       EngineWaits, DenyCredentials, TimeOut
  <2> QED
    BY <1>3, <2>1, <2>2, <2>3, <2>4 DEF RunStep
<1>4. ASSUME NEW e \in Executions,
             \/ StopQueued(e) \/ StopRunning(e) \/ StopWrites(e)
             \/ PollFinds(e) \/ PollSetsTimer(e) \/ Recover(e)
      PROVE  db'[d].status \notin {"none", "new"}
  <2>1. CASE StopWrites(e)
    BY <1>1, <2>1 DEF StopWrites, AllRows, Rows
  <2>2. CASE Recover(e)
    BY <1>1, <2>2 DEF Recover, AllRows, Rows
  <2> QED
    BY <1>2, <1>4, <2>1, <2>2 DEF StopQueued, StopRunning, PollFinds, PollSetsTimer
<1>5. ASSUME NEW r \in Runs, NEW e \in Executions,
             Create(r, e) \/ TimerFires(r, e) \/ WebhookResumes(r, e) \/ BootRuns(r, e)
      PROVE  db'[d].status \notin {"none", "new"}
  <2>1. CASE Create(r, e)
    BY <1>1, <2>1 DEF Create, AllRows, Rows
  <2> QED
    BY <1>2, <1>5, <2>1 DEF TimerFires, WebhookResumes, BootRuns, RunExisting
<1>6. CASE ProcessStep \/ BeginShutdown \/ Crash
  <2>1. CASE MarkAllCrashed
    BY <1>1, <2>1 DEF MarkAllCrashed, AllRows, Rows
  <2>2. CASE AmendSaves
    <3>1. /\ amended.exec \in Executions /\ amended.row.status \notin {"none", "new"}
          /\ db' = [db EXCEPT ![amended.exec] = amended.row]
      BY <2>2 DEF AmendSaves, AmendedAgrees
    <3> QED
      BY <1>1, <3>1 DEF AllRows
  <2>3. CASE AmendHook
    <3>1. amended.exec \in Executions
      BY <2>3 DEF AmendHook, AmendedAgrees
    <3> QED
      BY <1>1, <2>3, <3>1, AmendHookWrites DEF AllRows
  <2> QED
    BY <1>2, <1>6, <2>1, <2>2, <2>3 DEF ProcessStep, Shutdown, Exit, ForceExit, Crash, GoDown,
       Boot, RecoverRunning, AmendReads, RecoveryDone, BootReads, BeginShutdown
<1> QED
  BY <1>3, <1>4, <1>5, <1>6 DEF LifeNext

\* So what recovery amends remains what it may amend.
LEMMA AmendedNextAgrees ==
    ASSUME LifeInv, AmendedAgrees, [LifeNext]_lifeVars
    PROVE  AmendedAgrees'
<1>1. CASE UNCHANGED lifeVars
  BY <1>1 DEF AmendedAgrees, lifeVars
<1>2. CASE LifeNext /\ amended' = amended /\ (amended.at # "none" => phase' = phase)
  BY <1>2, StatusesGoOn DEF AmendedAgrees
<1>3. ASSUME NEW e \in Executions, Recover(e) PROVE AmendedAgrees'
  <2>1. db \in AllRows
    BY DEF LifeInv, LifeTypeOK, AllRows
  <2> QED
    BY <1>3, <2>1 DEF Recover, AmendedAgrees, AllRows, Rows
<1>4. CASE AmendReads
  <2>1. amended \in Amendments
    BY DEF LifeInv, LifeTypeOK
  <2> QED
    BY <1>4, <2>1 DEF AmendReads, AmendedAgrees, Amendments
<1>5. CASE AmendSaves
  <2>1. amended \in Amendments
    BY DEF LifeInv, LifeTypeOK
  <2> QED
    BY <1>5, <2>1 DEF AmendSaves, AmendedAgrees, Amendments
<1>6. CASE AmendHook \/ Exit \/ ForceExit \/ Crash
  BY <1>6, NothingTyped DEF AmendHook, Exit, ForceExit, Crash, GoDown, AmendedAgrees
<1>7. ASSUME LifeNext, ~\E e \in Executions : Recover(e),
             ~(AmendReads \/ AmendSaves \/ AmendHook \/ Exit \/ ForceExit \/ Crash)
      PROVE  amended' = amended /\ (amended.at # "none" => phase' = phase)
  <2>1. ASSUME NEW r \in Runs, RunStep(r) \/ EngineStep(r) \/ DenyCredentials(r) \/ TimeOut(r)
        PROVE  UNCHANGED <<amended, phase>>
    BY <2>1 DEF RunStep, ThrottleNew, Register, PassCredentials, StartEngine, EngineStops,
       EngineSaves, CancelSaves, Finalize, EngineStep, EngineEnds, EngineWaits, DenyCredentials,
       TimeOut, process, lifecycle
  <2>2. ASSUME NEW e \in Executions,
               \/ StopQueued(e) \/ StopRunning(e) \/ StopWrites(e)
               \/ PollFinds(e) \/ PollSetsTimer(e)
        PROVE  UNCHANGED <<amended, phase>>
    BY <2>2 DEF StopQueued, StopRunning, StopWrites, PollFinds, PollSetsTimer, process
  <2>3. ASSUME NEW r \in Runs, NEW e \in Executions,
               Create(r, e) \/ TimerFires(r, e) \/ WebhookResumes(r, e) \/ BootRuns(r, e)
        PROVE  UNCHANGED <<amended, phase>>
    BY <2>3 DEF Create, TimerFires, WebhookResumes, BootRuns, process, lifecycle
  <2>4. ASSUME \/ Shutdown \/ Boot \/ RecoverRunning \/ MarkAllCrashed \/ RecoveryDone
               \/ BootReads \/ BeginShutdown
        PROVE  amended' = amended /\ (amended.at # "none" => phase' = phase)
    BY <2>4 DEF Shutdown, Boot, RecoverRunning, MarkAllCrashed, RecoveryDone, BootReads,
       BeginShutdown, AmendedAgrees
  <2> QED
    BY <1>7, <2>1, <2>2, <2>3, <2>4 DEF LifeNext, ProcessStep
<1> QED
  BY <1>1, <1>2, <1>3, <1>4, <1>5, <1>6, <1>7

\* So it always holds.
LEMMA LifeInvariant == LifeSpec => [](LifeInv /\ AmendedAgrees)
<1>1. LifeInit => LifeInv /\ AmendedAgrees
  BY LifeBegins, NothingTyped DEF LifeInit, AmendedAgrees
<1>2. LifeInv /\ AmendedAgrees /\ [LifeNext]_lifeVars => LifeInv' /\ AmendedAgrees'
  BY LifeNextKeeps, AmendedNextAgrees
<1> QED
  BY <1>1, <1>2, PTL DEF LifeSpec

-----------------------------------------------------------------------------
(* How the steps move the runs *)

\* Two records of a run that agree in what is said of a run below, but for where it is.
Same(x, y) ==
    /\ x.exec = y.exec /\ x.responds = y.responds /\ x.timeout = y.timeout
    /\ x.engine = y.engine /\ x.cancelled = y.cancelled /\ x.cancelSave = y.cancelSave

\* A step that takes the run r to p and leaves the other runs where they are.
Moves(r, p) ==
    \A s \in Runs : Same(run'[s], run[s]) /\ run'[s].pc = (IF s = r THEN p ELSE run[s].pc)

\* The call of the limiter puts the new run before the queue.
LEMMA ThrottleNewMoves ==
    ASSUME run \in AllRuns, NEW r \in Runs, ThrottleNew(r)
    PROVE  Moves(r, "throttled")
BY DEF ThrottleNew, Moves, Same, AllRuns, RunRecords

\* Registering a run changes where it is, and its entry.
LEMMA RegisterMoves ==
    ASSUME run \in AllRuns, NEW r \in Runs, Register(r)
    PROVE  Moves(r, "added")
BY DEF Register, Moves, Same, AllRuns, RunRecords

\* A run whose entry is gone is over when its caller waits for a response: attaching the
\* response promise throws.
LEMMA PassCredentialsMoves ==
    ASSUME run \in AllRuns, NEW r \in Runs, PassCredentials(r)
    PROVE  \/ Moves(r, "checked")
           \/ Moves(r, "done") /\ run[r].responds /\ active[run[r].exec] = NoRun
BY DEF PassCredentials, Moves, Same, AllRuns, RunRecords

\* A run whose credentials are denied goes straight to saving its error.
LEMMA DenyCredentialsMoves ==
    ASSUME run \in AllRuns, NEW r \in Runs, DenyCredentials(r)
    PROVE  Moves(r, "saving")
BY DEF DenyCredentials, Moves, Same, AllRuns, RunRecords

\* An engine that comes to its end, or to a Wait node, goes on to save.
LEMMA EngineEndsMoves ==
    ASSUME run \in AllRuns, NEW r \in Runs, NEW o, EngineEnds(r, o) \/ EngineWaits(r)
    PROVE  Moves(r, "saving")
BY DEF EngineEnds, EngineWaits, Moves, Same, AllRuns, RunRecords

\* A cancelled engine that stops and one that has written its outcome wait to be finalized.
LEMMA EngineStopsMoves ==
    ASSUME run \in AllRuns, NEW r \in Runs, EngineStops(r) \/ EngineSaves(r)
    PROVE  Moves(r, "saved")
BY DEF EngineStops, EngineSaves, Moves, Same, AllRuns, RunRecords

\* finalizeExecution ends the run.
LEMMA FinalizeMoves ==
    ASSUME run \in AllRuns, NEW r \in Runs, Finalize(r)
    PROVE  Moves(r, "done")
BY DEF Finalize, Moves, Same, AllRuns, RunRecords

\* The same but for engines and timeouts.
SameButTimeout(x, y) ==
    /\ x.exec = y.exec /\ x.responds = y.responds
    /\ x.cancelled = y.cancelled /\ x.cancelSave = y.cancelSave

\* The engine is attached to the entry under the execution's id, whose ever it is; the
\* timeout is set only if there is one.
LEMMA StartEngineMoves ==
    ASSUME run \in AllRuns, NEW r \in Runs, StartEngine(r)
    PROVE  /\ \A s \in Runs : /\ SameButTimeout(run'[s], run[s])
                              /\ run'[s].pc = (IF s = r THEN "engine" ELSE run[s].pc)
                              /\ run'[s].engine = (IF s = active[run[r].exec] THEN r
                                                   ELSE run[s].engine)
                              /\ s # r => run'[s].timeout = run[s].timeout
           /\ run'[r].timeout => active[run[r].exec] # NoRun /\ run[r].exec \in HasTimeout
<1> DEFINE x == active[run[r].exec]
           b == x # NoRun
           c == x # NoRun /\ run[r].exec \in HasTimeout
           f == [run EXCEPT ![r].pc = "engine", ![r].tracked = b, ![r].timeout = c]
<1> HIDE DEF b, c
<1>1. /\ \A s \in Runs : s # r => f[s] = run[s]
      /\ SameButTimeout(f[r], run[r]) /\ f[r].pc = "engine" /\ f[r].engine = run[r].engine
      /\ f[r].timeout = c
      /\ DOMAIN f = Runs /\ \A s \in Runs : DOMAIN f[s] = DOMAIN run[s]
  BY SMTT(30) DEF SameButTimeout, AllRuns, RunRecords
<1>2. IF x = NoRun THEN run' = f ELSE run' = [f EXCEPT ![x].engine = r]
  BY DEF StartEngine, b, c
<1>3. \A s \in Runs : "engine" \in DOMAIN run[s]
  BY DEF AllRuns, RunRecords
<1> HIDE DEF f, x
<1>4. \A s \in Runs : /\ SameButTimeout(run'[s], f[s]) /\ run'[s].pc = f[s].pc
                      /\ run'[s].timeout = f[s].timeout
                      /\ run'[s].engine = (IF s = x THEN r ELSE f[s].engine)
  <2>1. CASE x = NoRun
    BY <1>2, <2>1, NoRunAssumption DEF SameButTimeout
  <2>2. CASE run' = [f EXCEPT ![x].engine = r]
    <3> SUFFICES ASSUME NEW s \in Runs
                 PROVE  /\ SameButTimeout(run'[s], f[s]) /\ run'[s].pc = f[s].pc
                        /\ run'[s].timeout = f[s].timeout
                        /\ run'[s].engine = (IF s = x THEN r ELSE f[s].engine)
      OBVIOUS
    <3>1. run'[s] = IF s = x THEN [f[s] EXCEPT !.engine = r] ELSE f[s]
      BY <1>1, <2>2
    <3>2. "engine" \in DOMAIN f[s]
      BY <1>1, <1>3
    <3> QED
      BY <3>1, <3>2 DEF SameButTimeout
  <2> QED
    BY <1>2, <2>1, <2>2
<1>5. \A s \in Runs : /\ SameButTimeout(run'[s], run[s])
                      /\ run'[s].pc = (IF s = r THEN "engine" ELSE run[s].pc)
                      /\ run'[s].engine = (IF s = x THEN r ELSE run[s].engine)
                      /\ s # r => run'[s].timeout = run[s].timeout
  BY <1>1, <1>4 DEF SameButTimeout
<1>6. run'[r].timeout => x # NoRun /\ run[r].exec \in HasTimeout
  BY <1>1, <1>4 DEF c
<1> QED
  BY <1>5, <1>6 DEF x

\* The hook of a cancelled engine has nothing to write afterwards.
LEMMA CancelSavesMoves ==
    ASSUME run \in AllRuns, NEW r \in Runs, CancelSaves(r)
    PROVE  \A s \in Runs : /\ run'[s].exec = run[s].exec /\ run'[s].responds = run[s].responds
                           /\ run'[s].timeout = run[s].timeout /\ run'[s].pc = run[s].pc
                           /\ run'[s].engine = run[s].engine
                           /\ run'[s].cancelled = run[s].cancelled
                           /\ s # r => run'[s].cancelSave = run[s].cancelSave
                           /\ run'[s].cancelSave => s # r
<1>1. run' = [run EXCEPT ![r].cancelSave = FALSE]
  BY DEF CancelSaves
<1>2. \A s \in Runs : s # r => run'[s] = run[s]
  BY <1>1 DEF AllRuns
<1>3. /\ run'[r].exec = run[r].exec /\ run'[r].responds = run[r].responds
      /\ run'[r].timeout = run[r].timeout /\ run'[r].pc = run[r].pc
      /\ run'[r].engine = run[r].engine /\ run'[r].cancelled = run[r].cancelled
      /\ ~run'[r].cancelSave
  BY <1>1 DEF AllRuns, RunRecords
<1> QED
  BY <1>2, <1>3

\* canceling
Canceled(x, y) ==
    /\ x.exec = y.exec /\ x.responds = y.responds /\ x.pc = y.pc /\ x.engine = y.engine
    /\ x.timeout => y.timeout
    /\ \/ x.cancelled = y.cancelled /\ x.cancelSave = y.cancelSave
       \/ x.cancelled /\ x.cancelSave /\ y.pc \in Cancellable /\ ~y.cancelled

\* PCancelable.cancel touches the engine it is called for, and only one at work.
LEMMA CancelMoves ==
    ASSUME NEW f \in AllRuns, NEW w \in Runs \cup {NoRun}
    PROVE  /\ Cancel(f, w) \in AllRuns
           /\ \A s \in Runs : Canceled(Cancel(f, w)[s], f[s])
           /\ \A s \in Runs : s # w => Cancel(f, w)[s] = f[s]
           /\ w # NoRun /\ f[w].pc \in Cancellable => Cancel(f, w)[w].cancelled
<1>1. CASE w # NoRun /\ f[w].pc \in Cancellable /\ ~f[w].cancelled
  <2> DEFINE g == [f EXCEPT ![w].cancelled = TRUE, ![w].cancelSave = TRUE]
  <2>1. Cancel(f, w) = g
    BY <1>1 DEF Cancel
  <2>2. w \in Runs
    BY <1>1
  <2>3. g \in AllRuns
    <3>1. Cancel(f, w) \in AllRuns
      BY CancelChanges
    <3> QED
      BY <2>1, <3>1
  <2>4. /\ \A s \in Runs : s # w => g[s] = f[s]
        /\ g[w].exec = f[w].exec /\ g[w].responds = f[w].responds /\ g[w].pc = f[w].pc
        /\ g[w].engine = f[w].engine /\ g[w].timeout = f[w].timeout
        /\ g[w].cancelled /\ g[w].cancelSave
    BY <2>2 DEF AllRuns, RunRecords
  <2> HIDE DEF g
  <2> QED
    BY <1>1, <2>1, <2>2, <2>3, <2>4 DEF Canceled
<1> QED
  BY <1>1 DEF Cancel, Canceled

\* A run that is begun: nothing of the run that had its identity before is left.
Enters(r, e, at, responds) ==
    /\ run'[r].exec = e /\ run'[r].pc = at /\ run'[r].responds = responds /\ ~run'[r].cancelled
    /\ ~run'[r].cancelSave /\ ~run'[r].timeout /\ run'[r].engine = NoRun
    /\ \A s \in Runs : s # r => run'[s] = run[s]

\* A new execution begins a run.
LEMMA CreateEnters ==
    ASSUME run \in AllRuns, NEW r \in Runs, NEW e, Create(r, e)
    PROVE  Enters(r, e, "created", e \in Responding)
BY DEF Create, Enters, Entered, AllRuns

\* So does one that is run again.
LEMMA RunExistingEnters ==
    ASSUME run \in AllRuns, NEW r \in Runs, NEW e, NEW responds, RunExisting(r, e, responds)
    PROVE  Enters(r, e, "throttled", responds)
BY DEF RunExisting, Enters, Entered, AllRuns

\* ActiveExecutions.stopExecution ends no run itself, it cancels engines at most.
LEMMA StopEntryMoves ==
    ASSUME run \in AllRuns, NEW runs \in AllRuns, NEW e \in Executions, StopEntry(e, runs),
           active \in [Executions -> Runs \cup {NoRun}],
           \A s \in Runs : Canceled(runs[s], run[s])
    PROVE  \A s \in Runs : Canceled(run'[s], run[s])
<1>1. CASE run' = runs
  BY <1>1
<1>2. CASE /\ active[e] \in Runs
           /\ run' = [Cancel(runs, run[active[e]].engine) EXCEPT ![active[e]].settled = TRUE]
  <2> DEFINE f == Cancel(runs, run[active[e]].engine)
  <2>1. run[active[e]].engine \in Runs \cup {NoRun}
    BY <1>2 DEF AllRuns, RunRecords
  <2>2. f \in AllRuns /\ \A s \in Runs : Canceled(f[s], runs[s])
    BY <2>1, CancelMoves
  <2> HIDE DEF f
  <2>3. run' = [f EXCEPT ![active[e]].settled = TRUE]
    BY <1>2 DEF f
  <2>4. \A s \in Runs : /\ run'[s].exec = f[s].exec /\ run'[s].responds = f[s].responds
                        /\ run'[s].pc = f[s].pc /\ run'[s].engine = f[s].engine
                        /\ run'[s].timeout = f[s].timeout /\ run'[s].cancelled = f[s].cancelled
                        /\ run'[s].cancelSave = f[s].cancelSave
    BY <1>2, <2>2, <2>3 DEF AllRuns, RunRecords
  <2> QED
    BY <2>2, <2>4 DEF Canceled
<1> QED
  BY <1>1, <1>2 DEF StopEntry

\* A stop of an execution that is not queued cancels engines at most.
LEMMA StopRunningMoves ==
    ASSUME run \in AllRuns, NEW e \in Executions, StopRunning(e),
           active \in [Executions -> Runs \cup {NoRun}]
    PROVE  \A s \in Runs : Canceled(run'[s], run[s])
<1>1. \A s \in Runs : Canceled(run[s], run[s])
  BY DEF Canceled
<1> QED
  BY <1>1, StopEntryMoves DEF StopRunning

\* So does a timeout.
LEMMA TimeOutMoves ==
    ASSUME run \in AllRuns, NEW r \in Runs, TimeOut(r), run[r].exec \in Executions,
           active \in [Executions -> Runs \cup {NoRun}]
    PROVE  \A s \in Runs : Canceled(run'[s], run[s])
<1> DEFINE runs == [run EXCEPT ![r].timeout = FALSE]
<1>1. runs \in AllRuns /\ \A s \in Runs : Canceled(runs[s], run[s])
  <2> DEFINE b == FALSE
             f == [run EXCEPT ![r].timeout = b]
  <2>1. b \in BOOLEAN
    OBVIOUS
  <2> HIDE DEF b
  <2>2. f \in AllRuns
    BY <2>1, SetTimeout
  <2>3. \A s \in Runs : Canceled(runs[s], run[s])
    BY DEF Canceled, AllRuns, RunRecords
  <2> QED
    BY <2>2, <2>3 DEF b
<1>2. StopEntry(run[r].exec, runs)
  BY DEF TimeOut
<1> HIDE DEF runs
<1> QED
  BY <1>1, <1>2, StopEntryMoves

\* A run whose entry leaves the queue unresolved is over.
LEMMA StopQueuedMoves ==
    ASSUME run \in AllRuns, NEW e \in Executions, StopQueued(e)
    PROVE  \A s \in Runs :
              /\ Same(run'[s], run[s])
              /\ run'[s].pc = (IF s \in Waiting /\ s \notin Waiting' \cup Holding'
                               THEN "removed" ELSE run[s].pc)
BY DEF StopQueued, Same, AllRuns, RunRecords

\* No run outlives the process.
LEMMA GoDownMoves ==
    ASSUME GoDown
    PROVE  \A s \in Runs : /\ run'[s].exec = NoRun /\ run'[s].pc = "unused" /\ ~run'[s].responds
                           /\ ~run'[s].cancelled
                           /\ ~run'[s].cancelSave /\ ~run'[s].timeout /\ run'[s].engine = NoRun
BY DEF GoDown, Unused, Entered

-----------------------------------------------------------------------------
(* Who still writes a row that is `running` *)

\* Only a row that has had its outcome is finished, and so it is with the row recovery has read.
FinishedAgrees ==
    /\ \A e \in Executions : db[e].finished => db[e].status \notin {"none", "new", "waiting"}
    /\ amended.row.finished => amended.row.status \notin {"none", "new", "waiting"}

\* A run that will still write the row of its execution: one that is to be registered or
\* started, that is at work or about to save, or whose cancelled engine's hook is to come.
\* A cancelled engine writes nothing itself, and a run that has saved has written.
Covers(r) ==
    \/ run[r].pc \in {"created", "throttled", "added", "checked", "saving"}
    \/ run[r].pc = "engine" /\ ~run[r].cancelled
    \/ run[r].cancelSave

\* The rows that stay `running`.
Excused(e) ==
    \/ crashes > 0 /\ log[e] = {"workflow"}
    \/ e \in Responding /\ (e \in MayWait \/ crashes > 0)

\* From the recovery of a start on, whoever is `running` is covered, stopped, about to be
\* recovered, or excused.  Between a start and its recovery nobody says so.
RunningIsCovered ==
    phase \in {"recovering", "marking", "booting", "up"} => \A e \in Executions :
        db[e].status = "running" =>
            \/ \E r \in Runs : run[r].exec = e /\ Covers(r)
            \/ stop[e] # "none" \/ e \in recovering \/ Amending(e) \/ Excused(e)

\* The rows are only served once recovery is done with them.
RecoveryIsOver == phase \in {"booting", "up"} => recovering = {} /\ amended.at = "none"

\* Only a run that has an engine is cancelled.
NotCancelledYet ==
    \A r \in Runs : run[r].pc \in {"created", "throttled", "added", "checked"} => ~run[r].cancelled

\* Only callers that wait for a response attach one.
RespondersAgree == \A r \in Runs : run[r].responds => run[r].exec \in Responding

\* In the first life, an execution without a Wait node that has lost its entry before the
\* response is attached has been stopped: its row is about to be written, or has been.
EntryStays ==
    crashes = 0 /\ phase # "draining" => \A r \in Runs :
        run[r].pc = "added" /\ run[r].exec \notin MayWait /\ active[run[r].exec] = NoRun =>
            stop[run[r].exec] # "none" \/ db[run[r].exec].status # "running"

\* The strengthening for the rows.
RowInv ==
    /\ FinishedAgrees /\ RunningIsCovered /\ RecoveryIsOver /\ NotCancelledYet
    /\ RespondersAgree /\ EntryStays

\* A new row is `new`, not `running`.
LEMMA CreateRows ==
    ASSUME LifeInv, RowInv, NEW r \in Runs, NEW e \in Executions, Create(r, e)
    PROVE  RowInv'
<1>1. /\ run \in AllRuns /\ db \in AllRows /\ run[r].pc \in Over /\ ~run[r].cancelSave
      /\ db[e].status = "none"
      /\ UNCHANGED <<active, stop, recovering, amended, log, crashes, phase>>
  BY DEF LifeInv, LifeTypeOK, AllRuns, AllRows, Create, Free, process
<1>2. Enters(r, e, "created", e \in Responding)
  BY <1>1, CreateEnters
<1>3. /\ db'[e].status = "new" /\ db'[e].finished = db[e].finished
      /\ \A d \in Executions : d # e => db'[d] = db[d]
  BY <1>1 DEF Create, AllRows, Rows
<1>4. FinishedAgrees' /\ RecoveryIsOver'
  BY <1>1, <1>3 DEF RowInv, FinishedAgrees, RecoveryIsOver
<1>5. NotCancelledYet' /\ RespondersAgree'
  BY <1>2 DEF RowInv, NotCancelledYet, RespondersAgree, Enters
<1>6. RunningIsCovered'
  <2>1. \A s \in Runs : Covers(s) => Covers(s)' /\ run'[s].exec = run[s].exec
    BY <1>1, <1>2 DEF Covers, Enters, Over
  <2> QED
    BY <1>1, <1>3, <2>1 DEF RowInv, RunningIsCovered, Amending, Excused
<1>7. EntryStays'
  <2>1. \A s \in Runs : run[s].pc = "added" => run[s].exec \in Executions
    BY DEF LifeInv, RunsAgree
  <2> QED
    BY <1>1, <1>2, <1>3, <2>1 DEF RowInv, EntryStays, Enters
<1> QED
  BY <1>4, <1>5, <1>6, <1>7 DEF RowInv

\* A run that asks the limiter goes on covering its row.
LEMMA ThrottleNewRows ==
    ASSUME LifeInv, RowInv, NEW r \in Runs, ThrottleNew(r)
    PROVE  RowInv'
<1>1. /\ run \in AllRuns /\ run[r].pc = "created" /\ run[r].exec \in Executions
      /\ UNCHANGED <<db, active, stop, recovering, amended, crashes, phase>>
      /\ \A d \in Executions : d # run[r].exec => log'[d] = log[d]
  BY DEF LifeInv, LifeTypeOK, RunsAgree, AllRuns, ThrottleNew, lifecycle, LogThrottled, LogEvents
<1>2. Moves(r, "throttled")
  BY <1>1, ThrottleNewMoves
<1>4. FinishedAgrees' /\ RecoveryIsOver'
  BY <1>1 DEF RowInv, FinishedAgrees, RecoveryIsOver
<1>5. NotCancelledYet' /\ RespondersAgree'
  BY <1>1, <1>2 DEF RowInv, NotCancelledYet, RespondersAgree, Moves, Same
<1>6. RunningIsCovered'
  BY <1>1, <1>2 DEF RowInv, RunningIsCovered, Amending, Covers, Excused, Moves, Same
<1>7. EntryStays'
  BY <1>1, <1>2 DEF RowInv, EntryStays, Moves, Same
<1> QED
  BY <1>4, <1>5, <1>6, <1>7 DEF RowInv

\* The row becomes `running` and its run covers it.
LEMMA RegisterRows ==
    ASSUME LifeInv, RowInv, NEW r \in Runs, Register(r)
    PROVE  RowInv'
<1>1. /\ run \in AllRuns /\ db \in AllRows /\ run[r].pc = "throttled"
      /\ \A s \in Runs : run[s].pc # "unused" => run[s].exec \in Executions
      /\ active \in [Executions -> Runs \cup {NoRun}]
      /\ UNCHANGED <<stop, recovering, amended, crashes, phase, log>>
      /\ active' = [active EXCEPT ![run[r].exec] = r]
  BY DEF LifeInv, LifeTypeOK, RunsAgree, AllRuns, AllRows, Register, process
<1>2. Moves(r, "added")
  BY <1>1, RegisterMoves
<1>3. /\ db'[run[r].exec].status = "running"
      /\ \A d \in Executions : d # run[r].exec => db'[d] = db[d]
  BY <1>1 DEF Register, AllRows, Rows
<1>4. FinishedAgrees' /\ RecoveryIsOver'
  BY <1>1, <1>3 DEF RowInv, FinishedAgrees, RecoveryIsOver
<1>5. NotCancelledYet' /\ RespondersAgree'
  BY <1>1, <1>2 DEF RowInv, NotCancelledYet, RespondersAgree, Moves, Same
<1>6. RunningIsCovered'
  BY <1>1, <1>2, <1>3 DEF RowInv, RunningIsCovered, Amending, Covers, Excused, Moves, Same
<1>7. EntryStays'
  BY <1>1, <1>2, <1>3, NoRunAssumption DEF RowInv, EntryStays, Moves, Same
<1> QED
  BY <1>4, <1>5, <1>6, <1>7 DEF RowInv

\* A run that throws for want of an entry is one of an execution that is excused or stopped.
LEMMA PassCredentialsRows ==
    ASSUME LifeInv, RowInv, NEW r \in Runs, PassCredentials(r)
    PROVE  RowInv'
<1>1. /\ run \in AllRuns /\ run[r].pc = "added"
      /\ \A s \in Runs : run[s].pc # "unused" => run[s].exec \in Executions
      /\ UNCHANGED <<db, active, stop, recovering, amended, crashes, phase, log>>
      /\ crashes \in Nat
  BY DEF LifeInv, LifeTypeOK, RunsAgree, AllRuns, AllRows, PassCredentials, process
<1>2. \/ Moves(r, "checked")
      \/ Moves(r, "done") /\ run[r].responds /\ active[run[r].exec] = NoRun
  BY <1>1, PassCredentialsMoves
<1>4. FinishedAgrees' /\ RecoveryIsOver'
  BY <1>1 DEF RowInv, FinishedAgrees, RecoveryIsOver
<1>5. NotCancelledYet' /\ RespondersAgree'
  BY <1>1, <1>2 DEF RowInv, NotCancelledYet, RespondersAgree, Moves, Same
<1>6. RunningIsCovered'
  BY <1>1, <1>2 DEF RowInv, RunningIsCovered, Amending, Covers, Excused, Moves, Same, EntryStays,
     RespondersAgree
<1>7. EntryStays'
  BY <1>1, <1>2 DEF RowInv, EntryStays, Moves, Same
<1> QED
  BY <1>4, <1>5, <1>6, <1>7 DEF RowInv

\* A failed credentials check is saved by the run itself.
LEMMA DenyCredentialsRows ==
    ASSUME LifeInv, RowInv, NEW r \in Runs, DenyCredentials(r)
    PROVE  RowInv'
<1>1. /\ run \in AllRuns /\ run[r].pc = "added"
      /\ UNCHANGED <<db, active, stop, recovering, amended, crashes, phase>>
      /\ \A d \in Executions : d # run[r].exec => log'[d] = log[d]
  BY DEF LifeInv, LifeTypeOK, RunsAgree, AllRuns, AllRows, DenyCredentials, lifecycle, LogEvents
<1>2. Moves(r, "saving")
  BY <1>1, DenyCredentialsMoves
<1>4. FinishedAgrees' /\ RecoveryIsOver'
  BY <1>1 DEF RowInv, FinishedAgrees, RecoveryIsOver
<1>5. NotCancelledYet' /\ RespondersAgree'
  BY <1>1, <1>2 DEF RowInv, NotCancelledYet, RespondersAgree, Moves, Same
<1>6. RunningIsCovered'
  BY <1>1, <1>2 DEF RowInv, RunningIsCovered, Amending, Covers, Excused, Moves, Same
<1>7. EntryStays'
  BY <1>1, <1>2 DEF RowInv, EntryStays, Moves, Same
<1> QED
  BY <1>4, <1>5, <1>6, <1>7 DEF RowInv

\* A run that has come to its end still has to save.
LEMMA EngineEndsRows ==
    ASSUME LifeInv, RowInv, NEW r \in Runs, NEW o, EngineEnds(r, o) \/ EngineWaits(r)
    PROVE  RowInv'
<1>1. /\ run \in AllRuns /\ run[r].pc = "engine" /\ run[r].exec \in Executions
      /\ UNCHANGED <<db, active, stop, recovering, amended, crashes, phase>>
      /\ \A d \in Executions : d # run[r].exec => log'[d] = log[d]
  BY DEF LifeInv, LifeTypeOK, RunsAgree, AllRuns, EngineEnds, EngineWaits, lifecycle, LogEvents
<1>2. Moves(r, "saving")
  BY <1>1, EngineEndsMoves
<1>4. FinishedAgrees' /\ RecoveryIsOver'
  BY <1>1 DEF RowInv, FinishedAgrees, RecoveryIsOver
<1>5. NotCancelledYet' /\ RespondersAgree'
  BY <1>1, <1>2 DEF RowInv, NotCancelledYet, RespondersAgree, Moves, Same
<1>6. RunningIsCovered'
  BY <1>1, <1>2 DEF RowInv, RunningIsCovered, Amending, Covers, Excused, Moves, Same
<1>7. EntryStays'
  BY <1>1, <1>2 DEF RowInv, EntryStays, Moves, Same
<1> QED
  BY <1>4, <1>5, <1>6, <1>7 DEF RowInv

\* A cancelled engine leaves its row to the hook that the cancellation has started.
LEMMA EngineStopsRows ==
    ASSUME LifeInv, RowInv, NEW r \in Runs, EngineStops(r)
    PROVE  RowInv'
<1>1. /\ run \in AllRuns /\ run[r].pc = "engine" /\ run[r].cancelled
      /\ UNCHANGED <<db, active, stop, recovering, amended, crashes, phase, log>>
  BY DEF LifeInv, LifeTypeOK, RunsAgree, AllRuns, AllRows, EngineStops, process
<1>2. Moves(r, "saved")
  BY <1>1, EngineStopsMoves
<1>4. FinishedAgrees' /\ RecoveryIsOver'
  BY <1>1 DEF RowInv, FinishedAgrees, RecoveryIsOver
<1>5. NotCancelledYet' /\ RespondersAgree'
  BY <1>1, <1>2 DEF RowInv, NotCancelledYet, RespondersAgree, Moves, Same
<1>6. RunningIsCovered'
  BY <1>1, <1>2 DEF RowInv, RunningIsCovered, Amending, Covers, Excused, Moves, Same
<1>7. EntryStays'
  BY <1>1, <1>2 DEF RowInv, EntryStays, Moves, Same
<1> QED
  BY <1>4, <1>5, <1>6, <1>7 DEF RowInv

\* The outcome takes the row out of `running`.
LEMMA EngineSavesRows ==
    ASSUME LifeInv, RowInv, NEW r \in Runs, EngineSaves(r)
    PROVE  RowInv'
<1>1. /\ run \in AllRuns /\ db \in AllRows /\ run[r].pc = "saving" /\ run[r].exec \in Executions
      /\ \A s \in Runs : run[s].pc # "unused" => run[s].exec \in Executions
      /\ run[r].outcome \in {"success", "error", "waiting"}
      /\ UNCHANGED <<active, stop, recovering, amended, crashes, phase>>
      /\ \A d \in Executions : d # run[r].exec => log'[d] = log[d]
  BY DEF LifeInv, LifeTypeOK, RunsAgree, AllRuns, AllRows, EngineSaves, lifecycle, LogEvents,
     RunRecords
<1>2. Moves(r, "saved")
  BY <1>1, EngineStopsMoves
<1>3. /\ db'[run[r].exec].status = run[r].outcome
      /\ db'[run[r].exec].finished = (run[r].outcome = "success")
      /\ \A d \in Executions : d # run[r].exec => db'[d] = db[d]
  BY <1>1 DEF EngineSaves, AllRows, Rows
<1>4. FinishedAgrees' /\ RecoveryIsOver'
  BY <1>1, <1>3 DEF RowInv, FinishedAgrees, RecoveryIsOver
<1>5. NotCancelledYet' /\ RespondersAgree'
  BY <1>1, <1>2 DEF RowInv, NotCancelledYet, RespondersAgree, Moves, Same
<1>6. RunningIsCovered'
  BY <1>1, <1>2, <1>3 DEF RowInv, RunningIsCovered, Amending, Covers, Excused, Moves, Same
<1>7. EntryStays'
  BY <1>1, <1>2, <1>3 DEF RowInv, EntryStays, Moves, Same
<1> QED
  BY <1>4, <1>5, <1>6, <1>7 DEF RowInv

\* The row becomes `running` once more under a run that covers it.
LEMMA StartEngineRows ==
    ASSUME LifeInv, RowInv, NEW r \in Runs, StartEngine(r)
    PROVE  RowInv'
<1>1. /\ run \in AllRuns /\ db \in AllRows /\ run[r].pc = "checked" /\ run[r].exec \in Executions
      /\ \A s \in Runs : run[s].pc # "unused" => run[s].exec \in Executions
      /\ UNCHANGED <<active, stop, recovering, amended, crashes, phase>>
      /\ \A d \in Executions : d # run[r].exec => log'[d] = log[d]
      /\ crashes = 0 => \A s \in Runs :
            run[s].pc = "added" /\ run[s].exec \notin MayWait => run[s].exec # run[r].exec
  BY DEF LifeInv, LifeTypeOK, RunsAgree, AllRuns, AllRows, StartEngine, lifecycle, LogEvents,
     OneRunEach
<1>2. \A s \in Runs : /\ SameButTimeout(run'[s], run[s])
                      /\ run'[s].pc = (IF s = r THEN "engine" ELSE run[s].pc)
  BY <1>1, StartEngineMoves
<1>3. /\ db'[run[r].exec].status = "running" /\ db'[run[r].exec].finished = db[run[r].exec].finished
      /\ \A d \in Executions : d # run[r].exec => db'[d] = db[d]
  BY <1>1 DEF StartEngine, AllRows, Rows
<1>4. FinishedAgrees' /\ RecoveryIsOver'
  BY <1>1, <1>3 DEF RowInv, FinishedAgrees, RecoveryIsOver
<1>5. NotCancelledYet' /\ RespondersAgree'
  BY <1>1, <1>2 DEF RowInv, NotCancelledYet, RespondersAgree, SameButTimeout
<1>6. RunningIsCovered'
  BY <1>1, <1>2, <1>3 DEF RowInv, RunningIsCovered, Amending, Covers, Excused,
     NotCancelledYet, SameButTimeout
<1>7. EntryStays'
  BY <1>1, <1>2, <1>3 DEF RowInv, EntryStays, SameButTimeout
<1> QED
  BY <1>4, <1>5, <1>6, <1>7 DEF RowInv

\* The hook of a cancelled engine takes the row out of `running`.
LEMMA CancelSavesRows ==
    ASSUME LifeInv, RowInv, NEW r \in Runs, CancelSaves(r)
    PROVE  RowInv'
<1>1. /\ run \in AllRuns /\ db \in AllRows
      /\ \A s \in Runs : run[s].pc # "unused" => run[s].exec \in Executions
      /\ UNCHANGED <<active, stop, recovering, amended, crashes, phase>>
      /\ log \in [Executions -> SUBSET {"workflow", "node"}]
      /\ \A d \in Executions : d # run[r].exec => log'[d] = log[d]
  BY DEF LifeInv, LifeTypeOK, RunsAgree, AllRuns, AllRows, CancelSaves, lifecycle, LogEvents
<1>2. \A s \in Runs : /\ run'[s].exec = run[s].exec /\ run'[s].responds = run[s].responds
                      /\ run'[s].pc = run[s].pc /\ run'[s].cancelled = run[s].cancelled
                      /\ s # r => run'[s].cancelSave = run[s].cancelSave
  BY <1>1, CancelSavesMoves
<1>3. /\ \A d \in Executions : d # run[r].exec => db'[d] = db[d]
      /\ run[r].exec \in Executions =>
            db'[run[r].exec].status = "canceled" /\ ~db'[run[r].exec].finished
  BY <1>1 DEF CancelSaves, AllRows, Rows
<1>4. FinishedAgrees' /\ RecoveryIsOver'
  BY <1>1, <1>3 DEF RowInv, FinishedAgrees, RecoveryIsOver
<1>5. NotCancelledYet' /\ RespondersAgree'
  <2>1. NotCancelledYet'
    BY <1>2 DEF RowInv, NotCancelledYet
  <2>2. RespondersAgree'
    BY <1>2 DEF RowInv, RespondersAgree
  <2> QED
    BY <2>1, <2>2
<1>6. RunningIsCovered'
  <2>1. ASSUME NEW s \in Runs, Covers(s), run[s].exec # run[r].exec
        PROVE  Covers(s)' /\ run'[s].exec = run[s].exec
    <3>1. s # r
      BY <2>1
    <3>2. /\ run'[s].exec = run[s].exec /\ run'[s].pc = run[s].pc
          /\ run'[s].cancelled = run[s].cancelled /\ run'[s].cancelSave = run[s].cancelSave
      BY <1>2, <3>1
    <3> QED
      BY <2>1, <3>2 DEF Covers
  <2>2. ASSUME NEW e \in Executions, db'[e].status = "running"
        PROVE  e # run[r].exec /\ db'[e] = db[e] /\ log'[e] = log[e]
    BY <1>1, <1>3, <2>2
  <2> QED
    BY <1>1, <2>1, <2>2 DEF RowInv, RunningIsCovered, Amending, Excused
<1>7. EntryStays'
  <2>1. ASSUME NEW s \in Runs, run'[s].pc = "added"
        PROVE  /\ run'[s].exec = run[s].exec /\ run[s].pc = "added" /\ run[s].exec \in Executions
               /\ db'[run[s].exec].status = "running" => db[run[s].exec].status = "running"
    <3>1. run'[s].exec = run[s].exec /\ run[s].pc = "added"
      BY <1>2, <2>1
    <3>2. run[s].exec \in Executions
      BY <1>1, <3>1
    <3> QED
      BY <1>3, <3>1, <3>2
  <2> QED
    BY <1>1, <2>1 DEF RowInv, EntryStays
<1> QED
  BY <1>4, <1>5, <1>6, <1>7 DEF RowInv

\* A run that is finalized has saved before.
LEMMA FinalizeRows ==
    ASSUME LifeInv, RowInv, NEW r \in Runs, Finalize(r)
    PROVE  RowInv'
<1>1. /\ run \in AllRuns /\ run[r].pc = "saved" /\ run[r].exec \in Executions
      /\ \A s \in Runs : run[s].pc # "unused" => run[s].exec \in Executions
      /\ active \in [Executions -> Runs \cup {NoRun}]
      /\ active' = active \/ active' = [active EXCEPT ![run[r].exec] = NoRun]
      /\ UNCHANGED <<db, stop, recovering, amended, crashes, phase, log>>
  BY DEF LifeInv, LifeTypeOK, RunsAgree, AllRuns, AllRows, Finalize, process
<1>2. Moves(r, "done")
  BY <1>1, FinalizeMoves
<1>4. FinishedAgrees' /\ RecoveryIsOver'
  BY <1>1 DEF RowInv, FinishedAgrees, RecoveryIsOver
<1>5. NotCancelledYet' /\ RespondersAgree'
  BY <1>1, <1>2 DEF RowInv, NotCancelledYet, RespondersAgree, Moves, Same
<1>6. RunningIsCovered'
  BY <1>1, <1>2 DEF RowInv, RunningIsCovered, Amending, Covers, Excused, Moves, Same
<1>7. EntryStays'
  BY <1>1, <1>2 DEF RowInv, EntryStays, Moves, Same, OneRunEach, LifeInv
<1> QED
  BY <1>4, <1>5, <1>6, <1>7 DEF RowInv

\* An entry that is stopped: its engine's row has still to be written.
LEMMA StopEntryRows ==
    ASSUME LifeInv, RowInv, NEW e \in Executions,
           \A s \in Runs : Canceled(run'[s], run[s]),
           active' = active \/ active' = [active EXCEPT ![e] = NoRun],
           UNCHANGED <<db, recovering, amended, crashes, phase, log>>,
           \A d \in Executions : stop[d] # "none" => stop'[d] # "none",
           stop'[e] # "none" \/ \E r \in Runs : run[r].exec = e /\ run[r].pc \in Cancellable
    PROVE  RowInv'
<1>1. /\ \A s \in Runs : run[s].pc # "unused" => run[s].exec \in Executions
      /\ active \in [Executions -> Runs \cup {NoRun}]
  BY DEF LifeInv, LifeTypeOK, RunsAgree
<1>4. FinishedAgrees' /\ RecoveryIsOver'
  BY DEF RowInv, FinishedAgrees, RecoveryIsOver
<1>5. NotCancelledYet' /\ RespondersAgree'
  BY DEF RowInv, NotCancelledYet, RespondersAgree, Canceled, Cancellable
<1>6. RunningIsCovered'
  <2>1. \A s \in Runs : Covers(s) => Covers(s)' /\ run'[s].exec = run[s].exec
    BY DEF Covers, Canceled
  <2> QED
    BY <2>1 DEF RowInv, RunningIsCovered, Amending, Excused
<1>7. EntryStays'
  <2>1. \A s \in Runs : run'[s].exec = run[s].exec /\ run'[s].pc = run[s].pc
    BY DEF Canceled
  <2>2. ASSUME crashes = 0, NEW r \in Runs, run[r].exec = e, run[r].pc \in Cancellable,
               NEW s \in Runs, run[s].exec = e, e \notin MayWait, run[s].pc = "added"
        PROVE  FALSE
    BY <2>2 DEF LifeInv, OneRunEach, Cancellable
  <2> QED
    BY <1>1, <2>1, <2>2 DEF RowInv, EntryStays
<1> QED
  BY <1>4, <1>5, <1>6, <1>7 DEF RowInv

\* A stop promises to write the row.
LEMMA StopRunningRows ==
    ASSUME LifeInv, RowInv, NEW e \in Executions, StopRunning(e)
    PROVE  RowInv'
<1>1. /\ run \in AllRuns /\ active \in [Executions -> Runs \cup {NoRun}]
      /\ active' = active \/ active' = [active EXCEPT ![e] = NoRun]
      /\ UNCHANGED <<db, recovering, amended, crashes, phase, log>>
      /\ \A d \in Executions : stop[d] # "none" => stop'[d] # "none"
      /\ stop'[e] # "none"
  BY DEF LifeInv, LifeTypeOK, AllRuns, StopRunning, StopEntry, process
<1>2. \A s \in Runs : Canceled(run'[s], run[s])
  BY <1>1, StopRunningMoves
<1> QED
  BY <1>1, <1>2, StopEntryRows

\* A timeout leaves the row to the hook of the engine it cancels.
LEMMA TimeOutRows ==
    ASSUME LifeInv, RowInv, NEW r \in Runs, TimeOut(r)
    PROVE  RowInv'
<1>1. /\ run \in AllRuns /\ active \in [Executions -> Runs \cup {NoRun}]
      /\ run[r].exec \in Executions /\ run[r].pc \in Cancellable
      /\ active' = active \/ active' = [active EXCEPT ![run[r].exec] = NoRun]
      /\ UNCHANGED <<db, recovering, amended, crashes, phase, log, stop>>
  BY DEF LifeInv, LifeTypeOK, AllRuns, RunsAgree, TimeOut, StopEntry, Cancellable, process
<1>2. \A s \in Runs : Canceled(run'[s], run[s])
  BY <1>1, TimeOutMoves
<1> QED
  BY SMTT(30), <1>1, <1>2, StopEntryRows

\* Who leaves the queue is a run of the execution that is stopped.
LEMMA StopQueuedLeaves ==
    ASSUME LifeInv, NEW e \in Executions, StopQueued(e)
    PROVE  \A s \in Runs : s \in Waiting /\ s \notin Waiting' \cup Holding' =>
              run[s].exec = e /\ run[s].pc = "throttled"
<1>1. /\ IInv' /\ isEnabled' = isEnabled
      /\ \A t \in Queues : Queued(t)' \subseteq Queued(t) /\ holders[t] \subseteq holders'[t]
      /\ \A t \in Queues : \A x \in Queued(t) \ Queued(t)' :
            x.executionId = e \/ x.run \in holders'[t]
  BY RemoveMoves DEF LifeInv, StopQueued
<1> QED
  BY <1>1, LimiterTyped, LimiterTypedNext DEF LifeInv, QueuesAgree

\* A stop in the queue promises to write the row.
LEMMA StopQueuedRows ==
    ASSUME LifeInv, RowInv, NEW e \in Executions, StopQueued(e)
    PROVE  RowInv'
<1>1. /\ run \in AllRuns
      /\ \A s \in Runs : run[s].pc # "unused" => run[s].exec \in Executions
      /\ UNCHANGED <<db, active, recovering, amended, crashes, phase, log>>
      /\ stop'[e] # "none" /\ \A d \in Executions : d # e => stop'[d] = stop[d]
  BY DEF LifeInv, LifeTypeOK, RunsAgree, AllRuns, AllRows, StopQueued, process
<1>2. \A s \in Runs :
         /\ Same(run'[s], run[s])
         /\ run'[s].pc = run[s].pc
               \/ (run'[s].pc = "removed" /\ run[s].exec = e /\ run[s].pc = "throttled")
  BY <1>1, StopQueuedMoves, StopQueuedLeaves
<1>4. FinishedAgrees' /\ RecoveryIsOver'
  BY <1>1 DEF RowInv, FinishedAgrees, RecoveryIsOver
<1>5. NotCancelledYet' /\ RespondersAgree'
  BY <1>1, <1>2 DEF RowInv, NotCancelledYet, RespondersAgree, Same
<1>6. RunningIsCovered'
  BY <1>1, <1>2 DEF RowInv, RunningIsCovered, Amending, Covers, Excused, Same
<1>7. EntryStays'
  BY <1>1, <1>2 DEF RowInv, EntryStays, Same
<1> QED
  BY <1>4, <1>5, <1>6, <1>7 DEF RowInv

\* A stop keeps its promise.
LEMMA StopWritesRows ==
    ASSUME LifeInv, RowInv, NEW e \in Executions, StopWrites(e)
    PROVE  RowInv'
<1>1. /\ db \in AllRows
      /\ \A s \in Runs : run[s].pc # "unused" => run[s].exec \in Executions
      /\ UNCHANGED <<run, active, recovering, amended, crashes, phase, log>>
      /\ \A d \in Executions : d # e => stop'[d] = stop[d]
  BY DEF LifeInv, LifeTypeOK, RunsAgree, AllRuns, AllRows, StopWrites, process
<1>3. /\ \A d \in Executions : d # e => db'[d] = db[d]
      /\ db'[e].status = "canceled"
  BY <1>1 DEF StopWrites, AllRows, Rows
<1>4. FinishedAgrees' /\ RecoveryIsOver'
  BY <1>1, <1>3 DEF RowInv, FinishedAgrees, RecoveryIsOver
<1>5. NotCancelledYet' /\ RespondersAgree'
  BY <1>1 DEF RowInv, NotCancelledYet, RespondersAgree
<1>6. RunningIsCovered'
  BY <1>1, <1>3 DEF RowInv, RunningIsCovered, Amending, Covers, Excused
<1>7. EntryStays'
  BY <1>1, <1>3 DEF RowInv, EntryStays
<1> QED
  BY <1>4, <1>5, <1>6, <1>7 DEF RowInv

\* A run of an existing execution enters the limiter.
LEMMA RunExistingRows ==
    ASSUME LifeInv, RowInv, NEW r \in Runs, NEW e \in Executions, NEW responds \in BOOLEAN,
           responds => e \in Responding, RunExisting(r, e, responds),
           UNCHANGED <<stop, recovering, amended, crashes, phase>>,
           \A d \in Executions : d # e => log'[d] = log[d]
    PROVE  RowInv'
<1>1. /\ run \in AllRuns /\ run[r].pc \in Over /\ ~run[r].cancelSave
      /\ UNCHANGED <<db, active>>
  BY DEF LifeInv, LifeTypeOK, AllRuns, RunExisting, Free
<1>2. Enters(r, e, "throttled", responds)
  BY <1>1, RunExistingEnters
<1>4. FinishedAgrees' /\ RecoveryIsOver'
  BY <1>1 DEF RowInv, FinishedAgrees, RecoveryIsOver
<1>5. NotCancelledYet' /\ RespondersAgree'
  BY <1>2 DEF RowInv, NotCancelledYet, RespondersAgree, Enters
<1>6. RunningIsCovered'
  <2>1. \A s \in Runs : Covers(s) => Covers(s)' /\ run'[s].exec = run[s].exec
    BY <1>1, <1>2 DEF Covers, Enters, Over
  <2>2. run'[r].exec = e /\ Covers(r)'
    BY <1>2 DEF Covers, Enters
  <2> QED
    BY <1>1, <2>1, <2>2 DEF RowInv, RunningIsCovered, Amending, Excused
<1>7. EntryStays'
  BY <1>1, <1>2 DEF RowInv, EntryStays, Enters
<1> QED
  BY <1>4, <1>5, <1>6, <1>7 DEF RowInv

\* Steps that concern neither rows nor runs.
LEMMA QuietRows ==
    ASSUME RowInv, UNCHANGED <<db, run, active, stop, recovering, amended, log, crashes>>,
           \/ phase' = phase \/ phase' \in {"stopping", "starting"}
           \/ phase = "booting" /\ phase' = "up",
           phase = "draining" => phase' = "draining" \/ crashes > 0
    PROVE  RowInv'
<1>1. FinishedAgrees' /\ NotCancelledYet' /\ RespondersAgree' /\ RecoveryIsOver'
  BY DEF RowInv, FinishedAgrees, NotCancelledYet, RespondersAgree, RecoveryIsOver
<1>2. RunningIsCovered'
  BY DEF RowInv, RunningIsCovered, Amending, Covers, Excused
<1>3. EntryStays'
  BY DEF RowInv, EntryStays
<1> QED
  BY <1>1, <1>2, <1>3 DEF RowInv

\* The timer begins a run, or forgets an execution that has finished.
LEMMA TimerFiresRows ==
    ASSUME LifeInv, RowInv, NEW r \in Runs, NEW e \in Executions, TimerFires(r, e)
    PROVE  RowInv'
<1>1. CASE UNCHANGED <<limiter, run, active, db, log>>
  BY <1>1, QuietRows DEF TimerFires, lifecycle
<1>2. CASE RunExisting(r, e, FALSE) /\ LogThrottled(r, e)
  <2>1. log \in [Executions -> SUBSET {"workflow", "node"}]
    BY DEF LifeInv, LifeTypeOK
  <2>2. \A d \in Executions : d # e => log'[d] = log[d]
    BY <1>2, <2>1 DEF LogThrottled, LogEvents
  <2> QED
    BY <1>2, <2>2, RunExistingRows DEF TimerFires, lifecycle
<1> QED
  BY <1>1, <1>2 DEF TimerFires

\* The webhook begins a run.
LEMMA WebhookResumesRows ==
    ASSUME LifeInv, RowInv, NEW r \in Runs, NEW e \in Executions, WebhookResumes(r, e)
    PROVE  RowInv'
<1>1. log \in [Executions -> SUBSET {"workflow", "node"}]
  BY DEF LifeInv, LifeTypeOK
<1>2. \A d \in Executions : d # e => log'[d] = log[d]
  BY <1>1 DEF WebhookResumes, LogThrottled, LogEvents
<1>3. /\ RunExisting(r, e, e \in Responding)
      /\ UNCHANGED <<stop, recovering, amended, crashes, phase>>
  BY DEF WebhookResumes, lifecycle
<1>4. (e \in Responding) \in BOOLEAN
  OBVIOUS
<1> DEFINE responds == e \in Responding
<1>5. responds \in BOOLEAN /\ (responds => e \in Responding) /\ RunExisting(r, e, responds)
  BY <1>3, <1>4
<1> HIDE DEF responds
<1> QED
  BY <1>2, <1>3, <1>5, RunExistingRows

\* Startup begins a run.
LEMMA BootRunsRows ==
    ASSUME LifeInv, RowInv, NEW r \in Runs, NEW e \in Executions, BootRuns(r, e)
    PROVE  RowInv'
<1>1. log \in [Executions -> SUBSET {"workflow", "node"}]
  BY DEF LifeInv, LifeTypeOK
<1>2. \A d \in Executions : d # e => log'[d] = log[d]
  BY <1>1 DEF BootRuns, LogEvents
<1> QED
  BY <1>2, RunExistingRows DEF BootRuns

\* Shutdown cancels engines and ends no run.
LEMMA ShutdownMoves ==
    ASSUME run \in AllRuns, Shutdown
    PROVE  \A s \in Runs : Canceled(run'[s], run[s])
<1> SUFFICES ASSUME NEW s \in Runs PROVE Canceled(run'[s], run[s])
  OBVIOUS
<1>1. Cancel(run, s) \in AllRuns /\ Canceled(Cancel(run, s)[s], run[s])
  BY CancelMoves
<1>2. Canceled(run[s], run[s])
  BY DEF Canceled
<1>3. PICK now \in {run[s], Cancel(run, s)[s]} :
         run'[s] = now \/ run'[s] = [now EXCEPT !.settled = TRUE]
  BY DEF Shutdown
<1>4. now \in RunRecords /\ Canceled(now, run[s])
  BY <1>1, <1>2 DEF AllRuns
<1> QED
  BY <1>3, <1>4 DEF Canceled, RunRecords

\* Shutdown writes no row; nothing is served after it.
LEMMA ShutdownRows ==
    ASSUME LifeInv, RowInv, Shutdown
    PROVE  RowInv'
<1>1. run \in AllRuns /\ phase' = "draining" /\ UNCHANGED <<db, stop, recovering, amended, log,
                                                            crashes>>
  BY DEF LifeInv, LifeTypeOK, AllRuns, Shutdown
<1>2. \A s \in Runs : Canceled(run'[s], run[s])
  BY <1>1, ShutdownMoves
<1>3. FinishedAgrees' /\ RecoveryIsOver' /\ RunningIsCovered' /\ EntryStays'
  BY <1>1 DEF RowInv, FinishedAgrees, RecoveryIsOver, RunningIsCovered, Amending, EntryStays
<1>4. NotCancelledYet' /\ RespondersAgree'
  BY <1>2 DEF RowInv, NotCancelledYet, RespondersAgree, Canceled, Cancellable
<1> QED
  BY <1>3, <1>4 DEF RowInv

\* A crash leaves rows without runs, but the process is down.
LEMMA GoDownRows ==
    ASSUME LifeInv, RowInv, GoDown
    PROVE  RowInv'
<1>1. /\ phase' = "down" /\ db' = db /\ crashes' = crashes + 1 /\ crashes \in Nat
      /\ amended'.row.finished = FALSE
  BY DEF LifeInv, LifeTypeOK, GoDown, NothingAmended, NoRow
<1>2. FinishedAgrees' /\ RecoveryIsOver' /\ RunningIsCovered' /\ EntryStays'
  BY <1>1 DEF RowInv, FinishedAgrees, RecoveryIsOver, RunningIsCovered, Amending, EntryStays
<1>3. NotCancelledYet' /\ RespondersAgree'
  BY GoDownMoves DEF NotCancelledYet, RespondersAgree
<1> QED
  BY <1>2, <1>3 DEF RowInv

\* Recovery collects every row that is `running`.
LEMMA RecoverRunningRows ==
    ASSUME LifeInv, AmendedAgrees, RowInv, RecoverRunning
    PROVE  RowInv'
<1>1. /\ phase = "starting" /\ phase' \in {"booting", "marking", "recovering"}
      /\ phase' = "booting" <=> recovering' = {}
      /\ \A e \in Executions : db[e].status = "running" => e \in recovering'
      /\ UNCHANGED <<run, db, active, stop, amended, log, crashes>> /\ amended.at = "none"
  BY DEF RecoverRunning, AmendedAgrees
<1>2. FinishedAgrees' /\ RecoveryIsOver' /\ RunningIsCovered' /\ EntryStays'
  BY <1>1 DEF RowInv, FinishedAgrees, RecoveryIsOver, RunningIsCovered, Amending, EntryStays
<1>3. NotCancelledYet' /\ RespondersAgree'
  BY <1>1 DEF RowInv, NotCancelledYet, RespondersAgree
<1> QED
  BY <1>2, <1>3 DEF RowInv

\* A second attempt at recovery marks them all.
LEMMA MarkAllCrashedRows ==
    ASSUME LifeInv, RowInv, MarkAllCrashed
    PROVE  RowInv'
<1>1. /\ phase = "marking" /\ phase' = "recovering" /\ recovering' = {} /\ db \in AllRows
      /\ UNCHANGED <<run, active, stop, amended, log, crashes>> /\ crashes # 0
  BY DEF LifeInv, LifeTypeOK, AllRows, NothingResumes, MarkAllCrashed
<1>2. \A e \in Executions :
         IF e \in recovering THEN db'[e].status = "crashed" ELSE db'[e] = db[e]
  BY <1>1 DEF MarkAllCrashed, AllRows, Rows
<1>3. FinishedAgrees' /\ RecoveryIsOver' /\ EntryStays'
  BY <1>1, <1>2 DEF RowInv, FinishedAgrees, RecoveryIsOver, EntryStays
<1>4. RunningIsCovered'
  BY <1>1, <1>2 DEF RowInv, RunningIsCovered, Amending, Covers, Excused
<1>5. NotCancelledYet' /\ RespondersAgree'
  BY <1>1 DEF RowInv, NotCancelledYet, RespondersAgree
<1> QED
  BY <1>3, <1>4, <1>5 DEF RowInv

\* Recovery marks a row, or reads it, or leaves one alone that has its outcome or nothing but
\* its start in the log.
LEMMA RecoverRows ==
    ASSUME LifeInv, RowInv, NEW e \in Executions, Recover(e)
    PROVE  RowInv'
<1>1. /\ phase = "recovering" /\ recovering' = recovering \ {e} /\ db \in AllRows
      /\ amended.at = "none"
      /\ UNCHANGED <<run, active, stop, log, crashes, phase>> /\ crashes > 0
  BY DEF LifeInv, LifeTypeOK, AllRows, NothingResumes, Recover
<1>2. /\ \A d \in Executions : d # e => db'[d] = db[d]
      /\ \/ db'[e].status = "crashed"
         \/ db'[e] = db[e] /\ (log[e] = {"workflow"} \/ db[e].status \in {"success", "error"})
         \/ db'[e] = db[e] /\ amended'.at = "read" /\ amended'.exec = e
  BY <1>1 DEF Recover, AllRows, Rows
<1>3. amended'.row = amended.row \/ amended'.row.finished = FALSE
         \/ amended'.row.status = "crashed"
  BY <1>1 DEF Recover, NoRow, AllRows, Rows
<1>4. FinishedAgrees' /\ RecoveryIsOver' /\ EntryStays'
  BY <1>1, <1>2, <1>3 DEF RowInv, FinishedAgrees, RecoveryIsOver, EntryStays
<1>5. RunningIsCovered'
  BY <1>1, <1>2 DEF RowInv, RunningIsCovered, Amending, Covers, Excused
<1>6. NotCancelledYet' /\ RespondersAgree'
  BY <1>1 DEF RowInv, NotCancelledYet, RespondersAgree
<1> QED
  BY <1>4, <1>5, <1>6 DEF RowInv

\* Until the hook has written it, the row that recovery is at is not expected to be final.
LEMMA AmendRows ==
    ASSUME LifeInv, AmendedAgrees, RowInv, AmendReads \/ AmendSaves \/ AmendHook
    PROVE  RowInv'
<1>1. /\ phase = "recovering" /\ amended.exec \in Executions /\ amended.at # "none"
      /\ db \in AllRows /\ amended \in Amendments /\ crashes > 0
      /\ UNCHANGED <<run, active, stop, recovering, log, crashes, phase>>
  BY DEF LifeInv, LifeTypeOK, AllRows, NothingResumes, AmendedAgrees, AmendReads, AmendSaves,
     AmendHook
<1>2. \A d \in Executions : d # amended.exec => db'[d] = db[d]
  BY <1>1 DEF AmendReads, AmendSaves, AmendHook, AllRows
<1>3. CASE AmendReads
  <2>1. /\ amended'.exec = amended.exec /\ amended'.at = "read" /\ db' = db
        /\ amended'.row = db[amended.exec]
    BY <1>1, <1>3 DEF AmendReads, Amendments
  <2>2. FinishedAgrees' /\ RunningIsCovered'
    BY <1>1, <2>1 DEF RowInv, FinishedAgrees, RunningIsCovered, Amending, Covers, Excused
  <2> QED
    BY <1>1, <2>1, <2>2
       DEF RowInv, RecoveryIsOver, EntryStays, NotCancelledYet, RespondersAgree
<1>4. CASE AmendSaves
  <2>1. /\ amended'.exec = amended.exec /\ amended'.at = "saved" /\ amended'.row = amended.row
        /\ db'[amended.exec] = amended.row
    BY <1>1, <1>4 DEF AmendSaves, Amendments, AllRows
  <2>2. FinishedAgrees' /\ RunningIsCovered'
    BY <1>1, <1>2, <2>1 DEF RowInv, FinishedAgrees, RunningIsCovered, Amending, Covers, Excused
  <2> QED
    BY <1>1, <2>1, <2>2
       DEF RowInv, RecoveryIsOver, EntryStays, NotCancelledYet, RespondersAgree
<1>5. CASE AmendHook
  <2>1. /\ db'[amended.exec].status # "running" /\ db'[amended.exec].finished = FALSE
        /\ amended' = NothingAmended /\ NothingAmended.row.finished = FALSE
    BY <1>1, <1>5, AmendHookWrites DEF AmendHook, AllRows, NothingAmended, NoRow
  <2>2. FinishedAgrees' /\ RunningIsCovered'
    BY <1>1, <1>2, <2>1 DEF RowInv, FinishedAgrees, RunningIsCovered, Amending, Covers, Excused
  <2> QED
    BY <1>1, <2>1, <2>2
       DEF RowInv, RecoveryIsOver, EntryStays, NotCancelledYet, RespondersAgree
<1> QED
  BY <1>3, <1>4, <1>5

\* Recovery ends when nothing is left of it.
LEMMA RecoveryDoneRows ==
    ASSUME LifeInv, RowInv, RecoveryDone
    PROVE  RowInv'
<1>1. /\ phase = "recovering" /\ phase' = "booting" /\ recovering = {} /\ amended.at = "none"
      /\ UNCHANGED <<db, run, active, stop, recovering, amended, log, crashes>>
  BY DEF RecoveryDone
<1>3. FinishedAgrees' /\ RecoveryIsOver' /\ EntryStays'
  BY <1>1 DEF RowInv, FinishedAgrees, RecoveryIsOver, EntryStays
<1>4. RunningIsCovered'
  BY <1>1 DEF RowInv, RunningIsCovered, Amending, Covers, Excused
<1>5. NotCancelledYet' /\ RespondersAgree'
  BY <1>1 DEF RowInv, NotCancelledYet, RespondersAgree
<1> QED
  BY <1>3, <1>4, <1>5 DEF RowInv

\* In the beginning there is no row.
LEMMA RowsBegin == ASSUME LifeInit PROVE RowInv
<1>1. /\ db = [e \in Executions |-> NoRow] /\ run = [r \in Runs |-> Unused]
      /\ phase = "up" /\ recovering = {}
      /\ amended = NothingAmended
  BY DEF LifeInit
<1>2. \A e \in Executions : db[e].status = "none" /\ ~db[e].finished
  BY <1>1 DEF NoRow
<1>3. amended.at = "none" /\ ~amended.row.finished
  BY <1>1 DEF NothingAmended, NoRow
<1>4. \A r \in Runs : run[r].pc = "unused" /\ ~run[r].responds
  BY <1>1 DEF Unused, Entered
<1> QED
  BY <1>1, <1>2, <1>3, <1>4 DEF RowInv, FinishedAgrees, RunningIsCovered, Amending, RecoveryIsOver,
     NotCancelledYet, RespondersAgree, EntryStays

\* Every step of the system keeps it.
LEMMA RowNextKeeps ==
    ASSUME LifeInv, AmendedAgrees, RowInv, [LifeNext]_lifeVars
    PROVE  RowInv'
<1>1. ASSUME NEW r \in Runs, RunStep(r) PROVE RowInv'
  BY <1>1, ThrottleNewRows, RegisterRows, PassCredentialsRows, StartEngineRows, EngineStopsRows,
     EngineSavesRows, CancelSavesRows, FinalizeRows DEF RunStep
<1>2. ASSUME NEW r \in Runs, EngineStep(r) \/ DenyCredentials(r) \/ TimeOut(r) PROVE RowInv'
  BY <1>2, EngineEndsRows, DenyCredentialsRows, TimeOutRows DEF EngineStep
<1>3. ASSUME NEW e \in Executions, StopQueued(e) \/ StopRunning(e) \/ StopWrites(e) PROVE RowInv'
  BY <1>3, StopQueuedRows, StopRunningRows, StopWritesRows
<1>4. ASSUME NEW e \in Executions, PollFinds(e) \/ PollSetsTimer(e) PROVE RowInv'
  BY <1>4, QuietRows DEF PollFinds, PollSetsTimer, process
<1>5. ASSUME NEW e \in Executions, Recover(e) PROVE RowInv'
  BY <1>5, RecoverRows
<1>6. ASSUME NEW e \in Executions, NEW r \in Runs,
             Create(r, e) \/ TimerFires(r, e) \/ WebhookResumes(r, e) \/ BootRuns(r, e)
      PROVE  RowInv'
  BY <1>6, CreateRows, TimerFiresRows, WebhookResumesRows, BootRunsRows
<1>7. ASSUME ProcessStep \/ Crash PROVE RowInv'
  <2>1. CASE Shutdown
    BY <2>1, ShutdownRows
  <2>2. CASE Exit \/ ForceExit \/ Crash
    BY <2>2, GoDownRows DEF Exit, ForceExit, Crash
  <2>3. CASE Boot \/ BootReads
    BY <2>3, QuietRows DEF Boot, BootReads
  <2>4. CASE \/ RecoverRunning \/ MarkAllCrashed \/ AmendReads \/ AmendSaves \/ AmendHook
             \/ RecoveryDone
    BY <2>4, RecoverRunningRows, MarkAllCrashedRows, AmendRows, RecoveryDoneRows
  <2> QED
    BY <1>7, <2>1, <2>2, <2>3, <2>4 DEF ProcessStep
<1>8. CASE BeginShutdown
  BY <1>8, QuietRows DEF BeginShutdown
<1>9. CASE UNCHANGED lifeVars
  BY <1>9, QuietRows DEF lifeVars
<1> QED
  BY <1>1, <1>2, <1>3, <1>4, <1>5, <1>6, <1>7, <1>8, <1>9 DEF LifeNext

\* So it always holds.
LEMMA RowInvariant == LifeSpec => []RowInv
<1>1. LifeInit => RowInv
  BY RowsBegin
<1>2. LifeInv /\ AmendedAgrees /\ RowInv /\ [LifeNext]_lifeVars => RowInv'
  BY RowNextKeeps
<1> QED
  BY <1>1, <1>2, LifeInvariant, PTL DEF LifeSpec

-----------------------------------------------------------------------------
(* What succeeds stays at rest *)

\* What AtRest(e) asks of the runs.
RunsRest(e) == \A s \in Runs : run[s].exec = e => run[s].pc \in Over /\ ~run[s].cancelSave

\* AtRest, in these words.
LEMMA RestIsRunsRest ==
    ASSUME NEW e \in Executions
    PROVE  AtRest(e) <=> /\ db[e].finished /\ db[e].status # "running"
                         /\ log[e] = {} /\ e \notin recovering /\ ~Amending(e)
                         /\ RunsRest(e) /\ e \notin bootList /\ stop[e] = "none"
BY DEF AtRest, RunsRest, LiveRuns

\* And in the next state.
LEMMA RestIsRunsRestNext ==
    ASSUME NEW e \in Executions, db'[e].finished, db'[e].status # "running",
           log'[e] = {}, e \notin recovering', ~Amending(e)',
           RunsRest(e)', e \notin bootList', stop'[e] = "none"
    PROVE  AtRest(e)'
BY DEF AtRest, RunsRest, LiveRuns

\* A step of a run of another execution leaves the runs of e at rest.
LEMMA MovesRest ==
    ASSUME NEW e, RunsRest(e), NEW r \in Runs, NEW p, Moves(r, p), run[r].exec # e
    PROVE  RunsRest(e)'
BY DEF RunsRest, Moves, Same

\* A cancellation wakes no run that is over.
LEMMA CanceledRest ==
    ASSUME NEW e, RunsRest(e), \A s \in Runs : Canceled(run'[s], run[s])
    PROVE  RunsRest(e)'
BY DEF RunsRest, Canceled, Cancellable, Over

\* A run that is begun for another execution is none of e.
LEMMA EntersRest ==
    ASSUME NEW e, RunsRest(e), NEW r \in Runs, NEW d, NEW at, NEW responds,
           Enters(r, d, at, responds), d # e
    PROVE  RunsRest(e)'
BY DEF RunsRest, Enters

\* A run that is on its way, or whose hook has still to write, is not of e.
LEMMA RunStepRest ==
    ASSUME LifeInv, NEW e \in Executions, AtRest(e), NEW r \in Runs,
           RunStep(r) \/ EngineStep(r) \/ DenyCredentials(r)
    PROVE  AtRest(e)'
<1>1. /\ run \in AllRuns /\ db \in AllRows
      /\ db[e].finished /\ db[e].status # "running"
      /\ log[e] = {} /\ e \notin recovering /\ ~Amending(e)
      /\ RunsRest(e) /\ e \notin bootList /\ stop[e] = "none"
  BY SMTT(30), RestIsRunsRest DEF LifeInv, LifeTypeOK, AllRuns, AllRows
<1>2. run[r].pc \notin Over \/ run[r].cancelSave
  BY DEF RunStep, EngineStep, DenyCredentials, ThrottleNew, Register, PassCredentials, StartEngine,
     EngineEnds, EngineWaits, EngineStops, EngineSaves, CancelSaves, Finalize, Over
<1>3. run[r].exec # e
  BY SMTT(30), <1>1, <1>2 DEF RunsRest
<1>4. db'[e] = db[e]
  BY <1>1, <1>3 DEF RunStep, EngineStep, DenyCredentials, ThrottleNew, Register, PassCredentials,
     StartEngine, EngineEnds, EngineWaits, EngineStops, EngineSaves, CancelSaves, Finalize, AllRows
<1>5. UNCHANGED <<bootList, stop, recovering, amended>>
  BY DEF RunStep, EngineStep, DenyCredentials, ThrottleNew, Register, PassCredentials,
     StartEngine, EngineEnds, EngineWaits, EngineStops, EngineSaves, CancelSaves, Finalize,
     lifecycle, process
<1>6. RunsRest(e)'
  <2>1. CASE \E p : Moves(r, p)
    BY <1>1, <1>3, <2>1, MovesRest
  <2>2. CASE StartEngine(r)
    BY <1>1, <1>3, <2>2, StartEngineMoves DEF RunsRest, SameButTimeout
  <2>3. CASE CancelSaves(r)
    BY <1>1, <1>3, <2>3, CancelSavesMoves DEF RunsRest
  <2> QED
    BY <1>1, <2>1, <2>2, <2>3, ThrottleNewMoves, RegisterMoves, PassCredentialsMoves,
       EngineEndsMoves, EngineStopsMoves, FinalizeMoves, DenyCredentialsMoves
       DEF RunStep, EngineStep
<1>7. log'[e] = {}
  <2>1. log \in [Executions -> SUBSET {"workflow", "node"}]
    BY DEF LifeInv, LifeTypeOK
  <2> QED
    BY <1>1, <1>3, <2>1 DEF RunStep, EngineStep, DenyCredentials, ThrottleNew, Register,
       PassCredentials, StartEngine, EngineEnds, EngineWaits, EngineStops, EngineSaves,
       CancelSaves, Finalize, LogThrottled, LogEvents, process
<1> QED
  BY <1>1, <1>4, <1>5, <1>6, <1>7, RestIsRunsRestNext DEF Amending

\* Stops only write the rows they have been asked for.
LEMMA StopRest ==
    ASSUME LifeInv, RowInv, NEW e \in Executions, AtRest(e), NEW d \in Executions,
           StopQueued(d) \/ StopRunning(d) \/ StopWrites(d)
    PROVE  AtRest(e)'
<1>1. /\ run \in AllRuns /\ db \in AllRows /\ active \in [Executions -> Runs \cup {NoRun}]
      /\ stop \in [Executions -> {"none", "beforeRun", "duringRun"}]
      /\ db[e].finished /\ db[e].status # "running"
      /\ log[e] = {} /\ e \notin recovering /\ ~Amending(e)
      /\ RunsRest(e) /\ e \notin bootList /\ stop[e] = "none"
      /\ db[e].status \notin {"none", "new", "waiting"}
  BY RestIsRunsRest DEF LifeInv, LifeTypeOK, AllRuns, AllRows, RowInv, FinishedAgrees
<1>2. d # e
  BY <1>1 DEF StopQueued, StopRunning, StopWrites
<1>3. /\ db'[e] = db[e] /\ stop'[e] = stop[e]
      /\ UNCHANGED <<bootList, log, recovering, amended>>
  BY <1>1, <1>2 DEF StopQueued, StopRunning, StopWrites, AllRows, process
<1>4. RunsRest(e)'
  <2>1. CASE StopQueued(d)
    BY <1>1, <2>1, StopQueuedMoves DEF RunsRest, Same, Over
  <2>2. CASE StopRunning(d)
    BY <1>1, <2>2, StopRunningMoves, CanceledRest
  <2>3. CASE StopWrites(d)
    BY <1>1, <2>3 DEF StopWrites, RunsRest
  <2> QED
    BY <2>1, <2>2, <2>3
<1> QED
  BY <1>1, <1>3, <1>4, RestIsRunsRestNext DEF Amending

\* Only an execution that has not finished is run.
LEMMA ResumeRest ==
    ASSUME LifeInv, RowInv, NEW e \in Executions, AtRest(e), NEW d \in Executions, NEW r \in Runs,
           Create(r, d) \/ TimerFires(r, d) \/ WebhookResumes(r, d) \/ BootRuns(r, d)
    PROVE  AtRest(e)'
<1>1. /\ run \in AllRuns /\ db \in AllRows
      /\ db[e].finished /\ db[e].status # "running"
      /\ log[e] = {} /\ e \notin recovering /\ ~Amending(e)
      /\ RunsRest(e) /\ e \notin bootList /\ stop[e] = "none"
      /\ db[e].status \notin {"none", "new", "waiting"}
  BY RestIsRunsRest DEF LifeInv, LifeTypeOK, AllRuns, AllRows, RowInv, FinishedAgrees
<1>2. CASE TimerFires(r, d) /\ UNCHANGED <<limiter, run, active, db, log>>
  BY <1>1, <1>2 DEF TimerFires, lifecycle, Amending, AtRest, RunsRest, LiveRuns
<1>3. CASE Create(r, d)
  <2>1. d # e /\ db'[e] = db[e] /\ UNCHANGED <<stop, bootList, log, recovering, amended>>
    <3>1. db[d].status = "none" /\ UNCHANGED <<stop, bootList, log, recovering, amended>>
      BY <1>3 DEF Create, process
    <3>2. db' = [db EXCEPT ![d].status = "new"]
      BY <1>3 DEF Create
    <3>3. d # e
      BY <1>1, <3>1
    <3> QED
      BY <1>1, <3>1, <3>2, <3>3 DEF AllRows
  <2>2. RunsRest(e)'
    <3>1. Enters(r, d, "created", d \in Responding)
      BY <1>1, <1>3, CreateEnters
    <3> DEFINE responds == d \in Responding
    <3>2. Enters(r, d, "created", responds)
      BY <3>1
    <3> HIDE DEF responds
    <3> QED
      BY <1>1, <2>1, <3>2, EntersRest
  <2> QED
    BY <1>1, <2>1, <2>2, RestIsRunsRestNext DEF Amending
<1>4. ASSUME NEW responds, RunExisting(r, d, responds), d # e,
             UNCHANGED <<stop, recovering, amended>>, bootList' \subseteq bootList,
             log' = log \/ LogEvents(d, {})
      PROVE  AtRest(e)'
  <2>1. Enters(r, d, "throttled", responds)
    BY <1>1, <1>4, RunExistingEnters
  <2>2. RunsRest(e)'
    BY <1>1, <1>4, <2>1, EntersRest
  <2>3. db' = db
    BY <1>4 DEF RunExisting
  <2>4. log'[e] = {}
    <3>1. log \in [Executions -> SUBSET {"workflow", "node"}]
      BY DEF LifeInv, LifeTypeOK
    <3> QED
      BY <1>1, <1>4, <3>1 DEF LogEvents
  <2> QED
    BY <1>1, <1>4, <2>2, <2>3, <2>4, RestIsRunsRestNext DEF Amending
<1>5. CASE TimerFires(r, d) /\ ~db[d].finished /\ RunExisting(r, d, FALSE)
  BY <1>1, <1>4, <1>5 DEF TimerFires, LogThrottled, lifecycle
<1>6. CASE WebhookResumes(r, d)
  BY <1>1, <1>4, <1>6 DEF WebhookResumes, LogThrottled, lifecycle
<1>7. CASE BootRuns(r, d)
  BY <1>1, <1>4, <1>7 DEF BootRuns
<1> QED
  BY <1>2, <1>3, <1>5, <1>6, <1>7 DEF TimerFires

\* A restart runs what is `new`, and recovery is only about executions that the log or their
\* row says are unfinished.
LEMMA ProcessRest ==
    ASSUME LifeInv, RowInv, NEW e \in Executions, AtRest(e),
           \/ ProcessStep \/ BeginShutdown \/ Crash
           \/ \E d \in Executions : PollFinds(d) \/ PollSetsTimer(d) \/ Recover(d)
    PROVE  AtRest(e)'
<1>1. /\ run \in AllRuns /\ db \in AllRows
      /\ log \in [Executions -> SUBSET {"workflow", "node"}] /\ amended \in Amendments
      /\ db[e].finished /\ db[e].status # "running"
      /\ log[e] = {} /\ e \notin recovering /\ ~Amending(e)
      /\ RunsRest(e) /\ e \notin bootList /\ stop[e] = "none"
      /\ db[e].status \notin {"none", "new", "waiting"}
  BY RestIsRunsRest DEF LifeInv, LifeTypeOK, AllRuns, AllRows, RowInv, FinishedAgrees
<1>2. CASE Shutdown
  <2>1. UNCHANGED <<db, stop, bootList, log, recovering, amended>>
    BY <1>2 DEF Shutdown
  <2>2. RunsRest(e)'
    BY <1>1, <1>2, ShutdownMoves, CanceledRest
  <2> QED
    BY <1>1, <2>1, <2>2, RestIsRunsRestNext DEF Amending
<1>3. CASE GoDown
  <2>1. /\ db' = db /\ stop'[e] = "none" /\ bootList' = {} /\ recovering' = {}
        /\ amended'.at = "none"
    BY <1>3 DEF GoDown, NothingAmended
  <2>2. RunsRest(e)'
    BY <1>3, GoDownMoves DEF RunsRest, Over
  <2>3. log'[e] = {}
    <3>1. \A r \in Runs : run[r].pc = "engine" => run[r].exec # e
      BY <1>1 DEF RunsRest, Over
    <3> QED
      BY <1>1, <1>3, <3>1 DEF GoDown
  <2> QED
    BY <1>1, <2>1, <2>2, <2>3, RestIsRunsRestNext DEF Amending
<1>4. CASE RecoverRunning
  <2>1. e \notin recovering' /\ UNCHANGED <<db, run, stop, bootList, log, amended>>
    BY <1>1, <1>4 DEF RecoverRunning
  <2> QED
    BY <1>1, <2>1, RestIsRunsRestNext DEF Amending, RunsRest
<1>5. CASE MarkAllCrashed
  <2>1. db'[e] = db[e] /\ recovering' = {} /\ UNCHANGED <<run, stop, bootList, log, amended>>
    BY <1>1, <1>5 DEF MarkAllCrashed
  <2> QED
    BY <1>1, <2>1, RestIsRunsRestNext DEF Amending, RunsRest
<1>6. ASSUME NEW d \in Executions, Recover(d) PROVE AtRest(e)'
  <2>1. /\ d # e /\ db'[e] = db[e] /\ recovering' \subseteq recovering
        /\ UNCHANGED <<run, stop, bootList, log>>
    BY <1>1, <1>6 DEF Recover, AllRows
  <2>2. ~Amending(e)'
    BY <1>1, <1>6, <2>1 DEF Recover, Amending
  <2> QED
    BY <1>1, <2>1, <2>2, RestIsRunsRestNext DEF RunsRest
<1>7. CASE AmendReads \/ AmendSaves \/ AmendHook
  <2>0. amended.exec # e /\ UNCHANGED <<run, stop, bootList, log, recovering>>
    BY <1>1, <1>7 DEF AmendReads, AmendSaves, AmendHook, Amending
  <2>1. db'[e] = db[e]
    BY <1>1, <1>7, <2>0 DEF AmendReads, AmendSaves, AmendHook, AllRows
  <2>2. amended'.at = "none" \/ amended'.exec # e
    <3>1. CASE AmendReads
      <4> DEFINE row == db[amended.exec]
      <4>1. amended' = [amended EXCEPT !.at = "read", !.row = row]
        BY <3>1 DEF AmendReads
      <4> HIDE DEF row
      <4> QED
        BY <1>1, <2>0, <4>1 DEF Amendments
    <3>2. CASE AmendSaves
      BY <1>1, <2>0, <3>2 DEF AmendSaves, Amendments
    <3>3. CASE AmendHook
      BY <3>3, NothingTyped DEF AmendHook
    <3> QED
      BY <1>7, <3>1, <3>2, <3>3
  <2> QED
    BY <1>1, <2>0, <2>1, <2>2, RestIsRunsRestNext DEF RunsRest, Amending
<1>8. CASE BootReads
  BY <1>1, <1>8 DEF BootReads, Amending, AtRest, RunsRest, LiveRuns
<1>9. CASE UNCHANGED <<db, run, stop, bootList, log, recovering, amended>>
  BY <1>1, <1>9, RestIsRunsRestNext DEF RunsRest, Amending
<1> QED
  BY <1>2, <1>3, <1>4, <1>5, <1>6, <1>7, <1>8, <1>9 DEF ProcessStep, Exit, ForceExit, Crash, Boot,
     RecoveryDone, BeginShutdown, PollFinds, PollSetsTimer, process

\* Every step leaves an execution at rest alone.
LEMMA NextRest ==
    ASSUME LifeInv, RowInv, NEW e \in Executions, AtRest(e), LifeNext
    PROVE  AtRest(e)'
<1>1. ASSUME NEW r \in Runs, TimeOut(r) PROVE AtRest(e)'
  <2>1. /\ run \in AllRuns /\ run[r].exec \in Executions
        /\ active \in [Executions -> Runs \cup {NoRun}] /\ UNCHANGED <<db, stop, bootList>>
        /\ UNCHANGED <<log, recovering, amended>>
    BY <1>1 DEF LifeInv, LifeTypeOK, AllRuns, RunsAgree, TimeOut, Cancellable, process
  <2>2. RunsRest(e)'
    BY <1>1, <2>1, TimeOutMoves, CanceledRest, RestIsRunsRest
  <2> QED
    BY <2>1, <2>2, RestIsRunsRest, RestIsRunsRestNext DEF Amending
<1> QED
  BY <1>1, RunStepRest, StopRest, ResumeRest, ProcessRest DEF LifeNext

-----------------------------------------------------------------------------
(* The limit and the engines *)

\* A run that takes a place by rights: let through, and not cancelled.
At(x) == x.pc \in {"added", "checked", "engine", "saving", "saved"} /\ ~x.cancelled

\* The runs of a queue that take a place, from the moment the limiter lets them through.
Inside(t) ==
    {s \in Runs : /\ Counter(s) = t
                  /\ At(run[s]) \/ (run[s].pc = "throttled" /\ s \notin Waiting)}

\* In an undisturbed queue only a timeout cancels, and the entry it finds is that of its own
\* run, whose engine it cancels; the entry is gone then.
CancelsAgree(t) ==
    \A s \in Runs : run[s].pc # "unused" /\ Counter(s) = t =>
        /\ run[s].timeout => run[s].exec \in HasTimeout /\ run[s].engine = s
        /\ run[s].cancelled => run[s].exec \in HasTimeout /\ active[run[s].exec] # s

\* The counter never falls below the number of runs that wait: the limit is never exceeded.
NotOverdrawn(t) == capacity[t] + Len(queue[t]) >= 0

\* What holds of an undisturbed queue: the runs inside are no more than the places given away.
\* They are not the same runs: where an execution is resumed before its last run has been
\* finalized, that run's end releases the place of the new one.
Placed(t) ==
    /\ IsFiniteSet(Inside(t)) /\ Cardinality(Inside(t)) <= Cardinality(holders[t])
    /\ NotOverdrawn(t) /\ CancelsAgree(t)

\* The engine attached to a run is one of its execution.
EnginesAgree ==
    \A s \in Runs : run[s].pc \notin Over /\ run[s].engine # NoRun =>
        run[run[s].engine].exec = run[s].exec

\* The strengthening for the places.
PlaceInv ==
    /\ EnginesAgree
    /\ isEnabled => \A t \in Queues : Undisturbed(t) => Placed(t)

\* A call of the limiter touches the queue of its execution only.
LEMMA OthersStay ==
    ASSUME IInv, NEW r, NEW e, Throttle(r, e) \/ Release(r, e) \/ Remove(e),
           NEW u \in Queues, u # QueueOf(Mode[e])
    PROVE  /\ capacity'[u] = capacity[u] /\ queue'[u] = queue[u] /\ holders'[u] = holders[u]
           /\ Queued(u)' = Queued(u)
<1>1. /\ capacity \in [Queues -> Int] /\ queue \in [Queues -> Seq(Entries)]
      /\ holders \in [Queues -> SUBSET Runs]
  BY DEF IInv, TypeOK
<1>2. capacity'[u] = capacity[u] /\ queue'[u] = queue[u] /\ holders'[u] = holders[u]
  BY <1>1 DEF Throttle, Release, Remove, Enqueue, Dequeue, RemoveFrom, ResolveNext
<1> QED
  BY <1>2 DEF Queued

\* throttle and release never overdraw a queue (remove does).
LEMMA OverdraftStays ==
    ASSUME IInv, NEW r \in Runs, NEW e \in Executions, Throttle(r, e) \/ Release(r, e),
           NEW t \in Queues, NotOverdrawn(t)
    PROVE  NotOverdrawn(t)'
<1>1. /\ capacity \in [Queues -> Int] /\ queue \in [Queues -> Seq(Entries)]
      /\ holders \in [Queues -> SUBSET Runs]
  BY DEF IInv, TypeOK
<1>2. queue[t] \in Seq(Entries) /\ Len(queue[t]) \in Nat /\ capacity[t] \in Int
  BY <1>1
<1>3. CASE t # QueueOf(Mode[e])
  BY <1>3, OthersStay DEF NotOverdrawn
<1>4. CASE t = QueueOf(Mode[e]) /\ UNCHANGED <<capacity, queue, holders>>
  BY <1>4 DEF NotOverdrawn
<1>5. CASE Enqueue(t, r, e)
  <2>1. capacity'[t] = capacity[t] - 1
    BY <1>1, <1>5 DEF Enqueue
  <2>2. CASE queue' = queue /\ capacity[t] - 1 >= 0
    BY <1>2, <2>1, <2>2 DEF NotOverdrawn
  <2>3. CASE queue' = [queue EXCEPT ![t] = Append(@, [executionId |-> e, run |-> r])]
    <3>1. Len(queue'[t]) = Len(queue[t]) + 1
      BY <1>1, <1>2, <2>3
    <3> QED
      BY <1>2, <2>1, <3>1 DEF NotOverdrawn
  <2> QED
    BY <1>5, <2>2, <2>3 DEF Enqueue
<1>6. CASE Dequeue(t, r)
  <2>1. capacity'[t] = capacity[t] + 1
    BY <1>1, <1>6 DEF Dequeue
  <2>2. CASE queue[t] = << >> /\ queue' = [queue EXCEPT ![t] = queue[t]]
    <3>1. Len(queue'[t]) = Len(queue[t])
      BY <1>1, <2>2
    <3> QED
      BY <1>2, <2>1, <3>1 DEF NotOverdrawn
  <2>3. CASE queue[t] # << >> /\ queue' = [queue EXCEPT ![t] = Tail(queue[t])]
    <3>1. Len(queue'[t]) = Len(queue[t]) - 1
      BY <1>1, <1>2, <2>3
    <3> QED
      BY <1>2, <2>1, <3>1 DEF NotOverdrawn
  <2> QED
    BY <1>6, <2>2, <2>3 DEF Dequeue, ResolveNext
<1> QED
  BY <1>3, <1>4, <1>5, <1>6 DEF Throttle, Release

\* counting
LEMMA PlacesCount ==
    ASSUME NEW I, NEW H, NEW J, NEW K, IsFiniteSet(I), IsFiniteSet(H), IsFiniteSet(K),
           Cardinality(I) <= Cardinality(H),
           \/ J \subseteq I \cup (K \ H) /\ H \subseteq K
           \/ \E r \in I, x \in H : J \subseteq (I \ {r}) \cup (K \ H) /\ H \ {x} \subseteq K
    PROVE  IsFiniteSet(J) /\ Cardinality(J) <= Cardinality(K)
<1> DEFINE D == K \ H
<1>1. /\ IsFiniteSet(D) /\ Cardinality(D) \in Nat /\ Cardinality(I) \in Nat
      /\ Cardinality(H) \in Nat /\ Cardinality(K) \in Nat
  <2>1. IsFiniteSet(D)
    BY FS_Subset
  <2> QED
    BY <2>1, FS_CardinalityType
<1>2. ASSUME NEW A, NEW B, IsFiniteSet(A), IsFiniteSet(B), Cardinality(A) <= Cardinality(B),
             B \subseteq H, B \subseteq K, J \subseteq A \cup D
      PROVE  IsFiniteSet(J) /\ Cardinality(J) <= Cardinality(K)
  <2>0. Cardinality(A) \in Nat /\ Cardinality(B) \in Nat
    BY <1>2, FS_CardinalityType
  <2>1. IsFiniteSet(A \cup D) /\ Cardinality(A \cup D) <= Cardinality(A) + Cardinality(D)
    <3>1. /\ IsFiniteSet(A \cup D)
          /\ Cardinality(A \cup D) = Cardinality(A) + Cardinality(D) - Cardinality(A \cap D)
      BY <1>1, <1>2, FS_Union
    <3>2. IsFiniteSet(A \cap D)
      BY <1>2, FS_Intersection
    <3>3. Cardinality(A \cap D) \in Nat
      BY <3>2, FS_CardinalityType
    <3> QED
      BY <1>1, <2>0, <3>1, <3>3
  <2>2. Cardinality(B \cup D) = Cardinality(B) + Cardinality(D) /\ IsFiniteSet(B \cup D)
    <3>1. B \cap D = {}
      BY <1>2
    <3>2. Cardinality(B \cap D) = 0
      BY <3>1, FS_EmptySet
    <3>3. /\ IsFiniteSet(B \cup D)
          /\ Cardinality(B \cup D) = Cardinality(B) + Cardinality(D) - Cardinality(B \cap D)
      BY <1>1, <1>2, FS_Union
    <3> QED
      BY <1>1, <2>0, <3>2, <3>3
  <2>3. B \cup D \in SUBSET K
    BY <1>2
  <2>4. Cardinality(B \cup D) <= Cardinality(K)
    BY <2>3, FS_Subset
  <2>5. IsFiniteSet(J) /\ Cardinality(J) <= Cardinality(A \cup D)
    <3>1. J \in SUBSET (A \cup D)
      BY <1>2
    <3> QED
      BY <2>1, <3>1, FS_Subset
  <2>6. Cardinality(J) \in Nat /\ Cardinality(A \cup D) \in Nat
    BY <2>1, <2>5, FS_CardinalityType
  <2> QED
    BY <1>1, <1>2, <2>0, <2>1, <2>2, <2>4, <2>5, <2>6
<1>3. CASE J \subseteq I \cup D /\ H \subseteq K
  BY <1>2, <1>3
<1>4. ASSUME NEW r \in I, NEW x \in H, J \subseteq (I \ {r}) \cup D, H \ {x} \subseteq K
      PROVE  IsFiniteSet(J) /\ Cardinality(J) <= Cardinality(K)
  <2>1. IsFiniteSet(I \ {r}) /\ Cardinality(I \ {r}) = Cardinality(I) - 1
    BY FS_RemoveElement
  <2>2. IsFiniteSet(H \ {x}) /\ Cardinality(H \ {x}) = Cardinality(H) - 1
    BY FS_RemoveElement
  <2>3. Cardinality(I \ {r}) <= Cardinality(H \ {x})
    BY <1>1, <2>1, <2>2
  <2> DEFINE A == I \ {r}
             B == H \ {x}
  <2>4. B \subseteq H /\ B \subseteq K /\ J \subseteq A \cup D
    BY <1>4
  <2> QED
    BY <1>2, <2>1, <2>2, <2>3, <2>4
<1> QED
  BY <1>3, <1>4

\* When one who waits has been let in.
LEMMA WaitingStays ==
    ASSUME LifeInv, NEW t \in Queues, NEW s, Counter(s) = t, s \in Waiting, s \notin Waiting'
    PROVE  \E x \in Queued(t) : x \notin Queued(t)' /\ x.run = s
BY WaitingTold DEF LifeInv, QueuesAgree

\* A queue the step does not touch.
LEMMA UntouchedPlaces ==
    ASSUME LifeInv, NEW t \in Queues, Placed(t),
           capacity'[t] = capacity[t], queue'[t] = queue[t], holders'[t] = holders[t],
           \A s \in Runs : Counter(s)' = t /\ (At(run'[s]) \/ run'[s].pc = "throttled") =>
              /\ Counter(s) = t
              /\ \/ At(run'[s]) /\ s \in Inside(t)
                 \/ run'[s].pc = "throttled" /\ run[s].pc = "throttled",
           CancelsAgree(t)'
    PROVE  Placed(t)'
<1>1. Queued(t)' = Queued(t)
  BY DEF Queued
<1>2. Inside(t)' \subseteq Inside(t)
  <2> SUFFICES ASSUME NEW s \in Inside(t)' PROVE s \in Inside(t)
    OBVIOUS
  <2>1. s \in Runs /\ Counter(s)' = t
        /\ (At(run'[s]) \/ (run'[s].pc = "throttled" /\ s \notin Waiting'))
    BY DEF Inside
  <2>2. CASE s \notin Inside(t)
    <3>1. Counter(s) = t /\ run'[s].pc = "throttled" /\ run[s].pc = "throttled" /\ s \notin Waiting'
      BY <2>1, <2>2 DEF At
    <3>2. s \notin Waiting
      BY <1>1, <3>1, WaitingStays
    <3> QED
      BY <2>1, <3>1, <3>2 DEF Inside
  <2> QED
    BY <2>2
<1>3. IsFiniteSet(Inside(t)) /\ Cardinality(Inside(t)) <= Cardinality(holders[t])
      /\ IsFiniteSet(holders[t])
  BY DEF Placed, LifeInv, IInv, InOnePlace
<1>4. IsFiniteSet(Inside(t)') /\ Cardinality(Inside(t)') <= Cardinality(holders'[t])
  BY <1>2, <1>3, PlacesCount
<1> QED
  BY <1>4 DEF Placed, NotOverdrawn

\* Engines stay with the runs of their execution.
LEMMA EnginesStay ==
    ASSUME run \in AllRuns, EnginesAgree,
           \A s \in Runs : /\ run'[s].exec = run[s].exec /\ run'[s].engine = run[s].engine
                           /\ run'[s].pc \notin Over => run[s].pc \notin Over
    PROVE  EnginesAgree'
<1>1. \A s \in Runs : run[s].engine \in Runs \cup {NoRun}
  BY DEF AllRuns, RunRecords
<1> QED
  BY <1>1 DEF EnginesAgree

\* A run that is begun is nobody's engine.
LEMMA EnginesStayFree ==
    ASSUME run \in AllRuns, EnginesAgree, NEW r \in Runs, Free(r), NEW e, NEW at, NEW responds,
           Enters(r, e, at, responds)
    PROVE  EnginesAgree'
<1>1. \A s \in Runs : run[s].engine \in Runs \cup {NoRun}
  BY DEF AllRuns, RunRecords
<1>2. ASSUME NEW s \in Runs, run'[s].pc \notin Over, run'[s].engine # NoRun
      PROVE  run'[run'[s].engine].exec = run'[s].exec
  <2>1. s # r /\ run'[s] = run[s]
    BY <1>2 DEF Enters
  <2>2. run[s].engine # r /\ run[s].engine \in Runs
    BY <1>1, <1>2, <2>1 DEF Free
  <2>3. run'[run[s].engine] = run[run[s].engine]
    BY <2>2 DEF Enters
  <2> QED
    BY <1>2, <2>1, <2>3 DEF EnginesAgree
<1> QED
  BY <1>2 DEF EnginesAgree

\* A step that does not call the limiter.
LEMMA QuietPlaces ==
    ASSUME LifeInv, PlaceInv, UNCHANGED <<isEnabled, capacity, queue, holders, crashes>>,
           \A s \in Runs :
              /\ run'[s].exec = run[s].exec /\ run'[s].engine = run[s].engine
              /\ run'[s].timeout => run[s].timeout
              /\ run'[s].cancelled = run[s].cancelled
              /\ At(run'[s]) => At(run[s]) \/ (run[s].pc = "throttled" /\ s \notin Waiting)
              /\ run'[s].pc = "throttled" => run[s].pc = "throttled"
              /\ run'[s].pc \notin Over => run[s].pc \notin Over
              /\ run'[s].pc # "unused" => run[s].pc # "unused",
           \A e \in Executions : \A s \in Runs :
              active'[e] = s /\ run[s].cancelled => active[e] = s
    PROVE  PlaceInv'
<1>1. run \in AllRuns /\ \A s \in Runs : run[s].pc # "unused" => run[s].exec \in Executions
  BY DEF LifeInv, LifeTypeOK, AllRuns, RunsAgree
<1>2. EnginesAgree'
  BY <1>1, EnginesStay DEF PlaceInv
<1>3. ASSUME isEnabled, NEW t \in Queues, Undisturbed(t)
      PROVE  Placed(t)'
  <2>1. Placed(t)
    BY <1>3 DEF PlaceInv
  <2>2. CancelsAgree(t)'
    <3> SUFFICES ASSUME NEW s \in Runs, run'[s].pc # "unused", Counter(s)' = t
                 PROVE  /\ run'[s].timeout => run'[s].exec \in HasTimeout /\ run'[s].engine = s
                        /\ run'[s].cancelled =>
                              run'[s].exec \in HasTimeout /\ active'[run'[s].exec] # s
      BY DEF CancelsAgree
    <3>1. run[s].pc # "unused" /\ Counter(s) = t /\ run[s].exec \in Executions
      BY <1>1 DEF Counter
    <3> QED
      BY <2>1, <3>1 DEF Placed, CancelsAgree
  <2>3. \A s \in Runs : Counter(s)' = Counter(s)
    BY DEF Counter
  <2>4. ASSUME NEW s \in Runs, Counter(s)' = t, At(run'[s]) \/ run'[s].pc = "throttled"
        PROVE  /\ Counter(s) = t
               /\ \/ At(run'[s]) /\ s \in Inside(t)
                  \/ run'[s].pc = "throttled" /\ run[s].pc = "throttled"
    BY <2>3, <2>4 DEF Inside
  <2> QED
    BY <2>1, <2>2, <2>4, UntouchedPlaces
<1>4. \A t \in Queues : Undisturbed(t)' => Undisturbed(t)
  BY DEF Undisturbed
<1> QED
  BY <1>2, <1>3, <1>4 DEF PlaceInv

\* The steps of a run between its being let through and its end.
LEMMA MovesPlaces ==
    ASSUME LifeInv, PlaceInv, UNCHANGED <<isEnabled, capacity, queue, holders, crashes>>,
           NEW r \in Runs, NEW p \in {"added", "checked", "engine", "saving", "saved", "done"},
           Moves(r, p),
           At(run[r]) \/ run[r].cancelled \/ (run[r].pc = "throttled" /\ r \notin Waiting),
           run[r].pc \notin Over,
           \A e \in Executions : \A s \in Runs :
              active'[e] = s /\ run[s].cancelled => active[e] = s
    PROVE  PlaceInv'
<1>1. \A s \in Runs :
         /\ run'[s].exec = run[s].exec /\ run'[s].engine = run[s].engine
         /\ run'[s].timeout => run[s].timeout
         /\ run'[s].cancelled = run[s].cancelled
         /\ At(run'[s]) => At(run[s]) \/ (run[s].pc = "throttled" /\ s \notin Waiting)
         /\ run'[s].pc = "throttled" => run[s].pc = "throttled"
         /\ run'[s].pc \notin Over => run[s].pc \notin Over
         /\ run'[s].pc # "unused" => run[s].pc # "unused"
  BY DEF Moves, Same, At, Over
<1> QED
  BY <1>1, QuietPlaces

\* A run is let in, or waits.
LEMMA ThrottlePlaces ==
    ASSUME LifeInv, IInv', PlaceInv, NEW r \in Runs, NEW e \in Executions,
           r \notin Waiting \cup Holding, Throttle(r, e), UNCHANGED crashes,
           run'[r].exec = e, run'[r].pc = "throttled",
           \A s \in Runs : s # r => /\ run'[s].exec = run[s].exec /\ run'[s].pc = run[s].pc
                                    /\ run'[s].cancelled = run[s].cancelled,
           \A t \in Queues : CancelsAgree(t) => CancelsAgree(t)', EnginesAgree'
    PROVE  PlaceInv'
<1>1. /\ isEnabled' = isEnabled
      /\ \A t \in Queues : Queued(t) \subseteq Queued(t)' /\ holders[t] \subseteq holders'[t]
      /\ isEnabled /\ QueueOf(Mode[e]) \in Queues /\ r \notin Waiting' =>
            r \in holders'[QueueOf(Mode[e])]
  BY ThrottleMoves DEF LifeInv
<1>2. ASSUME isEnabled, NEW t \in Queues, Undisturbed(t)
      PROVE  Placed(t)'
  <2>1. Placed(t) /\ CancelsAgree(t)'
    BY <1>2 DEF PlaceInv, Placed
  <2>2. CASE t # QueueOf(Mode[e])
    <3>1. /\ capacity'[t] = capacity[t] /\ queue'[t] = queue[t] /\ holders'[t] = holders[t]
      BY <2>2, OthersStay DEF LifeInv
    <3>2. ASSUME NEW s \in Runs, Counter(s)' = t, At(run'[s]) \/ run'[s].pc = "throttled"
          PROVE  /\ Counter(s) = t
                 /\ \/ At(run'[s]) /\ s \in Inside(t)
                    \/ run'[s].pc = "throttled" /\ run[s].pc = "throttled"
      BY <2>2, <3>2 DEF Inside, Counter, At
    <3> QED
      BY <2>1, <3>1, <3>2, UntouchedPlaces
  <2>3. CASE t = QueueOf(Mode[e])
    <3>1. NotOverdrawn(t)'
      BY <2>1, OverdraftStays DEF LifeInv, Placed
    <3>2. r \notin holders[t]
      BY LimiterTyped DEF LifeInv
    <3>3. ASSUME NEW s \in Inside(t)', s # r PROVE s \in Inside(t)
      <4>1. /\ s \in Runs /\ Counter(s) = t
            /\ At(run[s]) \/ (run[s].pc = "throttled" /\ s \notin Waiting')
        BY <3>3 DEF Inside, Counter, At
      <4>2. CASE run[s].pc = "throttled" /\ s \notin Waiting'
        <5>1. s \notin Waiting
          BY <1>1, <4>1, <4>2, WaitingStays
        <5> QED
          BY <4>1, <4>2, <5>1 DEF Inside
      <4> QED
        BY <4>1, <4>2 DEF Inside
    <3>4. r \in Inside(t)' => r \in holders'[t]
      BY <1>1, <1>2, <2>3 DEF Inside, At
    <3>5. Inside(t)' \subseteq Inside(t) \cup (holders'[t] \ holders[t])
      BY <3>2, <3>3, <3>4
    <3>6. /\ IsFiniteSet(Inside(t)) /\ Cardinality(Inside(t)) <= Cardinality(holders[t])
          /\ IsFiniteSet(holders[t]) /\ IsFiniteSet(holders'[t])
      BY <2>1 DEF Placed, LifeInv, IInv, InOnePlace
    <3>7. IsFiniteSet(Inside(t)') /\ Cardinality(Inside(t)') <= Cardinality(holders'[t])
      BY <1>1, <3>5, <3>6, PlacesCount
    <3> QED
      BY <2>1, <3>1, <3>7 DEF Placed
  <2> QED
    BY <2>2, <2>3
<1>3. \A t \in Queues : Undisturbed(t)' => Undisturbed(t)
  BY DEF Undisturbed
<1> QED
  BY <1>1, <1>2, <1>3 DEF PlaceInv

\* A place is handed over as a run comes to its end.
LEMMA ReleasePlaces ==
    ASSUME LifeInv, IInv', PlaceInv, NEW x \in Runs, NEW e \in Executions, Release(x, e),
           UNCHANGED crashes,
           isEnabled /\ QueueOf(Mode[e]) \in Queues => x \in holders[QueueOf(Mode[e])],
           \A s \in Runs : /\ run'[s].exec = run[s].exec
                           /\ At(run'[s]) => At(run[s])
                           /\ run'[s].pc = "throttled" => run[s].pc = "throttled",
           isEnabled /\ QueueOf(Mode[e]) \in Queues /\ Undisturbed(QueueOf(Mode[e])) =>
              \E r \in Inside(QueueOf(Mode[e])) : ~At(run'[r]) /\ run'[r].pc # "throttled",
           \A t \in Queues : isEnabled /\ Undisturbed(t) => CancelsAgree(t)', EnginesAgree'
    PROVE  PlaceInv'
<1>1. /\ isEnabled' = isEnabled
      /\ \A t \in Queues : /\ holders[t] \ {x} \subseteq holders'[t]
                           /\ \A y \in Queued(t) : y \notin Queued(t)' => y.run \in holders'[t]
  BY ReleaseMoves DEF LifeInv
<1>2. ASSUME isEnabled, NEW t \in Queues, Undisturbed(t)
      PROVE  Placed(t)'
  <2>1. Placed(t) /\ CancelsAgree(t)'
    BY <1>2 DEF PlaceInv
  <2>2. CASE t # QueueOf(Mode[e])
    <3>1. /\ capacity'[t] = capacity[t] /\ queue'[t] = queue[t] /\ holders'[t] = holders[t]
      BY <2>2, OthersStay DEF LifeInv
    <3>2. ASSUME NEW s \in Runs, Counter(s)' = t, At(run'[s]) \/ run'[s].pc = "throttled"
          PROVE  /\ Counter(s) = t
                 /\ \/ At(run'[s]) /\ s \in Inside(t)
                    \/ run'[s].pc = "throttled" /\ run[s].pc = "throttled"
      BY <3>2 DEF Inside, Counter
    <3> QED
      BY <2>1, <3>1, <3>2, UntouchedPlaces
  <2>3. CASE t = QueueOf(Mode[e])
    <3>1. NotOverdrawn(t)'
      BY <2>1, OverdraftStays DEF LifeInv, Placed
    <3>2. PICK r \in Inside(t) : ~At(run'[r]) /\ run'[r].pc # "throttled"
      BY <1>2, <2>3
    <3>3. x \in holders[t]
      BY <1>2, <2>3
    <3>4. \A y \in Queued(t) : y.run \notin holders[t]
      BY DEF LifeInv, IInv, InOnePlace, RunsIn, Queued
    <3>5. ASSUME NEW s \in Inside(t)', s \notin Inside(t)
          PROVE  s \in holders'[t] /\ s \notin holders[t]
      <4>1. s \in Runs /\ Counter(s) = t /\ run[s].pc = "throttled" /\ s \notin Waiting'
        BY <3>5 DEF Inside, Counter
      <4>2. s \in Waiting
        BY <3>5, <4>1 DEF Inside
      <4>3. PICK y \in Queued(t) : y \notin Queued(t)' /\ y.run = s
        BY <4>1, <4>2, WaitingStays
      <4> QED
        BY <1>1, <3>4, <4>3
    <3>6. r \notin Inside(t)'
      BY <3>2 DEF Inside
    <3>7. /\ Inside(t)' \subseteq (Inside(t) \ {r}) \cup (holders'[t] \ holders[t])
          /\ holders[t] \ {x} \subseteq holders'[t]
      BY <1>1, <3>5, <3>6
    <3>8. /\ IsFiniteSet(Inside(t)) /\ Cardinality(Inside(t)) <= Cardinality(holders[t])
          /\ IsFiniteSet(holders[t]) /\ IsFiniteSet(holders'[t])
      BY <2>1 DEF Placed, LifeInv, IInv, InOnePlace
    <3>9. IsFiniteSet(Inside(t)') /\ Cardinality(Inside(t)') <= Cardinality(holders'[t])
      BY SMTT(30), <3>2, <3>3, <3>7, <3>8, PlacesCount
    <3> QED
      BY <2>1, <3>1, <3>9 DEF Placed
  <2> QED
    BY <2>2, <2>3
<1>3. \A t \in Queues : Undisturbed(t)' => Undisturbed(t)
  BY DEF Undisturbed
<1> QED
  BY <1>1, <1>2, <1>3 DEF PlaceInv

\* The steps of a run that do not call the limiter.
LEMMA RunStepPlaces ==
    ASSUME LifeInv, RowInv, PlaceInv, NEW r \in Runs,
           \/ Register(r) \/ PassCredentials(r) \/ DenyCredentials(r)
           \/ EngineStep(r) \/ EngineStops(r) \/ EngineSaves(r)
    PROVE  PlaceInv'
<1>1. /\ run \in AllRuns /\ active \in [Executions -> Runs \cup {NoRun}]
      /\ UNCHANGED <<isEnabled, capacity, queue, holders, crashes>>
  BY DEF LifeInv, LifeTypeOK, AllRuns, EngineStep, Register, PassCredentials, DenyCredentials,
     EngineEnds, EngineWaits, EngineStops, EngineSaves, limiter, process, lifecycle
<1>2. CASE Register(r)
  <2>1. Moves(r, "added") /\ run[r].pc = "throttled" /\ r \notin Waiting
    BY <1>1, <1>2, RegisterMoves DEF Register
  <2>2. ~run[r].cancelled /\ active' = [active EXCEPT ![run[r].exec] = r]
    BY <1>2, <2>1 DEF RowInv, NotCancelledYet, Register
  <2> QED
    BY SMTT(30), <1>1, <2>1, <2>2, MovesPlaces DEF Over
<1>3. CASE PassCredentials(r)
  <2>1. run[r].pc = "added" /\ active' = active
    BY <1>3 DEF PassCredentials
  <2>2. Moves(r, "checked") \/ Moves(r, "done")
    BY <1>1, <1>3, PassCredentialsMoves
  <2> QED
    BY <1>1, <2>1, <2>2, MovesPlaces DEF Over, At
<1>4. CASE DenyCredentials(r)
  <2>1. run[r].pc = "added" /\ active' = active /\ Moves(r, "saving")
    BY <1>1, <1>4, DenyCredentialsMoves DEF DenyCredentials
  <2> QED
    BY <1>1, <2>1, MovesPlaces DEF Over, At
<1>5. CASE EngineStep(r)
  <2>1. run[r].pc = "engine" /\ active' = active /\ Moves(r, "saving")
    BY <1>1, <1>5, EngineEndsMoves DEF EngineStep, EngineEnds, EngineWaits
  <2> QED
    BY SMTT(30), <1>1, <2>1, MovesPlaces DEF Over, At
<1>6. CASE EngineStops(r) \/ EngineSaves(r)
  <2>1. run[r].pc \in {"engine", "saving"} /\ active' = active /\ Moves(r, "saved")
    BY <1>1, <1>6, EngineStopsMoves DEF EngineStops, EngineSaves
  <2> QED
    BY <1>1, <2>1, MovesPlaces DEF Over, At
<1> QED
  BY <1>2, <1>3, <1>4, <1>5, <1>6

\* What an undisturbed queue says of an execution that has a timeout.
LEMMA TimeoutMeetsOneRun ==
    ASSUME LifeInv, NEW r \in Runs, run[r].pc # "unused", run[r].exec \in HasTimeout,
           Undisturbed(Counter(r))
    PROVE  \A s \in Runs : run[s].pc # "unused" /\ run[s].exec = run[r].exec => s = r
<1>1. run[r].exec \in Executions
  BY DEF LifeInv, RunsAgree
<1>2. run[r].exec \notin MayWait /\ crashes = 0
  BY <1>1 DEF Undisturbed, Counter
<1> QED
  BY <1>2 DEF LifeInv, OneRunEach

\* The engine starts in the place its run was given.
LEMMA StartEnginePlaces ==
    ASSUME LifeInv, RowInv, PlaceInv, NEW r \in Runs, StartEngine(r)
    PROVE  PlaceInv'
<1> DEFINE e == run[r].exec
           x == active[e]
<1>1. /\ run \in AllRuns /\ run[r].pc = "checked" /\ e \in Executions /\ x \in Runs \cup {NoRun}
      /\ UNCHANGED <<isEnabled, capacity, queue, holders, crashes, active>>
      /\ x # NoRun => run[x].exec = e /\ run[x].pc # "unused"
  BY DEF LifeInv, LifeTypeOK, AllRuns, RunsAgree, EntriesAgree, EntryAgrees, StartEngine,
     limiter, lifecycle
<1>2. /\ \A s \in Runs : /\ SameButTimeout(run'[s], run[s])
                         /\ run'[s].pc = (IF s = r THEN "engine" ELSE run[s].pc)
                         /\ run'[s].engine = (IF s = x THEN r ELSE run[s].engine)
                         /\ s # r => run'[s].timeout = run[s].timeout
      /\ run'[r].timeout => x # NoRun /\ e \in HasTimeout
  BY <1>1, StartEngineMoves
<1> HIDE DEF e, x
<1>3. EnginesAgree'
  <2>1. \A s \in Runs : run[s].engine \in Runs \cup {NoRun}
    BY <1>1 DEF AllRuns, RunRecords
  <2>2. ASSUME NEW s \in Runs, run'[s].pc \notin Over, run'[s].engine # NoRun
        PROVE  run'[run'[s].engine].exec = run'[s].exec
    <3>1. run'[s].exec = run[s].exec /\ run[s].pc \notin Over
      BY <1>1, <1>2, <2>2 DEF SameButTimeout, Over
    <3>2. CASE s = x
      <4>1. run'[s].engine = r /\ run[s].exec = e /\ run'[r].exec = e
        BY <1>1, <1>2, <3>2, NoRunAssumption DEF SameButTimeout, e
      <4> QED
        BY <3>1, <4>1
    <3>3. CASE s # x
      <4>1. run'[s].engine = run[s].engine /\ run[s].engine \in Runs
        BY <1>2, <2>1, <2>2, <3>3
      <4> QED
        BY <1>2, <2>2, <3>1, <4>1 DEF PlaceInv, EnginesAgree, SameButTimeout
    <3> QED
      BY <3>2, <3>3
  <2> QED
    BY <2>2 DEF EnginesAgree
<1>4. ASSUME isEnabled, NEW t \in Queues, Undisturbed(t)
      PROVE  Placed(t)'
  <2>1. Placed(t)
    BY <1>4 DEF PlaceInv
  <2>2. \A s \in Runs : Counter(s)' = Counter(s) /\ (run'[s].pc # "unused" => run[s].pc # "unused")
    BY <1>1, <1>2 DEF Counter, SameButTimeout
  <2>3. ASSUME NEW s \in Runs, run'[s].pc # "unused", Counter(s)' = t, run'[s].timeout
        PROVE  run'[s].exec \in HasTimeout /\ run'[s].engine = s
    <3>1. /\ run[s].pc # "unused" /\ Counter(s) = t /\ run'[s].exec = run[s].exec
          /\ s # r => run[s].timeout
      BY <1>2, <2>2, <2>3 DEF SameButTimeout
    <3>2. run[s].exec \in HasTimeout /\ (s # r => run[s].engine = s)
      BY <1>2, <2>1, <2>3, <3>1 DEF Placed, CancelsAgree, e
    <3>3. \A u \in Runs : run[u].pc # "unused" /\ run[u].exec = run[s].exec => u = s
      BY <1>4, <3>1, <3>2, TimeoutMeetsOneRun
    <3>4. CASE s = r
      BY <1>1, <1>2, <2>3, <3>1, <3>2, <3>3, <3>4 DEF e
    <3>5. CASE s # r
      <4>1. s # x
        BY <1>1, <3>1, <3>3, <3>5, NoRunAssumption DEF e
      <4> QED
        BY <1>2, <3>1, <3>2, <3>5, <4>1
    <3> QED
      BY <3>4, <3>5
  <2>4. CancelsAgree(t)'
    BY <1>1, <1>2, <2>1, <2>2, <2>3 DEF CancelsAgree, Placed, SameButTimeout
  <2>5. ASSUME NEW s \in Runs, Counter(s)' = t, At(run'[s]) \/ run'[s].pc = "throttled"
        PROVE  /\ Counter(s) = t
               /\ \/ At(run'[s]) /\ s \in Inside(t)
                  \/ run'[s].pc = "throttled" /\ run[s].pc = "throttled"
    BY <1>1, <1>2, <2>2, <2>5 DEF Inside, At, SameButTimeout
  <2> QED
    BY <1>1, <2>1, <2>4, <2>5, UntouchedPlaces
<1>5. \A t \in Queues : Undisturbed(t)' => Undisturbed(t)
  BY <1>1 DEF Undisturbed
<1> QED
  BY <1>1, <1>3, <1>4, <1>5 DEF PlaceInv

\* A new run asks for a place.
LEMMA ThrottleNewPlaces ==
    ASSUME LifeInv, IInv', RowInv, PlaceInv, NEW r \in Runs, ThrottleNew(r)
    PROVE  PlaceInv'
<1>1. /\ run \in AllRuns /\ run[r].pc = "created" /\ run[r].exec \in Executions
      /\ UNCHANGED <<active, crashes>> /\ Throttle(r, run[r].exec)
  BY DEF LifeInv, LifeTypeOK, RunsAgree, AllRuns, ThrottleNew, lifecycle
<1>2. Moves(r, "throttled")
  BY <1>1, ThrottleNewMoves
<1>3. r \notin Waiting \cup Holding
  BY <1>1, LimiterTyped DEF LifeInv, QueuesAgree, PlacesAgree
<1>4. \A t \in Queues : CancelsAgree(t) => CancelsAgree(t)'
  BY <1>1, <1>2 DEF CancelsAgree, Counter, Moves, Same
<1>5. EnginesAgree'
  BY <1>1, <1>2, EnginesStay DEF PlaceInv, Moves, Same, Over
<1>6. /\ run'[r].exec = run[r].exec /\ run'[r].pc = "throttled"
      /\ \A s \in Runs : s # r => /\ run'[s].exec = run[s].exec /\ run'[s].pc = run[s].pc
                                  /\ run'[s].cancelled = run[s].cancelled
  BY <1>2 DEF Moves, Same
<1> QED
  BY <1>1, <1>3, <1>4, <1>5, <1>6, ThrottlePlaces

\* So does one of an existing execution.
LEMMA RunExistingPlaces ==
    ASSUME LifeInv, IInv', PlaceInv, NEW r \in Runs, NEW e \in Executions, NEW responds,
           RunExisting(r, e, responds), UNCHANGED crashes
    PROVE  PlaceInv'
<1>1. run \in AllRuns /\ Free(r) /\ UNCHANGED active /\ Throttle(r, e)
  BY DEF LifeInv, LifeTypeOK, AllRuns, RunExisting
<1>2. Enters(r, e, "throttled", responds)
  BY <1>1, RunExistingEnters
<1>3. r \notin Waiting \cup Holding
  BY <1>1, LimiterTyped DEF LifeInv, QueuesAgree, Free, Over
<1>4. \A t \in Queues : CancelsAgree(t) => CancelsAgree(t)'
  <2> SUFFICES ASSUME NEW t \in Queues, CancelsAgree(t), NEW s \in Runs,
                      run'[s].pc # "unused", Counter(s)' = t
               PROVE  /\ run'[s].timeout => run'[s].exec \in HasTimeout /\ run'[s].engine = s
                      /\ run'[s].cancelled =>
                            run'[s].exec \in HasTimeout /\ active'[run'[s].exec] # s
    BY DEF CancelsAgree
  <2>1. CASE s = r
    BY <1>2, <2>1 DEF Enters
  <2>2. CASE s # r
    BY <1>1, <1>2, <2>2 DEF Enters, CancelsAgree, Counter
  <2> QED
    BY <2>1, <2>2
<1>5. EnginesAgree'
  BY <1>1, <1>2, EnginesStayFree DEF PlaceInv
<1>6. /\ run'[r].exec = e /\ run'[r].pc = "throttled"
      /\ \A s \in Runs : s # r => /\ run'[s].exec = run[s].exec /\ run'[s].pc = run[s].pc
                                  /\ run'[s].cancelled = run[s].cancelled
  BY <1>2 DEF Enters
<1> QED
  BY <1>1, <1>3, <1>4, <1>5, <1>6, ThrottlePlaces

\* A run that has not asked has no place.
LEMMA CreatePlaces ==
    ASSUME LifeInv, PlaceInv, NEW r \in Runs, NEW e \in Executions, Create(r, e)
    PROVE  PlaceInv'
<1>1. /\ run \in AllRuns /\ Free(r)
      /\ UNCHANGED <<isEnabled, capacity, queue, holders, crashes, active>>
  BY DEF LifeInv, LifeTypeOK, AllRuns, Create, limiter, process
<1> DEFINE responds == e \in Responding
<1>2. Enters(r, e, "created", responds)
  BY <1>1, CreateEnters
<1> HIDE DEF responds
<1>3. EnginesAgree'
  BY <1>1, <1>2, EnginesStayFree DEF PlaceInv
<1>4. ASSUME isEnabled, NEW t \in Queues, Undisturbed(t)
      PROVE  Placed(t)'
  <2>1. Placed(t)
    BY <1>4 DEF PlaceInv
  <2>2. CancelsAgree(t)'
    <3> SUFFICES ASSUME NEW s \in Runs, run'[s].pc # "unused", Counter(s)' = t
                 PROVE  /\ run'[s].timeout => run'[s].exec \in HasTimeout /\ run'[s].engine = s
                        /\ run'[s].cancelled =>
                              run'[s].exec \in HasTimeout /\ active'[run'[s].exec] # s
      BY DEF CancelsAgree
    <3>1. CASE s = r
      BY <1>2, <3>1 DEF Enters
    <3>2. CASE s # r
      BY <1>1, <1>2, <2>1, <3>2 DEF Enters, Placed, CancelsAgree, Counter
    <3> QED
      BY <3>1, <3>2
  <2>3. ASSUME NEW s \in Runs, Counter(s)' = t, At(run'[s]) \/ run'[s].pc = "throttled"
        PROVE  /\ Counter(s) = t
               /\ \/ At(run'[s]) /\ s \in Inside(t)
                  \/ run'[s].pc = "throttled" /\ run[s].pc = "throttled"
    <3>1. s # r /\ run'[s] = run[s]
      BY <1>2, <2>3 DEF Enters, At
    <3> QED
      BY <2>3, <3>1 DEF Inside, Counter
  <2> QED
    BY <1>1, <2>1, <2>2, <2>3, UntouchedPlaces
<1>5. \A t \in Queues : Undisturbed(t)' => Undisturbed(t)
  BY <1>1 DEF Undisturbed
<1> QED
  BY <1>1, <1>3, <1>4, <1>5 DEF PlaceInv

\* The end of an engine settles the promise of the entry under its execution's id.
LEMMA FinalizePlaces ==
    ASSUME LifeInv, IInv', PlaceInv, NEW r \in Runs, Finalize(r)
    PROVE  PlaceInv'
<1> DEFINE e == run[r].exec
           x == active[e]
<1>1. /\ run \in AllRuns /\ run[r].pc = "saved" /\ e \in Executions /\ x \in Runs \cup {NoRun}
      /\ active \in [Executions -> Runs \cup {NoRun}]
      /\ active' = active \/ active' = [active EXCEPT ![e] = NoRun]
      /\ UNCHANGED crashes
      /\ x # NoRun => /\ run[x].exec = e /\ run[x].pc # "unused"
                      /\ isEnabled /\ ~run[x].settled /\ Counter(x) \in Queues =>
                            x \in holders[Counter(x)]
  BY DEF LifeInv, LifeTypeOK, AllRuns, RunsAgree, EntriesAgree, EntryAgrees, Finalize, process
<1>2. Moves(r, "done")
  BY <1>1, FinalizeMoves
<1>3. CASE UNCHANGED limiter
  <2>1. \A d \in Executions : \A s \in Runs :
           active'[d] = s /\ run[s].cancelled => active[d] = s
    BY <1>1, NoRunAssumption
  <2> QED
    BY <1>1, <1>2, <1>3, <2>1, MovesPlaces DEF limiter, At, Over
<1>4. CASE x # NoRun /\ ~run[x].settled /\ Release(x, e)
  <2>1. EnginesAgree'
    BY <1>1, <1>2, EnginesStay DEF PlaceInv, Moves, Same, Over
  <2>2. \A t \in Queues : isEnabled /\ Undisturbed(t) => CancelsAgree(t)'
    <3> SUFFICES ASSUME NEW t \in Queues, CancelsAgree(t) PROVE CancelsAgree(t)'
      BY DEF PlaceInv, Placed
    <3>1. \A s \in Runs : run[s].pc # "unused" => run[s].exec \in Executions
      BY DEF LifeInv, RunsAgree
    <3>2. \A d \in Executions : active'[d] = active[d] \/ active'[d] = NoRun
      BY <1>1
    <3>3. \A s \in Runs : run'[s].pc # "unused" => run[s].pc # "unused"
      BY <1>1, <1>2 DEF Moves
    <3> QED
      BY <1>2, <3>1, <3>2, <3>3, NoRunAssumption DEF CancelsAgree, Counter, Moves, Same
  <2>3. ASSUME isEnabled, QueueOf(Mode[e]) \in Queues, Undisturbed(QueueOf(Mode[e]))
        PROVE  \E s \in Inside(QueueOf(Mode[e])) : ~At(run'[s]) /\ run'[s].pc # "throttled"
    <3>1. Counter(r) = QueueOf(Mode[e])
      BY DEF Counter
    <3>2. CancelsAgree(Counter(r))
      BY <2>3, <3>1 DEF PlaceInv, Placed
    <3>3. ASSUME run[r].cancelled PROVE FALSE
      <4>1. e \in HasTimeout /\ x # r
        BY <1>1, <3>2, <3>3 DEF CancelsAgree
      <4> QED
        BY <1>1, <1>4, <2>3, <3>1, <4>1, TimeoutMeetsOneRun
    <3>4. r \in Inside(QueueOf(Mode[e]))
      BY <1>1, <3>1, <3>3 DEF Inside, At
    <3>5. run'[r].pc = "done"
      BY <1>2 DEF Moves
    <3> QED
      BY <3>4, <3>5 DEF At
  <2>4. \A s \in Runs : /\ run'[s].exec = run[s].exec
                        /\ At(run'[s]) => At(run[s])
                        /\ run'[s].pc = "throttled" => run[s].pc = "throttled"
    BY <1>1, <1>2 DEF Moves, Same, At
  <2>5. isEnabled /\ QueueOf(Mode[e]) \in Queues => x \in holders[QueueOf(Mode[e])]
    BY <1>1, <1>4 DEF Counter
  <2>6. x \in Runs /\ e \in Executions
    BY <1>1, <1>4
  <2> HIDE DEF x, e
  <2> QED
    BY <1>1, <1>4, <2>1, <2>2, <2>3, <2>4, <2>5, <2>6, ReleasePlaces
<1> QED
  BY <1>3, <1>4 DEF Finalize, limiter

\* Which engine a stop cancels.
LEMMA StopEntryHits ==
    ASSUME NEW runs \in AllRuns, NEW x \in Runs, NEW w \in Runs \cup {NoRun},
           run' = [Cancel(runs, w) EXCEPT ![x].settled = TRUE]
    PROVE  /\ \A s \in Runs : s # w => run'[s].cancelled = runs[s].cancelled
           /\ w # NoRun /\ runs[w].pc \in Cancellable => run'[w].cancelled
<1>1. /\ Cancel(runs, w) \in AllRuns /\ \A s \in Runs : s # w => Cancel(runs, w)[s] = runs[s]
      /\ w # NoRun /\ runs[w].pc \in Cancellable => Cancel(runs, w)[w].cancelled
  BY CancelMoves
<1>2. \A s \in Runs : run'[s].cancelled = Cancel(runs, w)[s].cancelled
  BY <1>1 DEF AllRuns, RunRecords
<1> QED
  BY <1>1, <1>2

\* The entry of e is stopped, by a user or by the timeout of r: unless its queue is one that
\* is disturbed, the run that ends is r itself.
LEMMA StopEntryPlaces ==
    ASSUME LifeInv, IInv', PlaceInv, NEW runs \in AllRuns, NEW e \in Executions,
           StopEntry(e, runs), UNCHANGED crashes,
           \A s \in Runs : /\ Canceled(runs[s], run[s])
                           /\ runs[s].cancelled = run[s].cancelled,
           \/ e \in MayStop
           \/ \E r \in Runs : run[r].exec = e /\ run[r].timeout /\ run[r].pc \in Cancellable
    PROVE  PlaceInv'
<1> DEFINE x == active[e]
           w == run[x].engine
           t == QueueOf(Mode[e])
<1>1. /\ run \in AllRuns /\ active \in [Executions -> Runs \cup {NoRun}]
      /\ \A s \in Runs : run[s].pc # "unused" => run[s].exec \in Executions
      /\ x # NoRun => /\ run[x].exec = e
                      /\ run[x].pc \notin {"unused", "created", "throttled", "removed"}
                      /\ run[x].settled => run[x].status = "waiting"
                      /\ isEnabled /\ ~run[x].settled /\ t \in Queues => x \in holders[t]
                      /\ run[x].pc = "done" => run[x].settled
  BY DEF LifeInv, LifeTypeOK, AllRuns, RunsAgree, EntriesAgree, EntryAgrees, Counter
<1>2. \A s \in Runs : Canceled(run'[s], run[s])
  BY <1>1, StopEntryMoves
<1>3. CASE run' = runs /\ UNCHANGED limiter
  <2>1. \A d \in Executions : \A s \in Runs :
           active'[d] = s /\ run[s].cancelled => active[d] = s
    BY <1>1, NoRunAssumption DEF StopEntry
  <2>2. \A s \in Runs :
           /\ run'[s].exec = run[s].exec /\ run'[s].engine = run[s].engine
           /\ run'[s].timeout => run[s].timeout
           /\ run'[s].cancelled = run[s].cancelled
           /\ At(run'[s]) => At(run[s]) \/ (run[s].pc = "throttled" /\ s \notin Waiting)
           /\ run'[s].pc = "throttled" => run[s].pc = "throttled"
           /\ run'[s].pc \notin Over => run[s].pc \notin Over
           /\ run'[s].pc # "unused" => run[s].pc # "unused"
    BY <1>2, <1>3 DEF Canceled, At
  <2> QED
    BY <1>3, <2>1, <2>2, QuietPlaces DEF limiter
<1>4. CASE /\ x # NoRun /\ run[x].status # "waiting"
           /\ run' = [Cancel(runs, w) EXCEPT ![x].settled = TRUE]
           /\ Release(x, e) /\ active' = [active EXCEPT ![e] = NoRun]
  <2>1. /\ x \in Runs /\ run[x].exec = e /\ run[x].pc \notin Over /\ run[x].pc # "throttled"
        /\ isEnabled /\ t \in Queues => x \in holders[t]
        /\ w \in Runs \cup {NoRun}
    BY <1>1, <1>4 DEF Over, AllRuns, RunRecords
  <2>2. /\ \A s \in Runs : s # w => run'[s].cancelled = run[s].cancelled
        /\ w # NoRun /\ run[w].pc \in Cancellable => run'[w].cancelled
    <3>1. /\ \A s \in Runs : s # w => run'[s].cancelled = runs[s].cancelled
          /\ w # NoRun /\ runs[w].pc \in Cancellable => run'[w].cancelled
      <4> HIDE DEF x, w
      <4> QED
        BY <1>4, <2>1, StopEntryHits
    <3>2. w # NoRun => runs[w].pc = run[w].pc
      BY <2>1 DEF Canceled
    <3> QED
      BY <3>1, <3>2
  <2>3. w # NoRun => run[w].exec = e
    BY <2>1 DEF PlaceInv, EnginesAgree
  <2>4. active'[e] = NoRun /\ \A d \in Executions : active'[d] \in {active[d], NoRun}
    BY <1>1, <1>4
  <2> HIDE DEF x, w, t
  <2>5. /\ EnginesAgree'
        /\ \A s \in Runs : /\ run'[s].exec = run[s].exec
                           /\ At(run'[s]) => At(run[s])
                           /\ run'[s].pc = "throttled" => run[s].pc = "throttled"
    <3>1. \A s \in Runs : /\ run'[s].exec = run[s].exec /\ run'[s].engine = run[s].engine
                          /\ run'[s].pc \notin Over => run[s].pc \notin Over
      BY <1>2 DEF Canceled
    <3>2. EnginesAgree'
      BY <1>1, <3>1, EnginesStay DEF PlaceInv
    <3> QED
      BY <1>2, <3>2 DEF Canceled, At
  \* In the queue of e, only a timeout of its only run.
  <2>6. ASSUME isEnabled, t \in Queues, Undisturbed(t)
        PROVE  e \in HasTimeout /\ x \in Inside(t) /\ ~At(run'[x]) /\ run'[x].pc # "throttled"
               /\ w = x
    <3>0. CancelsAgree(t)
      BY <2>6 DEF PlaceInv, Placed
    <3>1. PICK r \in Runs : run[r].exec = e /\ run[r].timeout /\ run[r].pc \in Cancellable
      BY <2>6 DEF Undisturbed, t
    <3>2. Counter(r) = t /\ run[r].pc # "unused"
      BY <3>1 DEF Counter, t, Cancellable
    <3>3. e \in HasTimeout /\ run[r].engine = r
      BY <3>0, <3>1, <3>2 DEF CancelsAgree
    <3>4. x = r
      <4>1. run[x].pc # "unused"
        BY <2>1 DEF Over
      <4> QED
        BY <2>1, <2>6, <3>1, <3>2, <3>3, <4>1, TimeoutMeetsOneRun
    <3>5. w = x
      BY <3>3, <3>4 DEF w
    <3>6. ~run[x].cancelled
      BY <3>0, <3>1, <3>2, <3>4 DEF CancelsAgree, x
    <3>7. x \in Inside(t)
      BY <3>1, <3>2, <3>4, <3>6 DEF Inside, At, Cancellable
    <3>8. run'[x].cancelled /\ run'[x].pc = run[x].pc
      BY <1>2, <2>1, <2>2, <3>1, <3>4, <3>5, NoRunAssumption DEF Canceled
    <3> QED
      BY <2>1, <3>3, <3>5, <3>7, <3>8 DEF At
  <2>7. ASSUME isEnabled, NEW u \in Queues, Undisturbed(u)
        PROVE  CancelsAgree(u)'
    <3>1. CancelsAgree(u)
      BY <2>7 DEF PlaceInv, Placed
    <3> SUFFICES ASSUME NEW s \in Runs, run'[s].pc # "unused", Counter(s)' = u
                 PROVE  /\ run'[s].timeout => run'[s].exec \in HasTimeout /\ run'[s].engine = s
                        /\ run'[s].cancelled =>
                              run'[s].exec \in HasTimeout /\ active'[run'[s].exec] # s
      BY DEF CancelsAgree
    <3>2. /\ run[s].pc # "unused" /\ Counter(s) = u /\ run'[s].exec = run[s].exec
          /\ run'[s].engine = run[s].engine /\ run[s].exec \in Executions
          /\ run'[s].timeout => run[s].timeout
      BY <1>1, <1>2 DEF Canceled, Counter
    <3>3. CASE s # w
      BY <2>2, <2>4, <3>1, <3>2, <3>3, NoRunAssumption DEF CancelsAgree
    <3>4. CASE s = w
      <4>1. run[s].exec = e /\ u = t
        BY <2>3, <3>2, <3>4, NoRunAssumption DEF t, Counter
      <4> QED
        BY <2>4, <2>6, <2>7, <3>1, <3>2, <4>1, NoRunAssumption DEF CancelsAgree
    <3> QED
      BY <3>3, <3>4
  <2>8. isEnabled /\ t \in Queues /\ Undisturbed(t) =>
           \E s \in Inside(t) : ~At(run'[s]) /\ run'[s].pc # "throttled"
    BY <2>6
  <2> QED
    BY <1>4, <2>1, <2>5, <2>7, <2>8, ReleasePlaces DEF t
<1> QED
  BY <1>3, <1>4 DEF StopEntry

\* A stop disturbs the queue of its execution and no other.
LEMMA StopRunningPlaces ==
    ASSUME LifeInv, IInv', PlaceInv, NEW e \in Executions, StopRunning(e)
    PROVE  PlaceInv'
<1>1. /\ run \in AllRuns /\ e \in MayStop /\ StopEntry(e, run) /\ UNCHANGED crashes
  BY DEF LifeInv, LifeTypeOK, AllRuns, StopRunning, process
<1>2. \A s \in Runs : Canceled(run[s], run[s])
  BY DEF Canceled
<1> QED
  BY <1>1, <1>2, StopEntryPlaces

\* A timeout gives the place of its own run back.
LEMMA TimeOutPlaces ==
    ASSUME LifeInv, IInv', PlaceInv, NEW r \in Runs, TimeOut(r)
    PROVE  PlaceInv'
<1> DEFINE runs == [run EXCEPT ![r].timeout = FALSE]
<1>1. /\ run \in AllRuns /\ run[r].timeout /\ run[r].pc \in Cancellable
      /\ run[r].exec \in Executions /\ StopEntry(run[r].exec, runs) /\ UNCHANGED crashes
  BY DEF LifeInv, LifeTypeOK, AllRuns, RunsAgree, TimeOut, Cancellable, process
<1>2. runs \in AllRuns
  <2> DEFINE b == FALSE
             f == [run EXCEPT ![r].timeout = b]
  <2>1. b \in BOOLEAN
    OBVIOUS
  <2> HIDE DEF b
  <2>2. f \in AllRuns
    BY <1>1, <2>1, SetTimeout
  <2> QED
    BY <2>2 DEF b
<1>3. \A s \in Runs : Canceled(runs[s], run[s]) /\ runs[s].cancelled = run[s].cancelled
  BY <1>1 DEF Canceled, AllRuns, RunRecords
<1> HIDE DEF runs
<1> QED
  BY <1>1, <1>2, <1>3, StopEntryPlaces

\* The queue of an execution that is stopped in the queue is disturbed.
LEMMA StopQueuedPlaces ==
    ASSUME LifeInv, PlaceInv, NEW e \in Executions, StopQueued(e)
    PROVE  PlaceInv'
<1>1. /\ run \in AllRuns /\ e \in MayStop /\ Remove(e) /\ UNCHANGED <<crashes, active>>
      /\ isEnabled' = isEnabled
  BY DEF LifeInv, LifeTypeOK, AllRuns, StopQueued, Remove, process
<1>2. \A s \in Runs :
         /\ Same(run'[s], run[s])
         /\ run'[s].pc = run[s].pc
               \/ (run'[s].pc = "removed" /\ run[s].exec = e /\ run[s].pc = "throttled")
  BY <1>1, StopQueuedMoves, StopQueuedLeaves
<1>3. EnginesAgree'
  BY <1>1, <1>2, EnginesStay DEF PlaceInv, Same, Over
<1>4. ASSUME isEnabled, NEW t \in Queues, Undisturbed(t)
      PROVE  Placed(t)'
  <2>1. Placed(t) /\ t # QueueOf(Mode[e])
    BY <1>1, <1>4 DEF PlaceInv, Undisturbed
  <2>2. capacity'[t] = capacity[t] /\ queue'[t] = queue[t] /\ holders'[t] = holders[t]
    BY <1>1, <2>1, OthersStay DEF LifeInv
  <2>3. CancelsAgree(t)'
    BY <1>1, <1>2, <2>1 DEF CancelsAgree, Placed, Same, Counter
  <2>4. ASSUME NEW s \in Runs, Counter(s)' = t, At(run'[s]) \/ run'[s].pc = "throttled"
        PROVE  /\ Counter(s) = t
               /\ \/ At(run'[s]) /\ s \in Inside(t)
                  \/ run'[s].pc = "throttled" /\ run[s].pc = "throttled"
    BY <1>2, <2>4 DEF Inside, At, Same, Counter
  <2> QED
    BY <2>1, <2>2, <2>3, <2>4, UntouchedPlaces
<1>5. \A t \in Queues : Undisturbed(t)' => Undisturbed(t)
  BY <1>1 DEF Undisturbed
<1> QED
  BY <1>1, <1>3, <1>4, <1>5 DEF PlaceInv

\* A process that starts has given no place away.
LEMMA EmptyPlaces ==
    ASSUME Init', \A s \in Runs : run'[s].pc = "unused"
    PROVE  PlaceInv'
<1>1. EnginesAgree'
  BY DEF EnginesAgree, Over
<1>2. ASSUME NEW t \in Queues PROVE Placed(t)'
  <2>1. capacity'[t] = Limit[t] /\ queue'[t] = << >> /\ holders'[t] = {} /\ Limit[t] \in Nat
    BY LimitFacts DEF Init
  <2>2. Inside(t)' = {}
    BY DEF Inside, At
  <2>3. IsFiniteSet({}) /\ Cardinality({}) = 0 /\ Len(<< >>) = 0
    BY FS_EmptySet
  <2>4. CancelsAgree(t)'
    BY DEF CancelsAgree
  <2> QED
    BY <2>1, <2>2, <2>3, <2>4 DEF Placed, NotOverdrawn
<1> QED
  BY <1>1, <1>2 DEF PlaceInv

\* Shutdown disables the limiter.
LEMMA ShutdownPlaces ==
    ASSUME LifeInv, PlaceInv, Shutdown
    PROVE  PlaceInv'
<1>1. run \in AllRuns /\ ~isEnabled'
  BY DEF LifeInv, LifeTypeOK, AllRuns, Shutdown, Disable
<1>2. \A s \in Runs : Canceled(run'[s], run[s])
  BY <1>1, ShutdownMoves
<1>3. EnginesAgree'
  BY <1>1, <1>2, EnginesStay DEF PlaceInv, Canceled
<1> QED
  BY <1>1, <1>3 DEF PlaceInv

\* Every step of the system keeps it.
LEMMA PlaceNextKeeps ==
    ASSUME LifeInv, IInv', RowInv, PlaceInv, [LifeNext]_lifeVars
    PROVE  PlaceInv'
<1>0. ASSUME UNCHANGED <<isEnabled, capacity, queue, holders, run, active, crashes>>
      PROVE  PlaceInv'
  BY <1>0, QuietPlaces
<1>1. ASSUME NEW r \in Runs, RunStep(r) \/ EngineStep(r) \/ DenyCredentials(r) \/ TimeOut(r)
      PROVE  PlaceInv'
  <2>1. CASE CancelSaves(r)
    <3>1. /\ run \in AllRuns
          /\ UNCHANGED <<isEnabled, capacity, queue, holders, crashes, active>>
      BY <2>1 DEF LifeInv, LifeTypeOK, AllRuns, CancelSaves, limiter, lifecycle
    <3>2. \A s \in Runs : /\ run'[s].exec = run[s].exec /\ run'[s].timeout = run[s].timeout
                          /\ run'[s].pc = run[s].pc /\ run'[s].engine = run[s].engine
                          /\ run'[s].cancelled = run[s].cancelled
      BY <2>1, <3>1, CancelSavesMoves
    <3>3. \A s \in Runs :
             /\ run'[s].exec = run[s].exec /\ run'[s].engine = run[s].engine
             /\ run'[s].timeout => run[s].timeout
             /\ run'[s].cancelled = run[s].cancelled
             /\ At(run'[s]) => At(run[s]) \/ (run[s].pc = "throttled" /\ s \notin Waiting)
             /\ run'[s].pc = "throttled" => run[s].pc = "throttled"
             /\ run'[s].pc \notin Over => run[s].pc \notin Over
             /\ run'[s].pc # "unused" => run[s].pc # "unused"
      BY <3>2 DEF At
    <3> QED
      BY <3>1, <3>3, QuietPlaces
  <2> QED
    BY <1>1, <2>1, RunStepPlaces, StartEnginePlaces, ThrottleNewPlaces, FinalizePlaces,
       TimeOutPlaces DEF RunStep
<1>2. ASSUME NEW e \in Executions, StopQueued(e) \/ StopRunning(e) PROVE PlaceInv'
  BY <1>2, StopQueuedPlaces, StopRunningPlaces
<1>3. ASSUME NEW e \in Executions, StopWrites(e) \/ PollFinds(e) \/ PollSetsTimer(e) \/ Recover(e)
      PROVE  PlaceInv'
  BY <1>0, <1>3 DEF StopWrites, PollFinds, PollSetsTimer, Recover, limiter, process
<1>4. ASSUME NEW e \in Executions, NEW r \in Runs,
             Create(r, e) \/ TimerFires(r, e) \/ WebhookResumes(r, e) \/ BootRuns(r, e)
      PROVE  PlaceInv'
  <2>1. CASE Create(r, e)
    BY <2>1, CreatePlaces
  <2>2. CASE UNCHANGED crashes /\ \E responds \in BOOLEAN : RunExisting(r, e, responds)
    BY <2>2, RunExistingPlaces
  <2>3. CASE TimerFires(r, e)
    BY <1>0, <2>2, <2>3 DEF TimerFires, limiter, lifecycle
  <2>4. CASE WebhookResumes(r, e) \/ BootRuns(r, e)
    <3>1. (e \in Responding) \in BOOLEAN
      OBVIOUS
    <3> QED
      BY <2>2, <2>4, <3>1 DEF WebhookResumes, BootRuns, lifecycle
  <2> QED
    BY <1>4, <2>1, <2>3, <2>4
<1>5. ASSUME GoDown PROVE PlaceInv'
  <2>1. Init'
    BY <1>5 DEF GoDown, Init
  <2> QED
    BY <1>5, <2>1, GoDownMoves, EmptyPlaces
<1>6. CASE ProcessStep \/ BeginShutdown \/ Crash
  <2>1. CASE Shutdown
    BY <2>1, ShutdownPlaces
  <2>2. CASE Exit \/ ForceExit \/ Crash
    BY <1>5, <2>2 DEF Exit, ForceExit, Crash
  <2>3. CASE \/ Boot \/ RecoverRunning \/ MarkAllCrashed \/ AmendReads \/ AmendSaves \/ AmendHook
             \/ RecoveryDone \/ BootReads \/ BeginShutdown
    BY <1>0, <2>3 DEF Boot, RecoverRunning, MarkAllCrashed, AmendReads, AmendSaves, AmendHook,
       RecoveryDone, BootReads, BeginShutdown, limiter
  <2> QED
    BY <1>6, <2>1, <2>2, <2>3 DEF ProcessStep
<1>7. CASE UNCHANGED lifeVars
  BY <1>0, <1>7 DEF lifeVars
<1> QED
  BY <1>1, <1>2, <1>3, <1>4, <1>6, <1>7 DEF LifeNext

\* It holds in the beginning.
LEMMA PlacesBegin == ASSUME LifeInit PROVE PlaceInv
<1>1. Init /\ \A s \in Runs : run[s].pc = "unused"
  BY DEF LifeInit, Unused, Entered
<1>2. EnginesAgree
  BY <1>1 DEF EnginesAgree, Over
<1>3. ASSUME NEW t \in Queues PROVE Placed(t)
  <2>1. capacity[t] = Limit[t] /\ queue[t] = << >> /\ holders[t] = {} /\ Limit[t] \in Nat
    BY <1>1, LimitFacts DEF Init
  <2>2. Inside(t) = {}
    BY <1>1 DEF Inside, At
  <2>3. IsFiniteSet({}) /\ Cardinality({}) = 0 /\ Len(<< >>) = 0
    BY FS_EmptySet
  <2>4. CancelsAgree(t)
    BY <1>1 DEF CancelsAgree
  <2> QED
    BY <2>1, <2>2, <2>3, <2>4 DEF Placed, NotOverdrawn
<1> QED
  BY <1>2, <1>3 DEF PlaceInv

\* So it always holds.
LEMMA PlaceInvariant == LifeSpec => []PlaceInv
<1>1. LifeInit => PlaceInv
  BY PlacesBegin
<1>2. LifeInv /\ LifeInv' /\ RowInv /\ PlaceInv /\ [LifeNext]_lifeVars => PlaceInv'
  BY PlaceNextKeeps DEF LifeInv
<1> QED
  BY <1>1, <1>2, LifeInvariant, RowInvariant, PTL DEF LifeSpec

-----------------------------------------------------------------------------
(* The theorems *)

\* Rows, runs, entries and process always have their types.
THEOREM LifeIsTyped == LifeSpec => []LifeTypeOK
<1>1. LifeInv => LifeTypeOK
  BY DEF LifeInv
<1> QED
  BY <1>1, LifeInvariant, PTL

\* Whatever the runner, the tracker, stops and restarts do, the limiter's counter is right:
\* no place is released twice, and none is taken by a run that has one.
THEOREM PlacesAreCounted == LifeSpec => []CapacityAccounting
<1>1. LifeInv => CapacityAccounting
  BY DEF LifeInv, IInv
<1> QED
  BY <1>1, LifeInvariant, PTL

\* A run that is over holds no place, but for executions that wait or were restarted, and
\* then its promise is pending and its entry is gone.
THEOREM NoPlaceIsLost == LifeSpec => []NoSlotLeak
<1>1. LifeInv => NoSlotLeak
  <2> SUFFICES ASSUME LifeInv, isEnabled, NEW r \in Runs, run[r].pc \in Over, r \in Holding
               PROVE  /\ run[r].exec \in MayWait \/ crashes > 0
                      /\ ~run[r].settled /\ active[run[r].exec] # r
    BY DEF NoSlotLeak
  <2>1. PICK t \in Queues : r \in holders[t]
    BY DEF Holding
  <2>2. run[r].pc = "done" /\ ~run[r].settled
    BY <2>1 DEF LifeInv, PlacesAgree, Over
  <2>3. run[r].exec \in Executions
    BY <2>2 DEF LifeInv, RunsAgree
  <2>4. active[run[r].exec] # r
    BY <2>2, <2>3, NoRunAssumption DEF LifeInv, EntriesAgree, EntryAgrees
  <2>5. crashes \in Nat
    BY DEF LifeInv, LifeTypeOK
  <2>6. run[r].exec \in MayWait \/ crashes # 0
    BY <2>2, <2>4 DEF LifeInv, OneRunEach
  <2> QED
    BY <2>2, <2>4, <2>5, <2>6
<1> QED
  BY <1>1, LifeInvariant, PTL

\* No row is left as `new` without a run, a place in the list of startup, or a stop.
THEOREM NobodyIsForgottenInTheQueue == LifeSpec => []EnqueuedNotForgotten
<1>1. LifeInv => EnqueuedNotForgotten
  BY DEF LifeInv
<1> QED
  BY <1>1, LifeInvariant, PTL

\* Once every run of an execution and every write for it is over, its row is not `running`, but
\* for the executions recovery leaves alone and for those run twice at a time whose caller
\* waits for a response (see NoZombieRow): no order of stops, timeouts, errors, resumptions,
\* crashes and recoveries forgets one.
THEOREM NoRowIsForgottenAsRunning == LifeSpec => []NoZombieRow
<1>1. ASSUME LifeInv, RowInv PROVE NoZombieRow
  <2> SUFFICES ASSUME phase = "up", NEW e \in Executions, db[e].status = "running"
               PROVE  \/ LiveRuns(e) # {} \/ (crashes > 0 /\ log[e] = {"workflow"})
                      \/ stop[e] # "none" \/ \E r \in Runs : run[r].exec = e /\ run[r].cancelSave
                      \/ e \in Responding /\ (e \in MayWait \/ crashes > 0)
    BY DEF NoZombieRow
  <2>1. \/ \E r \in Runs : run[r].exec = e /\ Covers(r)
        \/ stop[e] # "none" \/ Excused(e)
    BY <1>1 DEF RowInv, RunningIsCovered, Amending, RecoveryIsOver
  <2>2. ASSUME NEW r \in Runs, run[r].exec = e, Covers(r), ~run[r].cancelSave
        PROVE  r \in LiveRuns(e)
    BY <2>2 DEF Covers, LiveRuns, Over
  <2> QED
    BY <2>1, <2>2 DEF Excused
<1> QED
  BY <1>1, LifeInvariant, RowInvariant, PTL

\* An execution that has succeeded and come to rest is never run again: neither by the timer a
\* webhook's resumption has left behind, nor by a poll that has found its row before, nor by a
\* restart, whose recovery turns back to waiting what it takes for unfinished: of an execution at
\* rest neither the event log nor the row says so, now or after any later crash.
THEOREM NothingRunsAgainAfterSuccess == LifeSpec => SuccessIsFinal
<1>1. ASSUME LifeInv, RowInv, [LifeNext]_lifeVars
      PROVE  [\A e \in Executions : AtRest(e) => AtRest(e)']_lifeVars
  BY <1>1, NextRest
<1> QED
  BY <1>1, LifeInvariant, RowInvariant, PTL DEF LifeSpec, SuccessIsFinal

\* The engines at work never outnumber the configured limit of their queue, from one life of the
\* process to the next, as long as nobody stops an execution of that queue and a timeout meets
\* no second run (see ConcurrencyRespected): whatever mix of resumptions, webhooks, timeouts,
\* errors, crashes and restarts it is.
THEOREM LimitHoldsForTheEngines == LifeSpec => []ConcurrencyRespected
<1>1. ASSUME LifeInv, PlaceInv PROVE ConcurrencyRespected
  <2> SUFFICES ASSUME isEnabled, NEW t \in Queues, Undisturbed(t)
               PROVE  Cardinality({r \in Runs : /\ run[r].pc = "engine" /\ ~run[r].cancelled
                                                /\ QueueOf(Mode[run[r].exec]) = t}) <= Limit[t]
    BY DEF ConcurrencyRespected
  <2> DEFINE engines == {r \in Runs : /\ run[r].pc = "engine" /\ ~run[r].cancelled
                                      /\ QueueOf(Mode[run[r].exec]) = t}
  <2>1. Placed(t)
    BY <1>1 DEF PlaceInv
  <2>2. engines \in SUBSET Inside(t)
    BY DEF Inside, At, Counter
  <2>3. /\ Cardinality(engines) <= Cardinality(Inside(t)) /\ IsFiniteSet(engines)
        /\ IsFiniteSet(Inside(t)) /\ IsFiniteSet(holders[t])
    BY <1>1, <2>1, <2>2, FS_Subset DEF Placed, LifeInv, IInv, InOnePlace
  <2>4. /\ Cardinality(engines) \in Nat /\ Cardinality(Inside(t)) \in Nat
        /\ Cardinality(holders[t]) \in Nat
    BY <2>3, FS_CardinalityType
  <2>5. /\ capacity[t] + Cardinality(holders[t]) + Len(queue[t]) = Limit[t]
        /\ capacity[t] \in Int /\ Len(queue[t]) \in Nat /\ Limit[t] \in Nat
    BY <1>1, LimitFacts DEF LifeInv, IInv, TypeOK, CapacityAccounting
  <2>6. capacity[t] + Len(queue[t]) >= 0 /\ Cardinality(Inside(t)) <= Cardinality(holders[t])
    BY <2>1 DEF Placed, NotOverdrawn
  <2> QED
    BY <2>3, <2>4, <2>5, <2>6
<1> QED
  BY <1>1, LifeInvariant, PlaceInvariant, PTL

=============================================================================
