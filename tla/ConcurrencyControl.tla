------------------------- MODULE ConcurrencyControl -------------------------
(***************************************************************************)
(* The in-memory concurrency limiter of a main instance in regular mode:   *)
(* ConcurrencyControlService and its two ConcurrencyQueues, one for        *)
(* production executions and one for evaluation executions.                *)
(*                                                                         *)
(* A call of `throttle` is identified by the run that makes it; an         *)
(* execution may be run more than once (it is resumed under its own id), so *)
(* a queue entry holds both.  `holders` is the set of runs whose call was  *)
(* let through and that have not released their place: in the code, the    *)
(* promises of `enqueue` that have settled and whose `release` is to come. *)
(***************************************************************************)
EXTENDS Integers, Sequences, FiniteSets

CONSTANTS
    Runs,             \* the runs that ask to be let through
    Executions,       \* execution ids
    Mode,             \* Mode[e]: the execution mode stored with e
    ConfiguredLimit   \* productionLimit and evaluationLimit of the configuration

QueueTypes == {"production", "evaluation"}

\* The constructor throws InvalidConcurrencyLimitError on a limit of 0.
ASSUME LimitAssumption == ConfiguredLimit \in [QueueTypes -> Int \ {0}]

Limit == [t \in QueueTypes |-> IF ConfiguredLimit[t] < -1 THEN -1 ELSE ConfiguredLimit[t]]

\* A queue exists for a type only when its limit is positive.
Queues == {t \in QueueTypes : Limit[t] > 0}

\* The type of queue an execution mode is counted in, "none" for the modes that
\* are never limited (manual, retry, integrated, error, cli, internal).
QueueOf(mode) ==
    CASE mode \in {"webhook", "trigger"} -> "production"
      [] mode = "evaluation"             -> "evaluation"
      [] OTHER                           -> "none"

VARIABLES
    isEnabled,   \* the service counts executions at all
    capacity,    \* capacity[t]: places left, negative when runs are waiting
    queue,       \* queue[t]: the runs waiting for a place, oldest first
    holders      \* holders[t]: the runs that were let through and hold a place

vars == <<isEnabled, capacity, queue, holders>>

-----------------------------------------------------------------------------
(* ConcurrencyQueue *)

RunsIn(q) == {q[i].run : i \in 1..Len(q)}

\* Plausible slips in the queue, for the checks that each property can fail:
\* a stack instead of a queue, and a queue that never hands a place over.
ResolveNewest(t, rest, inside) ==
    \/ /\ rest = << >>
       /\ queue' = [queue EXCEPT ![t] = rest]
       /\ holders' = [holders EXCEPT ![t] = inside]
    \/ /\ rest # << >>
       /\ queue' = [queue EXCEPT ![t] = SubSeq(rest, 1, Len(rest) - 1)]
       /\ holders' = [holders EXCEPT ![t] = inside \cup {rest[Len(rest)].run}]

DequeueSilently(t, r) ==
    /\ capacity' = [capacity EXCEPT ![t] = @ + 1]
    /\ holders' = [holders EXCEPT ![t] = @ \ {r}]
    /\ UNCHANGED queue

\* resolveNext on what is left of the queue of type t: the oldest entry, if any,
\* leaves the queue and its promise is resolved.
ResolveNext(t, rest, inside) ==
    \/ /\ rest = << >>
       /\ queue' = [queue EXCEPT ![t] = rest]
       /\ holders' = [holders EXCEPT ![t] = inside]
    \/ /\ rest # << >>
       /\ queue' = [queue EXCEPT ![t] = Tail(rest)]
       /\ holders' = [holders EXCEPT ![t] = inside \cup {Head(rest).run}]

Enqueue(t, r, e) ==
    /\ capacity' = [capacity EXCEPT ![t] = @ - 1]
    /\ \/ /\ capacity[t] - 1 < 0
          /\ queue' = [queue EXCEPT ![t] = Append(@, [executionId |-> e, run |-> r])]
          /\ UNCHANGED holders
       \/ /\ capacity[t] - 1 >= 0
          /\ holders' = [holders EXCEPT ![t] = @ \cup {r}]
          /\ UNCHANGED queue

Dequeue(t, r) ==
    /\ capacity' = [capacity EXCEPT ![t] = @ + 1]
    /\ ResolveNext(t, queue[t], holders[t] \ {r})

\* findIndex: the position of the first entry of an execution in a queue.
FirstOf(q, e, i) ==
    /\ q[i].executionId = e
    /\ \A j \in 1..(i - 1) : q[j].executionId # e

Absent(q, e) == \A i \in 1..Len(q) : q[i].executionId # e

Without(q, i) == SubSeq(q, 1, i - 1) \o SubSeq(q, i + 1, Len(q))

RemoveFrom(t, e) ==
    \/ /\ Absent(queue[t], e)
       /\ UNCHANGED <<capacity, queue, holders>>
    \/ /\ \E i \in 1..Len(queue[t]) :
            /\ FirstOf(queue[t], e, i)
            /\ ResolveNext(t, Without(queue[t], i), holders[t])
       /\ capacity' = [capacity EXCEPT ![t] = @ + 1]

-----------------------------------------------------------------------------
(* ConcurrencyControlService *)

\* !isEnabled || isUnlimited(mode): the call has no effect and lets through.
Unlimited(e) == ~isEnabled \/ QueueOf(Mode[e]) \notin Queues

Has(e) == isEnabled /\ \E t \in Queues : ~Absent(queue[t], e)

Throttle(r, e) ==
    /\ UNCHANGED isEnabled
    /\ \/ Unlimited(e) /\ UNCHANGED <<capacity, queue, holders>>
       \/ ~Unlimited(e) /\ Enqueue(QueueOf(Mode[e]), r, e)

Release(r, e) ==
    /\ UNCHANGED isEnabled
    /\ \/ Unlimited(e) /\ UNCHANGED <<capacity, queue, holders>>
       \/ ~Unlimited(e) /\ Dequeue(QueueOf(Mode[e]), r)

Remove(e) ==
    /\ UNCHANGED isEnabled
    /\ \/ Unlimited(e) /\ UNCHANGED <<capacity, queue, holders>>
       \/ ~Unlimited(e) /\ RemoveFrom(QueueOf(Mode[e]), e)

Disable ==
    /\ isEnabled' = FALSE
    /\ UNCHANGED <<capacity, queue, holders>>

-----------------------------------------------------------------------------
(* The service and its callers: a run throttles when it neither waits nor    *)
(* holds a place, and releases once for the place it holds.                  *)

Waiting == UNION {RunsIn(queue[t]) : t \in Queues}
Holding == UNION {holders[t] : t \in Queues}

Init ==
    /\ isEnabled = (Queues # {})
    /\ capacity = [t \in Queues |-> Limit[t]]
    /\ queue = [t \in Queues |-> << >>]
    /\ holders = [t \in Queues |-> {}]

ThrottleCall == \E r \in Runs \ (Waiting \cup Holding), e \in Executions : Throttle(r, e)

ReleaseCall ==
    \E e \in Executions : \E r \in Runs :
        /\ QueueOf(Mode[e]) \in Queues => r \in holders[QueueOf(Mode[e])]
        /\ Release(r, e)

RemoveCall == \E e \in Executions : Remove(e)

Next == ThrottleCall \/ ReleaseCall \/ RemoveCall \/ Disable

Spec == Init /\ [][Next]_vars

-----------------------------------------------------------------------------
(* Properties *)

Entries == [executionId : Executions, run : Runs]

\* Type invariant of the limiter's state.
TypeOK ==
    /\ isEnabled \in BOOLEAN
    /\ capacity \in [Queues -> Int]
    /\ queue \in [Queues -> Seq(Entries)]
    /\ holders \in [Queues -> SUBSET Runs]

\* Every place is accounted for: the counter that enqueue, dequeue and remove
\* step up and down, the runs inside and the runs waiting always add up to the
\* limit, so no sequence of calls loses or invents a place.
CapacityAccounting ==
    \A t \in Queues : capacity[t] + Cardinality(holders[t]) + Len(queue[t]) = Limit[t]

\* Nobody waits while there is a free place: enqueue, which looks at the counter
\* and not at the runs, only queues a run when the limit is used up, and
\* resolveNext never leaves a place empty in front of a waiting run.
WorkConserving ==
    \A t \in Queues : queue[t] # << >> => Cardinality(holders[t]) >= Limit[t]

-----------------------------------------------------------------------------
(* Refinement *)

Gate == INSTANCE ConcurrencyGate WITH
            Types <- Queues, Places <- Limit, line <- queue, inside <- holders

\* The limiter implements the gate: its decisions, taken on the counter alone,
\* are those of a gate that counts the runs inside.  So runs are let through in
\* the order they asked, and `remove` is the only call that lets more of them in
\* than the limit (Gate!GiveUp).
ImplementsGate == Gate!GateSpec
=============================================================================
