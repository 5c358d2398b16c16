---------------------- MODULE ConcurrencyControlProofs ----------------------
(***************************************************************************)
(* Theorems about the concurrency limiter, for any runs, executions and    *)
(* configured limits.                                                      *)
(***************************************************************************)
EXTENDS ConcurrencyControl, FiniteSetTheorems, SequenceTheorems, TLAPS

\* A queue in which no run waits twice.
Distinct(q) == \A i, j \in 1..Len(q) : i # j => q[i].run # q[j].run

\* The inductive invariant: what CapacityAccounting and WorkConserving need to be
\* preserved is that a run is in one place only, so that each step of the
\* counter meets exactly one run entering, leaving or starting to wait.
InOnePlace(q, in) ==
    /\ IsFiniteSet(in)
    /\ Distinct(q)
    /\ RunsIn(q) \cap in = {}

IInv ==
    /\ TypeOK
    /\ \A t \in Queues : InOnePlace(queue[t], holders[t])
    /\ CapacityAccounting
    /\ WorkConserving

-----------------------------------------------------------------------------
\* The constructor's check: every type that has a queue has a positive limit.
LEMMA LimitFacts == \A t \in Queues : Limit[t] \in Nat /\ Limit[t] > 0
BY SMTT(30), LimitAssumption DEF Limit, Queues, QueueTypes

\* Splicing one entry out of a queue leaves the others, in order.
LEMMA WithoutFacts ==
    ASSUME NEW q \in Seq(Entries), NEW i \in 1..Len(q)
    PROVE  /\ Without(q, i) \in Seq(Entries)
           /\ Len(Without(q, i)) = Len(q) - 1
           /\ \A k \in 1..(Len(q) - 1) :
                 Without(q, i)[k] = IF k < i THEN q[k] ELSE q[k + 1]
<1> DEFINE front == SubSeq(q, 1, i - 1)
           back == SubSeq(q, i + 1, Len(q))
<1>1. /\ front \in Seq(Entries) /\ Len(front) = i - 1
      /\ \A k \in 1..(i - 1) : front[k] = q[k]
  BY SMTT(30)
<1>2. /\ back \in Seq(Entries) /\ Len(back) = Len(q) - i
      /\ \A k \in 1..(Len(q) - i) : back[k] = q[k + i]
  BY SMTT(30)
<1> HIDE DEF front, back
<1>3. /\ front \o back \in Seq(Entries)
      /\ Len(front \o back) = (i - 1) + (Len(q) - i)
      /\ \A k \in 1..((i - 1) + (Len(q) - i)) :
            (front \o back)[k] = IF k <= i - 1 THEN front[k] ELSE back[k - (i - 1)]
  <2>1. /\ front \in Seq(Entries) /\ Len(front) = i - 1
        /\ back \in Seq(Entries) /\ Len(back) = Len(q) - i
    BY <1>1, <1>2
  <2>2. /\ front \o back \in Seq(Entries)
        /\ Len(front \o back) = Len(front) + Len(back)
        /\ \A k \in 1..(Len(front) + Len(back)) :
              (front \o back)[k] = IF k <= Len(front) THEN front[k] ELSE back[k - Len(front)]
    BY <2>1, ConcatProperties, Zenon
  <2> QED
    BY <2>1, <2>2, Zenon
<1>4. Len(q) \in Nat /\ (i - 1) + (Len(q) - i) = Len(q) - 1
  OBVIOUS
<1>5. Without(q, i) = front \o back
  BY DEF Without, front, back
<1>6. ASSUME NEW k \in 1..(Len(q) - 1)
      PROVE  (front \o back)[k] = IF k < i THEN q[k] ELSE q[k + 1]
  <2>1. CASE k < i
    BY <1>1, <1>3, <1>4, <2>1
  <2>2. CASE ~(k < i)
    <3>1. k - (i - 1) \in 1..(Len(q) - i) /\ k - (i - 1) + i = k + 1
      BY <2>2
    <3>2. (front \o back)[k] = back[k - (i - 1)]
      BY <1>3, <1>4, <2>2
    <3>3. back[k - (i - 1)] = q[k + 1]
      BY <1>2, <3>1
    <3> QED
      BY <2>2, <3>2, <3>3
  <2> QED
    BY <2>1, <2>2
<1> QED
  BY <1>3, <1>4, <1>5, <1>6

LEMMA WithoutInOnePlace ==
    ASSUME NEW q \in Seq(Entries), NEW in, NEW i \in 1..Len(q), InOnePlace(q, in)
    PROVE  InOnePlace(Without(q, i), in)
<1> DEFINE w == Without(q, i)
           at(k) == IF k < i THEN k ELSE k + 1
<1>1. /\ w \in Seq(Entries) /\ Len(w) = Len(q) - 1
      /\ \A k \in 1..(Len(q) - 1) : w[k] = IF k < i THEN q[k] ELSE q[k + 1]
  BY WithoutFacts
<1> HIDE DEF w
<1>2. /\ \A k \in 1..Len(w) : at(k) \in 1..Len(q) /\ w[k] = q[at(k)]
      /\ \A j, k \in 1..Len(w) : j # k => at(j) # at(k)
  BY <1>1
<1> HIDE DEF at
<1>3. Distinct(w)
  <2>1. Distinct(q)
    BY DEF InOnePlace
  <2>2. ASSUME NEW j \in 1..Len(w), NEW k \in 1..Len(w), j # k
        PROVE  w[j].run # w[k].run
    <3>1. at(j) \in 1..Len(q) /\ at(k) \in 1..Len(q) /\ at(j) # at(k)
      BY <1>2, <2>2
    <3>2. q[at(j)].run # q[at(k)].run
      BY <2>1, <3>1 DEF Distinct
    <3> QED
      BY <1>2, <3>2
  <2> QED
    BY <2>2 DEF Distinct
<1>4. RunsIn(w) \subseteq RunsIn(q)
  BY <1>2 DEF RunsIn
<1> QED
  BY <1>3, <1>4 DEF InOnePlace, w

LEMMA TailInOnePlace ==
    ASSUME NEW q \in Seq(Entries), NEW in \in SUBSET Runs, q # << >>, InOnePlace(q, in)
    PROVE  /\ Head(q).run \in Runs \ in
           /\ Tail(q) \in Seq(Entries)
           /\ Len(Tail(q)) = Len(q) - 1
           /\ InOnePlace(Tail(q), in \cup {Head(q).run})
<1>1. /\ 1 \in 1..Len(q) /\ Head(q) = q[1] /\ q[1] \in Entries
      /\ Tail(q) \in Seq(Entries) /\ Len(Tail(q)) = Len(q) - 1
      /\ \A k \in 1..Len(Tail(q)) : k + 1 \in 1..Len(q) /\ Tail(q)[k] = q[k + 1]
  OBVIOUS
<1>2. Head(q).run \in Runs \ in
  BY <1>1 DEF InOnePlace, RunsIn, Entries
<1>3. Distinct(Tail(q))
  BY <1>1 DEF InOnePlace, Distinct
<1>4. RunsIn(Tail(q)) \subseteq RunsIn(q) \ {Head(q).run}
  BY <1>1 DEF InOnePlace, Distinct, RunsIn
<1>5. IsFiniteSet(in \cup {Head(q).run})
  BY FS_AddElement DEF InOnePlace
<1> QED
  BY <1>1, <1>2, <1>3, <1>4, <1>5 DEF InOnePlace

LEMMA AppendInOnePlace ==
    ASSUME NEW q \in Seq(Entries), NEW in, InOnePlace(q, in),
           NEW x \in Entries, x.run \notin RunsIn(q) \cup in
    PROVE  /\ Append(q, x) \in Seq(Entries)
           /\ Len(Append(q, x)) = Len(q) + 1
           /\ InOnePlace(Append(q, x), in)
<1> DEFINE a == Append(q, x)
<1>1. /\ a \in Seq(Entries) /\ Len(a) = Len(q) + 1 /\ a[Len(q) + 1] = x
      /\ \A k \in 1..Len(q) : a[k] = q[k]
  OBVIOUS
<1>2. \A k \in 1..Len(a) : k \in 1..Len(q) \/ k = Len(q) + 1
  BY <1>1
<1>3. Distinct(a)
  BY <1>1, <1>2 DEF InOnePlace, Distinct, RunsIn
<1>4. RunsIn(a) = RunsIn(q) \cup {x.run}
  BY <1>1, <1>2 DEF RunsIn
<1> QED
  BY <1>1, <1>3, <1>4 DEF InOnePlace

-----------------------------------------------------------------------------
\* resolveNext: nobody but the oldest entry moves, and nobody is lost.
LEMMA ResolveNextKeeps ==
    ASSUME TypeOK, NEW t \in Queues, NEW rest \in Seq(Entries), NEW inside \in SUBSET Runs,
           InOnePlace(rest, inside), ResolveNext(t, rest, inside)
    PROVE  /\ queue' \in [Queues -> Seq(Entries)]
           /\ holders' \in [Queues -> SUBSET Runs]
           /\ \A u \in Queues \ {t} : queue'[u] = queue[u] /\ holders'[u] = holders[u]
           /\ InOnePlace(queue'[t], holders'[t])
           /\ Cardinality(inside) \in Nat
           /\ Cardinality(holders'[t]) \in Nat
           /\ Cardinality(holders'[t]) + Len(queue'[t]) = Cardinality(inside) + Len(rest)
           /\ queue'[t] # << >> => Cardinality(holders'[t]) = Cardinality(inside) + 1
<1>1. IsFiniteSet(inside) /\ Cardinality(inside) \in Nat
  BY FS_CardinalityType DEF InOnePlace
<1>2. CASE rest = << >>
  <2>1. /\ queue' = [queue EXCEPT ![t] = rest]
        /\ holders' = [holders EXCEPT ![t] = inside]
    BY <1>2 DEF ResolveNext
  <2>2. queue'[t] = rest /\ holders'[t] = inside
    BY <2>1 DEF TypeOK
  <2> QED
    BY <1>1, <1>2, <2>1, <2>2 DEF TypeOK
<1>3. CASE rest # << >>
  <2> DEFINE next == Head(rest).run
  <2>1. /\ queue' = [queue EXCEPT ![t] = Tail(rest)]
        /\ holders' = [holders EXCEPT ![t] = inside \cup {next}]
    BY <1>3 DEF ResolveNext
  <2>2. /\ next \in Runs \ inside
        /\ Tail(rest) \in Seq(Entries)
        /\ Len(Tail(rest)) = Len(rest) - 1
        /\ InOnePlace(Tail(rest), inside \cup {next})
    BY <1>3, TailInOnePlace
  <2>3. Cardinality(inside \cup {next}) = Cardinality(inside) + 1
    BY <1>1, <2>2, FS_AddElement
  <2> HIDE DEF next
  <2>4. queue'[t] = Tail(rest) /\ holders'[t] = inside \cup {next}
    BY <2>1 DEF TypeOK
  <2>5. /\ queue' \in [Queues -> Seq(Entries)]
        /\ holders' \in [Queues -> SUBSET Runs]
        /\ \A u \in Queues \ {t} : queue'[u] = queue[u] /\ holders'[u] = holders[u]
    BY <2>1, <2>2 DEF TypeOK
  <2>6. Len(rest) \in Nat
    OBVIOUS
  <2> QED
    BY <1>1, <2>2, <2>3, <2>4, <2>5, <2>6
<1> QED
  BY <1>2, <1>3

\* IInv only looks at one queue at a time: if a step leaves the other queues
\* alone, it is enough to look at the one it changes.
LEMMA OneQueueAtATime ==
    ASSUME IInv, TypeOK', NEW t \in Queues,
           \A u \in Queues \ {t} :
              /\ capacity'[u] = capacity[u]
              /\ queue'[u] = queue[u]
              /\ holders'[u] = holders[u],
           InOnePlace(queue'[t], holders'[t]),
           capacity'[t] + Cardinality(holders'[t]) + Len(queue'[t]) = Limit[t],
           queue'[t] # << >> => Cardinality(holders'[t]) >= Limit[t]
    PROVE  IInv'
<1>1. (\A u \in Queues : InOnePlace(queue[u], holders[u]))'
  BY DEF IInv, InOnePlace, Distinct, RunsIn
<1>2. CapacityAccounting'
  BY DEF IInv, CapacityAccounting
<1>3. WorkConserving'
  BY DEF IInv, WorkConserving
<1> QED
  BY <1>1, <1>2, <1>3 DEF IInv

LEMMA EnqueueKeepsIInv ==
    ASSUME IInv, NEW t \in Queues, NEW r \in Runs, NEW e \in Executions,
           r \notin RunsIn(queue[t]) \cup holders[t],
           Enqueue(t, r, e), UNCHANGED isEnabled
    PROVE  IInv'
<1>1. /\ TypeOK /\ InOnePlace(queue[t], holders[t]) /\ queue[t] \in Seq(Entries)
      /\ holders[t] \in SUBSET Runs
      /\ capacity[t] \in Int
      /\ capacity[t] + Cardinality(holders[t]) + Len(queue[t]) = Limit[t]
      /\ queue[t] # << >> => Cardinality(holders[t]) >= Limit[t]
  BY DEF IInv, TypeOK, CapacityAccounting, WorkConserving
<1>2. /\ IsFiniteSet(holders[t]) /\ Cardinality(holders[t]) \in Nat
      /\ Len(queue[t]) \in Nat /\ Limit[t] \in Nat
      /\ Len(queue[t]) = 0 <=> queue[t] = << >>
  BY <1>1, FS_CardinalityType, LimitFacts, EmptySeq DEF InOnePlace
<1>3. /\ capacity' = [capacity EXCEPT ![t] = @ - 1] /\ capacity' \in [Queues -> Int]
      /\ capacity'[t] = capacity[t] - 1
      /\ \A u \in Queues \ {t} : capacity'[u] = capacity[u]
  BY <1>1 DEF Enqueue, TypeOK
<1>4. CASE capacity[t] - 1 < 0
  <2> DEFINE x == [executionId |-> e, run |-> r]
  <2>1. queue' = [queue EXCEPT ![t] = Append(@, x)] /\ holders' = holders
    BY <1>1, <1>4 DEF Enqueue
  <2>2. x \in Entries /\ x.run = r
    BY DEF Entries
  <2> HIDE DEF x
  <2>3. /\ Append(queue[t], x) \in Seq(Entries)
        /\ Len(Append(queue[t], x)) = Len(queue[t]) + 1
        /\ InOnePlace(Append(queue[t], x), holders[t])
    BY <1>1, <2>2, AppendInOnePlace
  <2>4. queue'[t] = Append(queue[t], x) /\ holders'[t] = holders[t]
    BY <1>1, <2>1 DEF TypeOK
  <2>5. TypeOK' /\ \A u \in Queues \ {t} : queue'[u] = queue[u] /\ holders'[u] = holders[u]
    BY <1>1, <1>3, <2>1, <2>3 DEF TypeOK
  <2>6. Cardinality(holders[t]) >= Limit[t]
    BY <1>1, <1>2, <1>4
  <2>7. capacity'[t] + Cardinality(holders'[t]) + Len(queue'[t]) = Limit[t]
    <3>1. Len(queue'[t]) = Len(queue[t]) + 1
      BY <2>3, <2>4
    <3>2. Cardinality(holders'[t]) = Cardinality(holders[t])
      BY <2>4
    <3> QED
      BY <1>1, <1>2, <1>3, <3>1, <3>2
  <2> QED
    BY <1>3, <2>3, <2>4, <2>5, <2>6, <2>7, OneQueueAtATime
<1>5. CASE capacity[t] - 1 >= 0
  <2>1. holders' = [holders EXCEPT ![t] = @ \cup {r}] /\ queue' = queue
    BY <1>1, <1>5 DEF Enqueue
  <2>2. holders'[t] = holders[t] \cup {r} /\ queue'[t] = queue[t]
    BY <1>1, <2>1 DEF TypeOK
  <2>3. TypeOK' /\ \A u \in Queues \ {t} : queue'[u] = queue[u] /\ holders'[u] = holders[u]
    BY <1>1, <1>3, <2>1 DEF TypeOK
  <2>4. /\ IsFiniteSet(holders[t] \cup {r})
        /\ Cardinality(holders[t] \cup {r}) = Cardinality(holders[t]) + 1
    BY <1>2, FS_AddElement
  <2>5. InOnePlace(queue'[t], holders'[t])
    BY <1>1, <2>2, <2>4 DEF InOnePlace
  <2>6. capacity'[t] + Cardinality(holders'[t]) + Len(queue'[t]) = Limit[t]
    <3>1. Len(queue'[t]) = Len(queue[t])
      BY <2>2
    <3>2. Cardinality(holders'[t]) = Cardinality(holders[t]) + 1
      BY <2>2, <2>4
    <3> QED
      BY <1>1, <1>2, <1>3, <3>1, <3>2
  <2>7. queue'[t] # << >> => Cardinality(holders'[t]) >= Limit[t]
    BY <1>1, <1>2, <2>2, <2>4
  <2> QED
    BY <1>3, <2>3, <2>5, <2>6, <2>7, OneQueueAtATime
<1> QED
  BY <1>1, <1>4, <1>5

LEMMA DequeueKeepsIInv ==
    ASSUME IInv, NEW t \in Queues, NEW r \in holders[t], Dequeue(t, r), UNCHANGED isEnabled
    PROVE  IInv'
<1> DEFINE inside == holders[t] \ {r}
<1>1. /\ TypeOK /\ InOnePlace(queue[t], holders[t]) /\ queue[t] \in Seq(Entries)
      /\ holders[t] \in SUBSET Runs
      /\ capacity[t] \in Int
      /\ capacity[t] + Cardinality(holders[t]) + Len(queue[t]) = Limit[t]
      /\ queue[t] # << >> => Cardinality(holders[t]) >= Limit[t]
  BY DEF IInv, TypeOK, CapacityAccounting, WorkConserving
<1>2. /\ IsFiniteSet(holders[t]) /\ Cardinality(holders[t]) \in Nat
      /\ Len(queue[t]) \in Nat /\ Limit[t] \in Nat
      /\ Len(queue[t]) = 0 <=> queue[t] = << >>
  BY <1>1, FS_CardinalityType, LimitFacts, EmptySeq DEF InOnePlace
<1>3. /\ capacity' = [capacity EXCEPT ![t] = @ + 1] /\ capacity' \in [Queues -> Int]
      /\ capacity'[t] = capacity[t] + 1
      /\ \A u \in Queues \ {t} : capacity'[u] = capacity[u]
  BY <1>1 DEF Dequeue, TypeOK
<1>4. /\ inside \in SUBSET Runs /\ IsFiniteSet(inside)
      /\ Cardinality(inside) = Cardinality(holders[t]) - 1
  BY <1>1, <1>2, FS_RemoveElement
<1>5. InOnePlace(queue[t], inside)
  BY <1>1, <1>4 DEF InOnePlace
<1>6. ResolveNext(t, queue[t], inside)
  BY DEF Dequeue
<1> HIDE DEF inside
<1>7. /\ queue' \in [Queues -> Seq(Entries)]
      /\ holders' \in [Queues -> SUBSET Runs]
      /\ \A u \in Queues \ {t} : queue'[u] = queue[u] /\ holders'[u] = holders[u]
      /\ InOnePlace(queue'[t], holders'[t])
      /\ Cardinality(holders'[t]) \in Nat
      /\ Cardinality(holders'[t]) + Len(queue'[t]) = Cardinality(inside) + Len(queue[t])
      /\ queue'[t] # << >> => Cardinality(holders'[t]) = Cardinality(inside) + 1
  BY <1>1, <1>4, <1>5, <1>6, ResolveNextKeeps
<1>8. TypeOK'
  BY <1>1, <1>3, <1>7 DEF TypeOK
<1>9. Len(queue'[t]) \in Nat
  BY <1>7
<1>10. capacity'[t] + Cardinality(holders'[t]) + Len(queue'[t]) = Limit[t]
  <2> DEFINE in == Cardinality(holders[t])   in2 == Cardinality(holders'[t])
             len == Len(queue[t])            len2 == Len(queue'[t])
             c == capacity[t]                c2 == capacity'[t]
             left == Cardinality(inside)
  <2>1. /\ Limit[t] \in Int /\ in \in Int /\ in2 \in Int /\ len \in Int /\ len2 \in Int
        /\ c \in Int /\ c2 = c + 1 /\ c + in + len = Limit[t]
        /\ left = in - 1 /\ in2 + len2 = left + len
    BY <1>1, <1>2, <1>3, <1>4, <1>7, <1>9
  <2> HIDE DEF in, in2, len, len2, c, c2, left
  <2>2. c2 + in2 + len2 = Limit[t]
    BY <2>1
  <2> QED
    BY <2>2 DEF c2, in2, len2
<1>11. queue'[t] # << >> => queue[t] # << >>
  BY <1>1, <1>6 DEF ResolveNext, TypeOK
<1>12. queue'[t] # << >> => Cardinality(holders'[t]) >= Limit[t]
  BY <1>1, <1>2, <1>4, <1>7, <1>11
<1> QED
  BY <1>3, <1>7, <1>8, <1>10, <1>12, OneQueueAtATime

LEMMA RemoveFromKeepsIInv ==
    ASSUME IInv, NEW t \in Queues, NEW e \in Executions, RemoveFrom(t, e), UNCHANGED isEnabled
    PROVE  IInv'
<1>1. /\ TypeOK /\ InOnePlace(queue[t], holders[t]) /\ queue[t] \in Seq(Entries)
      /\ holders[t] \in SUBSET Runs
      /\ capacity[t] \in Int
      /\ capacity[t] + Cardinality(holders[t]) + Len(queue[t]) = Limit[t]
      /\ queue[t] # << >> => Cardinality(holders[t]) >= Limit[t]
  BY DEF IInv, TypeOK, CapacityAccounting, WorkConserving
<1>2. /\ IsFiniteSet(holders[t]) /\ Cardinality(holders[t]) \in Nat
      /\ Len(queue[t]) \in Nat /\ Limit[t] \in Nat
      /\ Len(queue[t]) = 0 <=> queue[t] = << >>
  BY <1>1, FS_CardinalityType, LimitFacts, EmptySeq DEF InOnePlace
<1>3. CASE Absent(queue[t], e) /\ UNCHANGED <<capacity, queue, holders>>
  BY <1>3 DEF IInv, TypeOK, InOnePlace, Distinct, RunsIn, CapacityAccounting, WorkConserving
<1>4. CASE /\ \E i \in 1..Len(queue[t]) :
                 FirstOf(queue[t], e, i) /\ ResolveNext(t, Without(queue[t], i), holders[t])
           /\ capacity' = [capacity EXCEPT ![t] = @ + 1]
  <2>1. PICK i \in 1..Len(queue[t]) : ResolveNext(t, Without(queue[t], i), holders[t])
    BY <1>4
  <2> DEFINE rest == Without(queue[t], i)
  <2>2. rest \in Seq(Entries) /\ Len(rest) = Len(queue[t]) - 1 /\ InOnePlace(rest, holders[t])
    BY <1>1, WithoutFacts, WithoutInOnePlace
  <2>3. /\ capacity' \in [Queues -> Int] /\ capacity'[t] = capacity[t] + 1
        /\ \A u \in Queues \ {t} : capacity'[u] = capacity[u]
    BY <1>1, <1>4 DEF TypeOK
  <2> HIDE DEF rest
  <2>4. /\ queue' \in [Queues -> Seq(Entries)]
        /\ holders' \in [Queues -> SUBSET Runs]
        /\ \A u \in Queues \ {t} : queue'[u] = queue[u] /\ holders'[u] = holders[u]
        /\ InOnePlace(queue'[t], holders'[t])
        /\ Cardinality(holders'[t]) \in Nat
        /\ Cardinality(holders'[t]) + Len(queue'[t]) = Cardinality(holders[t]) + Len(rest)
        /\ queue'[t] # << >> => Cardinality(holders'[t]) = Cardinality(holders[t]) + 1
    BY <1>1, <2>1, <2>2, ResolveNextKeeps DEF rest
  <2>5. TypeOK' /\ Len(queue'[t]) \in Nat
    BY <1>1, <2>3, <2>4 DEF TypeOK
  <2>6. capacity'[t] + Cardinality(holders'[t]) + Len(queue'[t]) = Limit[t]
    <3> DEFINE in == Cardinality(holders[t])   in2 == Cardinality(holders'[t])
               len == Len(queue[t])            len2 == Len(queue'[t])
               c == capacity[t]                c2 == capacity'[t]
    <3>1. /\ Limit[t] \in Int /\ in \in Int /\ in2 \in Int /\ len \in Int /\ len2 \in Int
          /\ c \in Int /\ c2 = c + 1 /\ c + in + len = Limit[t]
          /\ in2 + len2 = in + len - 1
      BY <1>1, <1>2, <2>2, <2>3, <2>4, <2>5
    <3> HIDE DEF in, in2, len, len2, c, c2
    <3>2. c2 + in2 + len2 = Limit[t]
      BY <3>1
    <3> QED
      BY <3>2 DEF c2, in2, len2
  <2>7. queue[t] # << >>
    BY <2>1, <1>1
  <2>8. queue'[t] # << >> => Cardinality(holders'[t]) >= Limit[t]
    BY <1>1, <1>2, <2>4, <2>7
  <2> QED
    BY <2>3, <2>4, <2>5, <2>6, <2>8, OneQueueAtATime
<1> QED
  BY <1>3, <1>4 DEF RemoveFrom

-----------------------------------------------------------------------------
LEMMA InitIInv == Init => IInv
<1> SUFFICES ASSUME Init PROVE IInv
  OBVIOUS
<1>1. TypeOK
  BY LimitFacts DEF Init, TypeOK
<1>2. ASSUME NEW t \in Queues
      PROVE  /\ InOnePlace(queue[t], holders[t])
             /\ capacity[t] + Cardinality(holders[t]) + Len(queue[t]) = Limit[t]
             /\ queue[t] = << >>
  <2>1. /\ queue[t] = << >> /\ holders[t] = {} /\ capacity[t] = Limit[t]
        /\ Len(queue[t]) = 0 /\ Limit[t] \in Nat
    BY LimitFacts DEF Init
  <2>2. IsFiniteSet(holders[t]) /\ Cardinality(holders[t]) = 0
    BY <2>1, FS_EmptySet
  <2>3. InOnePlace(queue[t], holders[t])
    BY <2>1, <2>2 DEF InOnePlace, Distinct, RunsIn
  <2> QED
    BY <2>1, <2>2, <2>3
<1> QED
  BY <1>1, <1>2 DEF IInv, CapacityAccounting, WorkConserving

LEMMA StutterKeepsIInv == IInv /\ UNCHANGED <<isEnabled, capacity, queue, holders>> => IInv'
BY DEF IInv, TypeOK, InOnePlace, Distinct, RunsIn, CapacityAccounting, WorkConserving

LEMMA NextKeepsIInv == IInv /\ [Next]_vars => IInv'
<1> SUFFICES ASSUME IInv, [Next]_vars PROVE IInv'
  OBVIOUS
<1>1. CASE ThrottleCall
  <2>1. PICK r \in Runs \ (Waiting \cup Holding), e \in Executions : Throttle(r, e)
    BY <1>1 DEF ThrottleCall
  <2>2. CASE Unlimited(e) /\ UNCHANGED <<capacity, queue, holders>>
    BY <2>1, <2>2, StutterKeepsIInv DEF Throttle
  <2>3. CASE ~Unlimited(e) /\ Enqueue(QueueOf(Mode[e]), r, e)
    <3>1. QueueOf(Mode[e]) \in Queues
      BY <2>3 DEF Unlimited
    <3>2. r \notin RunsIn(queue[QueueOf(Mode[e])]) \cup holders[QueueOf(Mode[e])]
      BY <2>1, <3>1 DEF Waiting, Holding
    <3> QED
      BY <2>1, <2>3, <3>1, <3>2, EnqueueKeepsIInv DEF Throttle
  <2> QED
    BY <2>1, <2>2, <2>3 DEF Throttle
<1>2. CASE ReleaseCall
  <2>1. PICK e \in Executions, r \in Runs :
            /\ QueueOf(Mode[e]) \in Queues => r \in holders[QueueOf(Mode[e])]
            /\ Release(r, e)
    BY <1>2 DEF ReleaseCall
  <2>2. CASE Unlimited(e) /\ UNCHANGED <<capacity, queue, holders>>
    BY <2>1, <2>2, StutterKeepsIInv DEF Release
  <2>3. CASE ~Unlimited(e) /\ Dequeue(QueueOf(Mode[e]), r)
    BY <2>1, <2>3, DequeueKeepsIInv DEF Release, Unlimited
  <2> QED
    BY <2>1, <2>2, <2>3 DEF Release
<1>3. CASE RemoveCall
  <2>1. PICK e \in Executions : Remove(e)
    BY <1>3 DEF RemoveCall
  <2>2. CASE Unlimited(e) /\ UNCHANGED <<capacity, queue, holders>>
    BY <2>1, <2>2, StutterKeepsIInv DEF Remove
  <2>3. CASE ~Unlimited(e) /\ RemoveFrom(QueueOf(Mode[e]), e)
    BY <2>1, <2>3, RemoveFromKeepsIInv DEF Remove, Unlimited
  <2> QED
    BY <2>1, <2>2, <2>3 DEF Remove
<1>4. CASE Disable
  BY ZenonT(30), <1>4 DEF Disable, IInv, TypeOK, InOnePlace, Distinct, RunsIn, CapacityAccounting, WorkConserving
<1>5. CASE UNCHANGED vars
  BY <1>5, StutterKeepsIInv DEF vars
<1> QED
  BY <1>1, <1>2, <1>3, <1>4, <1>5 DEF Next

LEMMA InvariantIInv == Spec => []IInv
<1> QED
  BY InitIInv, NextKeepsIInv, PTL DEF Spec

\* The state of the limiter always has its type, whatever the calls.
THEOREM TypeCorrect == Spec => []TypeOK
<1>1. IInv => TypeOK
  BY DEF IInv
<1> QED
  BY <1>1, InvariantIInv, PTL

\* enqueue, dequeue and remove never lose or invent a place.
THEOREM Accounting == Spec => []CapacityAccounting
<1>1. IInv => CapacityAccounting
  BY DEF IInv
<1> QED
  BY <1>1, InvariantIInv, PTL

\* A run only waits while the limit is used up.
THEOREM NobodyWaitsForAFreePlace == Spec => []WorkConserving
<1>1. IInv => WorkConserving
  BY DEF IInv
<1> QED
  BY <1>1, InvariantIInv, PTL

-----------------------------------------------------------------------------
\* The decision of enqueue, taken on the counter, is the one of a gate that counts
\* the runs inside; WorkConserving is what makes the two agree when runs wait.
LEMMA CounterTellsWhoIsInside ==
    ASSUME IInv, NEW t \in Queues
    PROVE  capacity[t] - 1 < 0 <=> Cardinality(holders[t]) >= Limit[t]
<1>1. /\ capacity[t] \in Int /\ queue[t] \in Seq(Entries)
      /\ capacity[t] + Cardinality(holders[t]) + Len(queue[t]) = Limit[t]
      /\ queue[t] # << >> => Cardinality(holders[t]) >= Limit[t]
      /\ IsFiniteSet(holders[t])
  BY DEF IInv, TypeOK, CapacityAccounting, WorkConserving, InOnePlace
<1>2. /\ Cardinality(holders[t]) \in Nat /\ Len(queue[t]) \in Nat /\ Limit[t] \in Nat
      /\ Len(queue[t]) = 0 <=> queue[t] = << >>
  BY <1>1, FS_CardinalityType, LimitFacts, EmptySeq
<1>3. CASE queue[t] = << >>
  BY <1>1, <1>2, <1>3
<1>4. CASE queue[t] # << >>
  BY <1>1, <1>2, <1>4
<1> QED
  BY <1>3, <1>4

\* ConcurrencyGate brings its own copy of the library's Cardinality.
LEMMA SameCardinality == \A S : Gate!Cardinality(S) = Cardinality(S)
BY DEF Cardinality, Gate!Cardinality

LEMMA StepImplementsGate == IInv /\ [Next]_vars => [Gate!GateNext]_(Gate!gateVars)
<1> SUFFICES ASSUME IInv, [Next]_vars PROVE Gate!GateNext \/ UNCHANGED Gate!gateVars
  OBVIOUS
<1> USE DEF Gate!gateVars
<1>1. CASE ThrottleCall
  <2>1. PICK r \in Runs, e \in Executions : Throttle(r, e)
    BY <1>1 DEF ThrottleCall
  <2>2. CASE Unlimited(e) /\ UNCHANGED <<capacity, queue, holders>>
    BY <2>2
  <2>3. CASE ~Unlimited(e) /\ Enqueue(QueueOf(Mode[e]), r, e)
    <3> DEFINE t == QueueOf(Mode[e])
    <3>1. t \in Queues
      BY <2>3 DEF Unlimited
    <3> HIDE DEF t
    <3>2. Gate!Join(t, r, e) \/ Gate!Enter(t, r)
      <4>1. CASE capacity[t] - 1 < 0
        BY <2>3, <3>1, <4>1, CounterTellsWhoIsInside, SameCardinality DEF Enqueue, Gate!Join, IInv, TypeOK, t
      <4>2. CASE ~(capacity[t] - 1 < 0)
        <5>1. ~(Cardinality(holders[t]) >= Limit[t]) /\ IsFiniteSet(holders[t])
          BY <3>1, <4>2, CounterTellsWhoIsInside DEF IInv, InOnePlace
        <5>2. Cardinality(holders[t]) < Limit[t]
          BY <3>1, <5>1, FS_CardinalityType, LimitFacts
        <5> QED
          BY <2>3, <3>1, <4>2, <5>2, SameCardinality DEF Enqueue, Gate!Enter, IInv, TypeOK, t
      <4> QED
        BY <4>1, <4>2
    <3> QED
      BY <3>1, <3>2 DEF Gate!GateNext
  <2> QED
    BY <2>1, <2>2, <2>3 DEF Throttle
<1>2. CASE ReleaseCall
  <2>1. PICK e \in Executions, r \in Runs :
            /\ QueueOf(Mode[e]) \in Queues => r \in holders[QueueOf(Mode[e])]
            /\ Release(r, e)
    BY <1>2 DEF ReleaseCall
  <2>2. CASE Unlimited(e) /\ UNCHANGED <<capacity, queue, holders>>
    BY <2>2
  <2>3. CASE ~Unlimited(e) /\ Dequeue(QueueOf(Mode[e]), r)
    <3>1. QueueOf(Mode[e]) \in Queues
      BY <2>3 DEF Unlimited
    <3>2. Gate!Leave(QueueOf(Mode[e]), r)
      BY <2>1, <2>3, <3>1 DEF Dequeue, Gate!Leave, ResolveNext, Gate!LetNextIn
    <3> QED
      BY <3>1, <3>2 DEF Gate!GateNext
  <2> QED
    BY <2>1, <2>2, <2>3 DEF Release
<1>3. CASE RemoveCall
  <2>1. PICK e \in Executions : Remove(e)
    BY <1>3 DEF RemoveCall
  <2>2. CASE Unlimited(e) /\ UNCHANGED <<capacity, queue, holders>>
    BY <2>2
  <2>3. CASE ~Unlimited(e) /\ RemoveFrom(QueueOf(Mode[e]), e)
    <3>1. QueueOf(Mode[e]) \in Queues
      BY <2>3 DEF Unlimited
    <3>2. Gate!GiveUp(QueueOf(Mode[e])) \/ UNCHANGED <<queue, holders>>
      BY <2>3 DEF RemoveFrom, Without, Gate!GiveUp, ResolveNext, Gate!LetNextIn
    <3> QED
      BY <3>1, <3>2 DEF Gate!GateNext
  <2> QED
    BY <2>1, <2>2, <2>3 DEF Remove
<1>4. CASE Disable
  BY <1>4 DEF Disable
<1>5. CASE UNCHANGED vars
  BY <1>5 DEF vars
<1> QED
  BY <1>1, <1>2, <1>3, <1>4, <1>5 DEF Next

\* The limiter implements the gate that counts who is inside.
THEOREM Refinement == Spec => ImplementsGate
<1>1. Init => Gate!GateInit
  BY DEF Init, Gate!GateInit
<1> QED
  BY <1>1, InvariantIInv, StepImplementsGate, PTL DEF Spec, ImplementsGate, Gate!GateSpec
=============================================================================
