--------------------------- MODULE TaskBrokerProofs ---------------------------
(***************************************************************************)
(* Theorems about the task broker, its runner and its requester, for any    *)
(* requests, runners and bounds.                                           *)
(***************************************************************************)
EXTENDS TaskBroker, FiniteSetTheorems, TLAPS

\* The flags and the queue: a request whose acceptance is awaited is flagged, one
\* that is in the queue and not flagged has a caller that asks for it, one that has
\* not been asked for is not flagged.
FlagsAgree ==
    /\ \A o \in Offers : runnerAccepts[o] # NoRequest => runnerAccepts[o] \in acceptInProgress
    /\ \A q \in Idle(pendingTaskRequests) : caller[q] = "asked"
    /\ \A q \in Requests : caller[q] = "idle" => q \notin acceptInProgress

\* The broker and the requester: they know the same tasks, of calls that have started.
TasksAgree ==
    /\ tasks = taskAccepts
    /\ \A o \in Offers : tasks[o] # NoRequest =>
          runnerAccepts[o] = NoRequest /\ caller[tasks[o]] = "started"

\* An offer that can still be taken belongs to no task yet, and is known once: as a
\* message on its way, the first of its channel, or as one of the broker's offers.
Untouched(o) == runnerAccepts[o] = NoRequest /\ tasks[o] = NoRequest
OffersFirst(channel) ==
    \A o \in Offers : \A i \in 1..Len(channel[o]) :
        channel[o][i] = "offer" => i = 1 /\ o \notin pendingTaskOffers /\ Untouched(o)
OffersOnce ==
    /\ \A o \in pendingTaskOffers : Untouched(o)
    /\ OffersFirst(toBroker)

ToBroker == [Offers -> Seq({"offer", "accepted", "rejected", "deferred", "done", "error"})]
ToRunner == [Offers -> Seq({"accept", "settings", "cancel"})]

\* The inductive invariant.
BrokerInv ==
    /\ BrokerTypeOK
    /\ AcceptFindsRequest
    /\ OneTaskPerRequest
    /\ NobodyForgotten
    /\ FlagsAgree
    /\ TasksAgree
    /\ OffersOnce

-----------------------------------------------------------------------------
(* Offers, queues and what settleTasks does *)

\* There are finitely many offers, so that late ones can be counted.
LEMMA OffersFinite == IsFiniteSet(Offers)
<1>1. IsFiniteSet(1..MaxOffers)
  BY BrokerAssumption, FS_Interval
<1>2. IsFiniteSet(Runners \X (1..MaxOffers))
  BY <1>1, BrokerAssumption, FS_Product, Zenon
<1> QED
  BY <1>2 DEF Offers

\* Every offer is of a runner.
LEMMA RunnerFacts == \A o \in Offers : RunnerOf(o) \in Runners
BY DEF Offers, RunnerOf

\* Taking one request out of the queue leaves the places of the others.
LEMMA WithoutFacts ==
    ASSUME NEW s \in Seq(Requests), NEW i \in 1..Len(s)
    PROVE  /\ Without(s, i) \in Seq(Requests)
           /\ Pending(Without(s, i)) \subseteq Pending(s)
           /\ \A p \in Pending(s) : p # s[i] => p \in Pending(Without(s, i))
<1> DEFINE n == Len(s) - 1
           t == [j \in 1..n |-> IF j < i THEN s[j] ELSE s[j + 1]]
<1>1. n \in Nat
  OBVIOUS
<1>2. \A j \in 1..n : t[j] = (IF j < i THEN s[j] ELSE s[j + 1]) /\ t[j] \in Requests
  OBVIOUS
<1>3. t \in Seq(Requests) /\ Len(t) = n
  BY <1>1, <1>2
<1>4. Without(s, i) = t
  BY DEF Without
<1>5. ASSUME NEW j \in 1..n
      PROVE  \E k \in 1..Len(s) : t[j] = s[k]
  <2>1. CASE j < i
    BY <1>2, <2>1
  <2>2. CASE ~(j < i)
    <3>1. j + 1 \in 1..Len(s) /\ t[j] = s[j + 1]
      BY <1>2, <2>2
    <3> QED
      BY <3>1
  <2> QED
    BY <2>1, <2>2
<1>6. ASSUME NEW k \in 1..Len(s), k # i
      PROVE  \E j \in 1..n : t[j] = s[k]
  <2>1. CASE k < i
    <3>1. k \in 1..n /\ t[k] = s[k]
      BY <1>2, <2>1
    <3> QED
      BY <3>1
  <2>2. CASE ~(k < i)
    <3>1. k - 1 \in 1..n /\ ~(k - 1 < i) /\ (k - 1) + 1 = k
      BY <1>6, <2>2
    <3>2. t[k - 1] = s[k]
      BY <1>2, <3>1
    <3> QED
      BY <3>1, <3>2
  <2> QED
    BY <2>1, <2>2
<1> HIDE DEF t, n
<1>7. Pending(t) = {t[j] : j \in 1..n}
  BY <1>3 DEF Pending
<1>8. Pending(t) \subseteq Pending(s)
  BY <1>5, <1>7 DEF Pending
<1>9. \A p \in Pending(s) : p # s[i] => p \in Pending(t)
  BY <1>6, <1>7 DEF Pending
<1> QED
  BY <1>3, <1>4, <1>8, <1>9

\* Queueing a request adds it to those that are pending, and nothing else.
LEMMA AppendFacts ==
    ASSUME NEW s \in Seq(Requests), NEW q \in Requests
    PROVE  /\ Append(s, q) \in Seq(Requests)
           /\ Pending(Append(s, q)) = Pending(s) \cup {q}
<1> DEFINE t == Append(s, q)
<1>1. /\ t \in Seq(Requests) /\ Len(t) = Len(s) + 1 /\ Len(s) \in Nat
      /\ \A i \in 1..Len(s) : t[i] = s[i]
      /\ t[Len(s) + 1] = q
  OBVIOUS
<1> HIDE DEF t
<1>2. 1..Len(t) = 1..Len(s) \cup {Len(s) + 1}
  BY <1>1
<1>3. Pending(t) = Pending(s) \cup {q}
  BY <1>1, <1>2 DEF Pending
<1> QED
  BY <1>1, <1>3 DEF t

\* The requests M have been matched, as m says.
Matched(reqs, arrived, M, m) ==
    /\ \A p, q \in M : m[p] = m[q] => p = q
    /\ pendingTaskRequests' = reqs
    /\ pendingTaskOffers' \subseteq pendingTaskOffers \cup arrived
    /\ \A q \in M : m[q] \notin pendingTaskOffers'
    /\ acceptInProgress' = acceptInProgress \cup M
    /\ runnerAccepts' \in [Offers -> Requests \cup {NoRequest}]
    /\ \A q \in M : runnerAccepts'[m[q]] = q
    /\ \A o \in Offers : (\A q \in M : m[q] # o) => runnerAccepts'[o] = runnerAccepts[o]
    /\ toRunner' \in [Offers -> Seq({"accept", "settings", "cancel"})]
    /\ late' \in Nat

MatchedSome(reqs, arrived) ==
    \E M \in SUBSET Idle(reqs) : \E m \in [M -> pendingTaskOffers \cup arrived] :
        Matched(reqs, arrived, M, m)

\* What settleTasks does, seen from the requests it has matched.
LEMMA SettleFacts ==
    BrokerTypeOK => \A reqs \in Seq(Requests), arrived \in SUBSET Offers :
        Settle(reqs, arrived) => MatchedSome(reqs, arrived)
<1> SUFFICES ASSUME BrokerTypeOK, NEW reqs \in Seq(Requests), NEW arrived \in SUBSET Offers,
                    Settle(reqs, arrived)
             PROVE  MatchedSome(reqs, arrived)
  OBVIOUS
<1>1. PICK expired \in SUBSET {o \in pendingTaskOffers : RunnerOf(o) \notin Launchers} :
        \E m \in Matchings(reqs, (pendingTaskOffers \ expired) \cup arrived) :
            LET valid == (pendingTaskOffers \ expired) \cup arrived
                taken == {m[q] : q \in DOMAIN m}
            IN  /\ pendingTaskRequests' = reqs
                /\ pendingTaskOffers' = valid \ taken
                /\ acceptInProgress' = acceptInProgress \cup DOMAIN m
                /\ runnerAccepts' = [o \in Offers |->
                      IF o \in taken THEN CHOOSE q \in DOMAIN m : m[q] = o
                      ELSE runnerAccepts[o]]
                /\ toRunner' = [o \in Offers |->
                      IF o \in taken /\ RunnerOf(o) \in connected
                      THEN Append(toRunner[o], "accept") ELSE toRunner[o]]
                /\ late' = late + Cardinality(Forgotten(taken \ arrived))
  BY DEF Settle
<1> DEFINE valid == (pendingTaskOffers \ expired) \cup arrived
<1>2. PICK m \in Matchings(reqs, valid) :
            LET taken == {m[q] : q \in DOMAIN m}
            IN  /\ pendingTaskRequests' = reqs
                /\ pendingTaskOffers' = valid \ taken
                /\ acceptInProgress' = acceptInProgress \cup DOMAIN m
                /\ runnerAccepts' = [o \in Offers |->
                      IF o \in taken THEN CHOOSE q \in DOMAIN m : m[q] = o
                      ELSE runnerAccepts[o]]
                /\ toRunner' = [o \in Offers |->
                      IF o \in taken /\ RunnerOf(o) \in connected
                      THEN Append(toRunner[o], "accept") ELSE toRunner[o]]
                /\ late' = late + Cardinality(Forgotten(taken \ arrived))
  BY <1>1
<1> DEFINE M == DOMAIN m
           taken == {m[q] : q \in M}
<1>3. valid \subseteq pendingTaskOffers \cup arrived /\ valid \subseteq Offers
  BY DEF BrokerTypeOK
<1>4. /\ M \in SUBSET Idle(reqs)
      /\ m \in [M -> valid]
      /\ \A p, q \in M : m[p] = m[q] => p = q
  BY <1>2 DEF Matchings
<1> HIDE DEF valid
<1>5. m \in [M -> pendingTaskOffers \cup arrived]
  BY <1>3, <1>4
<1>6. M \subseteq Requests
  BY <1>4 DEF Idle, Pending
<1>7. taken \subseteq Offers
  BY <1>3, <1>4
<1>8. \A q \in M : (CHOOSE p \in M : m[p] = m[q]) = q
  BY <1>4
<1>9. \A o \in taken : (CHOOSE p \in M : m[p] = o) \in M
  BY <1>4
<1>10. runnerAccepts' = [o \in Offers |->
          IF o \in taken THEN CHOOSE q \in M : m[q] = o ELSE runnerAccepts[o]]
  BY <1>2
<1>11. runnerAccepts' \in [Offers -> Requests \cup {NoRequest}]
  BY <1>6, <1>9, <1>10 DEF BrokerTypeOK
<1>12. \A q \in M : m[q] \in Offers /\ m[q] \in taken
  BY <1>4, <1>7
<1>13. \A q \in M : runnerAccepts'[m[q]] = q
  BY <1>8, <1>10, <1>12
<1>14. \A o \in Offers : (\A q \in M : m[q] # o) => runnerAccepts'[o] = runnerAccepts[o]
  BY <1>10
<1>15. toRunner' \in [Offers -> Seq({"accept", "settings", "cancel"})]
  <2>1. \A o \in Offers : Append(toRunner[o], "accept") \in Seq({"accept", "settings", "cancel"})
    BY DEF BrokerTypeOK
  <2> QED
    BY <1>2, <2>1 DEF BrokerTypeOK
<1>16. late' \in Nat
  <2>1. Forgotten(taken \ arrived) \in SUBSET Offers
    BY <1>7 DEF Forgotten
  <2>2. Cardinality(Forgotten(taken \ arrived)) \in Nat
    BY <2>1, OffersFinite, FS_Subset, FS_CardinalityType, Zenon
  <2> QED
    BY <1>2, <2>2 DEF BrokerTypeOK
<1>17. /\ pendingTaskRequests' = reqs
       /\ pendingTaskOffers' \subseteq pendingTaskOffers \cup arrived
       /\ \A q \in M : m[q] \notin pendingTaskOffers'
       /\ acceptInProgress' = acceptInProgress \cup M
  BY <1>2, <1>3, <1>12
<1> HIDE DEF M
<1>18. Matched(reqs, arrived, M, m)
  BY <1>4, <1>11, <1>13, <1>14, <1>15, <1>16, <1>17 DEF Matched
<1> QED
  BY <1>4, <1>5, <1>18 DEF MatchedSome

-----------------------------------------------------------------------------
(* Messages *)

\* Receiving the first message of a task leaves no offer of it in the channel.
LEMMA ReceiveFacts ==
    ASSUME BrokerInv, NEW o \in Offers, NEW m, Receives(toBroker, o, m),
           NEW channel, channel = [toBroker EXCEPT ![o] = Tail(@)]
    PROVE  /\ channel \in ToBroker
           /\ OffersFirst(channel)
           /\ \A i \in 1..Len(channel[o]) : channel[o][i] # "offer"
           /\ m = "offer" => o \notin pendingTaskOffers /\ Untouched(o)
<1>1. toBroker \in ToBroker /\ toBroker[o] # << >> /\ Head(toBroker[o]) = m
  BY DEF BrokerInv, BrokerTypeOK, ToBroker, Receives
<1>2. /\ Tail(toBroker[o]) \in Seq({"offer", "accepted", "rejected", "deferred", "done", "error"})
      /\ Len(Tail(toBroker[o])) = Len(toBroker[o]) - 1
      /\ Len(toBroker[o]) \in Nat \ {0}
      /\ toBroker[o][1] = m
      /\ \A i \in 1..Len(Tail(toBroker[o])) : Tail(toBroker[o])[i] = toBroker[o][i + 1]
  BY <1>1 DEF ToBroker
<1>3. \A i \in 1..Len(Tail(toBroker[o])) : i + 1 \in 1..Len(toBroker[o]) /\ i + 1 # 1
  BY <1>2
<1>4. \A i \in 1..Len(Tail(toBroker[o])) : Tail(toBroker[o])[i] # "offer"
  BY <1>2, <1>3 DEF BrokerInv, OffersOnce, OffersFirst
<1>5. channel \in ToBroker
  BY <1>1, <1>2 DEF ToBroker
<1>6. channel[o] = Tail(toBroker[o]) /\ \A p \in Offers \ {o} : channel[p] = toBroker[p]
  BY <1>1 DEF ToBroker
<1>7. OffersFirst(channel)
  BY <1>4, <1>6 DEF BrokerInv, OffersOnce, OffersFirst
<1>8. m = "offer" => o \notin pendingTaskOffers /\ Untouched(o)
  <2>1. 1 \in 1..Len(toBroker[o])
    BY <1>2
  <2> QED
    BY <1>2, <2>1 DEF BrokerInv, OffersOnce, OffersFirst
<1> QED
  BY <1>4, <1>5, <1>6, <1>7, <1>8

\* The runner's messages about a task do not offer it again.
LEMMA ReplyFacts ==
    ASSUME BrokerInv, NEW o \in Offers,
           NEW m \in {"accepted", "rejected", "deferred", "done", "error"}
    PROVE  /\ Send(toBroker, o, m) \in ToBroker
           /\ OffersFirst(Send(toBroker, o, m))
           /\ \A p \in Offers \ {o} : Send(toBroker, o, m)[p] = toBroker[p]
<1> DEFINE s == toBroker[o]
           t == Append(s, m)
           channel == [toBroker EXCEPT ![o] = t]
<1>1. toBroker \in ToBroker
  BY DEF BrokerInv, BrokerTypeOK, ToBroker
<1>2. /\ t \in Seq({"offer", "accepted", "rejected", "deferred", "done", "error"})
      /\ Len(t) = Len(s) + 1 /\ Len(s) \in Nat
      /\ \A i \in 1..Len(s) : t[i] = s[i]
      /\ t[Len(s) + 1] = m
  BY <1>1 DEF ToBroker
<1>3. channel \in ToBroker /\ channel[o] = t /\ \A p \in Offers \ {o} : channel[p] = toBroker[p]
  BY <1>1, <1>2 DEF ToBroker
<1>4. \A i \in 1..Len(t) : t[i] = "offer" => i \in 1..Len(s) /\ s[i] = "offer"
  BY <1>2
<1> HIDE DEF t, channel
<1>5. OffersFirst(toBroker)
  BY DEF BrokerInv, OffersOnce
<1>6. OffersFirst(channel)
  BY <1>3, <1>4, <1>5 DEF OffersFirst
<1>7. Send(toBroker, o, m) = channel \/ Send(toBroker, o, m) = toBroker
  BY DEF Send, channel, t
<1> QED
  BY <1>1, <1>3, <1>5, <1>6, <1>7

\* The broker's messages to a runner.
LEMMA ToRunnerFacts ==
    ASSUME BrokerTypeOK, NEW o \in Offers
    PROVE  /\ \A m \in {"accept", "settings", "cancel"} : Send(toRunner, o, m) \in ToRunner
           /\ toRunner[o] # << >> => [toRunner EXCEPT ![o] = Tail(@)] \in ToRunner
<1>1. ASSUME NEW m \in {"accept", "settings", "cancel"}
      PROVE  Send(toRunner, o, m) \in ToRunner
  <2>1. Append(toRunner[o], m) \in Seq({"accept", "settings", "cancel"})
    BY DEF BrokerTypeOK
  <2> QED
    BY <2>1 DEF BrokerTypeOK, ToRunner, Send
<1>2. ASSUME toRunner[o] # << >>
      PROVE  [toRunner EXCEPT ![o] = Tail(@)] \in ToRunner
  <2>1. Tail(toRunner[o]) \in Seq({"accept", "settings", "cancel"})
    BY <1>2 DEF BrokerTypeOK
  <2> QED
    BY <2>1 DEF BrokerTypeOK, ToRunner
<1> QED
  BY <1>1, <1>2

\* What sendOffers does to the types and to the channels.
LEMMA SendOffersFacts ==
    ASSUME BrokerInv, NEW w \in Runners, NEW status \in [Offers -> TaskStatuses],
           NEW out \in ToBroker, OffersFirst(out), SendOffers(w, status, out),
           \A o \in Offers : Fresh(o) => out[o] = << >>
    PROVE  /\ toBroker' \in ToBroker /\ OffersFirst(toBroker')
           /\ openOffers' \subseteq Offers
           /\ runningTasks' \in [Offers -> TaskStatuses]
           /\ late' \in Nat
<1>1. PICK stale \in SUBSET (openOffers \cap OffersOf(w)) :
        \E new \in SUBSET {o \in OffersOf(w) : Fresh(o)} :
            /\ openOffers' = (openOffers \ stale) \cup new
            /\ runningTasks' = status
            /\ toBroker' = [o \in Offers |->
                  IF o \in new THEN Append(out[o], "offer") ELSE out[o]]
            /\ late' = late + Cardinality({o \in stale : toBroker[o] # << >> \/ toRunner[o] # << >>})
  BY DEF SendOffers
<1>2. PICK new \in SUBSET {o \in OffersOf(w) : Fresh(o)} :
            /\ openOffers' = (openOffers \ stale) \cup new
            /\ runningTasks' = status
            /\ toBroker' = [o \in Offers |->
                  IF o \in new THEN Append(out[o], "offer") ELSE out[o]]
            /\ late' = late + Cardinality({o \in stale : toBroker[o] # << >> \/ toRunner[o] # << >>})
  BY <1>1
<1>3. new \subseteq Offers /\ stale \subseteq Offers /\ openOffers \subseteq Offers
  BY DEF OffersOf, BrokerInv, BrokerTypeOK
<1>4. \A o \in Offers : Append(out[o], "offer")
          \in Seq({"offer", "accepted", "rejected", "deferred", "done", "error"})
  BY DEF ToBroker
<1>5. toBroker' \in ToBroker
  BY <1>2, <1>4 DEF ToBroker
<1>6. ASSUME NEW o \in Offers, NEW i \in 1..Len(toBroker'[o]), toBroker'[o][i] = "offer"
      PROVE  i = 1 /\ o \notin pendingTaskOffers /\ Untouched(o)
  <2>1. CASE o \in new
    <3>1. Fresh(o) /\ out[o] = << >>
      BY <2>1, <1>3
    <3>2. toBroker'[o] = Append(<< >>, "offer")
      BY <1>2, <2>1, <3>1
    <3>3. Len(toBroker'[o]) = 1
      BY <3>2
    <3> QED
      BY <1>6, <3>1, <3>3 DEF Fresh, Untouched
  <2>2. CASE o \notin new
    <3>1. toBroker'[o] = out[o]
      BY <1>2, <2>2
    <3> QED
      BY <1>6, <3>1 DEF OffersFirst
  <2> QED
    BY <2>1, <2>2
<1>7. late' \in Nat
  <2>1. {o \in stale : toBroker[o] # << >> \/ toRunner[o] # << >>} \in SUBSET Offers
    BY <1>3
  <2>2. Cardinality({o \in stale : toBroker[o] # << >> \/ toRunner[o] # << >>}) \in Nat
    BY <2>1, OffersFinite, FS_Subset, FS_CardinalityType, Zenon
  <2> QED
    BY <1>2, <2>2 DEF BrokerInv, BrokerTypeOK
<1> QED
  BY <1>2, <1>3, <1>5, <1>6, <1>7 DEF OffersFirst

-----------------------------------------------------------------------------
(* The steps *)

\* Nothing has happened yet.
LEMMA InitBroker == Init => BrokerInv
<1> SUFFICES ASSUME Init PROVE BrokerInv
  OBVIOUS
<1>1. BrokerTypeOK
  BY DEF Init, BrokerTypeOK, Nobody, Silence, TaskStatuses
<1>2. AcceptFindsRequest /\ OneTaskPerRequest /\ NobodyForgotten
  BY DEF Init, AcceptFindsRequest, OneTaskPerRequest, NobodyForgotten, Nobody
<1>3. FlagsAgree
  BY DEF Init, FlagsAgree, Idle, Pending, Nobody
<1>4. TasksAgree /\ OffersOnce
  BY DEF Init, TasksAgree, OffersOnce, OffersFirst, Untouched, Nobody, Silence
<1> QED
  BY <1>1, <1>2, <1>3, <1>4 DEF BrokerInv

\* A step that sends the broker nothing but what OffersOnce allows, and leaves what
\* the broker and the requester know of requests, offers and tasks as it is.
Elsewhere == <<pendingTaskOffers, pendingTaskRequests, acceptInProgress, runnerAccepts,
               tasks, requester>>

LEMMA RunnerStepKeeps ==
    ASSUME BrokerInv, UNCHANGED Elsewhere,
           knownRunners' \subseteq Runners, connected' \subseteq knownRunners',
           openOffers' \subseteq Offers, runningTasks' \in [Offers -> TaskStatuses],
           toBroker' \in ToBroker, toRunner' \in ToRunner,
           late' \in Nat, lost' \in Nat, deferrals' \in Nat,
           OffersFirst(toBroker')
    PROVE  BrokerInv'
<1>1. BrokerTypeOK'
  BY DEF BrokerInv, BrokerTypeOK, Elsewhere, requester, ToBroker, ToRunner, TaskStatuses
<1>2. AcceptFindsRequest' /\ OneTaskPerRequest' /\ NobodyForgotten'
  BY DEF BrokerInv, AcceptFindsRequest, OneTaskPerRequest, NobodyForgotten, Elsewhere, requester, Pending
<1>3. FlagsAgree' /\ TasksAgree'
  BY DEF BrokerInv, FlagsAgree, TasksAgree, Elsewhere, requester, Idle, Pending
<1>4. OffersOnce'
  BY DEF BrokerInv, OffersOnce, OffersFirst, Untouched, Elsewhere
<1> QED
  BY <1>1, <1>2, <1>3, <1>4 DEF BrokerInv

\* settleTasks, for requests that are asked for and offers that are known once.
LEMMA SettleKeeps ==
    ASSUME BrokerInv, NEW reqs \in Seq(Requests), NEW arrived \in SUBSET Offers,
           Settle(reqs, arrived),
           Pending(pendingTaskRequests) \subseteq Pending(reqs),
           \A o \in arrived : Untouched(o),
           caller' \in [Requests -> {"idle", "asked", "started", "done", "error"}],
           \A q \in Requests : caller'[q] # caller[q] => caller[q] = "idle" /\ caller'[q] = "asked",
           \A q \in Requests : caller'[q] = "asked" => q \in Pending(reqs),
           \A q \in Idle(reqs) : caller'[q] = "asked",
           UNCHANGED <<knownRunners, tasks, taskAccepts, runner, lost, deferrals>>,
           toBroker' \in ToBroker, OffersFirst(toBroker'),
           \A o \in arrived : \A i \in 1..Len(toBroker'[o]) : toBroker'[o][i] # "offer"
    PROVE  BrokerInv'
<1>0. MatchedSome(reqs, arrived)
  <2>1. BrokerTypeOK
    BY DEF BrokerInv
  <2> QED
    BY <2>1, SettleFacts
<1>a. PICK M \in SUBSET Idle(reqs) : \E m \in [M -> pendingTaskOffers \cup arrived] :
        Matched(reqs, arrived, M, m)
  BY <1>0 DEF MatchedSome
<1>1. PICK m \in [M -> pendingTaskOffers \cup arrived] : Matched(reqs, arrived, M, m)
  BY <1>a
<1> USE DEF Matched
<1>2. /\ M \subseteq Pending(reqs) /\ M \subseteq Requests
      /\ \A q \in M : q \notin acceptInProgress /\ caller'[q] = "asked" /\ caller[q] # "started"
  <2>1. M \subseteq Pending(reqs) /\ \A q \in M : q \notin acceptInProgress
    BY DEF Idle
  <2>2. Pending(reqs) \subseteq Requests
    BY DEF Pending
  <2>3. \A q \in M : caller'[q] = "asked" /\ q \in Requests
    BY <2>1, <2>2
  <2>4. \A q \in M : caller[q] # "started"
    BY <2>3
  <2> QED
    BY <2>1, <2>2, <2>3, <2>4
<1>3. \A q \in M : m[q] \in Offers /\ Untouched(m[q])
  BY <1>1 DEF BrokerInv, BrokerTypeOK, OffersOnce
<1>4. BrokerTypeOK'
  BY <1>1, <1>2 DEF BrokerInv, BrokerTypeOK, ToBroker, runner, TaskStatuses
<1>5. \A o \in Offers : \/ runnerAccepts'[o] = runnerAccepts[o]
                         \/ \E q \in M : o = m[q] /\ runnerAccepts'[o] = q /\ Untouched(o)
  BY <1>1, <1>3
<1>6. \A q \in Requests : caller[q] = "asked" => caller'[q] = "asked"
  OBVIOUS
<1>7. AcceptFindsRequest'
  <2> SUFFICES ASSUME NEW o \in Offers, runnerAccepts'[o] # NoRequest
               PROVE  /\ runnerAccepts'[o] \in Pending(reqs)
                      /\ caller'[runnerAccepts'[o]] = "asked"
    BY <1>1 DEF AcceptFindsRequest, Pending
  <2>1. CASE runnerAccepts'[o] = runnerAccepts[o]
    BY <1>6, <2>1 DEF BrokerInv, AcceptFindsRequest, BrokerTypeOK
  <2>2. CASE \E q \in M : runnerAccepts'[o] = q
    BY <1>2, <2>2
  <2> QED
    BY <1>5, <2>1, <2>2
<1>8. OneTaskPerRequest'
  <2> SUFFICES ASSUME NEW o \in Offers, NEW p \in Offers
               PROVE  /\ runnerAccepts'[o] = runnerAccepts'[p] /\ runnerAccepts'[o] # NoRequest => o = p
                      /\ tasks[o] = tasks[p] /\ tasks[o] # NoRequest => o = p
                      /\ runnerAccepts'[o] = tasks[p] => tasks[p] = NoRequest
    BY DEF OneTaskPerRequest
  <2>1. tasks[o] = tasks[p] /\ tasks[o] # NoRequest => o = p
    BY DEF BrokerInv, OneTaskPerRequest
  <2>2. runnerAccepts[o] \in M => runnerAccepts[o] = NoRequest
    BY <1>2 DEF BrokerInv, FlagsAgree
  <2>3. runnerAccepts[p] \in M => runnerAccepts[p] = NoRequest
    BY <1>2 DEF BrokerInv, FlagsAgree
  <2>4. NoRequest \notin M
    BY <1>2, BrokerAssumption
  <2>5. runnerAccepts'[o] = runnerAccepts'[p] /\ runnerAccepts'[o] # NoRequest => o = p
    <3>1. runnerAccepts[o] = runnerAccepts[p] /\ runnerAccepts[o] # NoRequest => o = p
      BY DEF BrokerInv, OneTaskPerRequest
    <3>2. CASE runnerAccepts'[o] = runnerAccepts[o] /\ runnerAccepts'[p] = runnerAccepts[p]
      BY <3>1, <3>2
    <3>3. CASE \E q \in M : o = m[q] /\ runnerAccepts'[o] = q
      BY <1>5, <2>3, <2>4, <3>3
    <3>4. CASE \E q \in M : p = m[q] /\ runnerAccepts'[p] = q
      BY <1>5, <2>2, <2>4, <3>4
    <3> QED
      BY <1>5, <3>2, <3>3, <3>4
  <2>6. runnerAccepts'[o] = tasks[p] => tasks[p] = NoRequest
    BY <1>2, <1>5 DEF BrokerInv, OneTaskPerRequest, TasksAgree
  <2> QED
    BY <2>1, <2>5, <2>6
<1>9. NobodyForgotten'
  <2> SUFFICES ASSUME NEW q \in Requests
               PROVE  /\ caller'[q] = "asked" =>
                            /\ q \in Pending(reqs)
                            /\ q \in acceptInProgress \cup M => \E o \in Offers : runnerAccepts'[o] = q
                      /\ caller'[q] = "started" =>
                            \E o \in Offers : tasks[o] = q /\ taskAccepts[o] = q
    BY <1>1 DEF NobodyForgotten, Pending
  <2>1. caller'[q] = "started" => \E o \in Offers : tasks[o] = q /\ taskAccepts[o] = q
    BY DEF BrokerInv, NobodyForgotten
  <2>2. ASSUME caller'[q] = "asked", q \in M
        PROVE  \E o \in Offers : runnerAccepts'[o] = q
    BY <1>1, <1>3, <2>2
  <2>3. ASSUME caller'[q] = "asked", q \in acceptInProgress
        PROVE  \E o \in Offers : runnerAccepts'[o] = q
    <3>1. caller[q] = "asked"
      BY <2>3 DEF BrokerInv, FlagsAgree
    <3>2. PICK o \in Offers : runnerAccepts[o] = q
      BY <2>3, <3>1 DEF BrokerInv, NobodyForgotten
    <3>3. runnerAccepts'[o] = q
      BY <1>5, <3>2, BrokerAssumption DEF Untouched
    <3> QED
      BY <3>3
  <2> QED
    BY <2>1, <2>2, <2>3
<1>10. FlagsAgree'
  <2>1. \A o \in Offers : runnerAccepts'[o] # NoRequest => runnerAccepts'[o] \in acceptInProgress'
    <3>1. acceptInProgress' = acceptInProgress \cup M
      BY <1>1
    <3>2. \A o \in Offers : runnerAccepts'[o] = runnerAccepts[o] \/ runnerAccepts'[o] \in M
      BY <1>5
    <3>3. \A o \in Offers : runnerAccepts[o] # NoRequest => runnerAccepts[o] \in acceptInProgress
      BY DEF BrokerInv, FlagsAgree
    <3> QED
      BY <3>1, <3>2, <3>3
  <2>2. \A q \in Idle(pendingTaskRequests)' : caller'[q] = "asked"
    <3>1. Pending(pendingTaskRequests)' = Pending(reqs)
      BY <1>1 DEF Pending
    <3>2. Idle(pendingTaskRequests)' = Pending(pendingTaskRequests)' \ acceptInProgress'
      BY DEF Idle
    <3>3. Idle(pendingTaskRequests)' \subseteq Idle(reqs)
      BY <1>1, <3>1, <3>2 DEF Idle
    <3> QED
      BY <3>3
  <2>3. \A q \in Requests : caller'[q] = "idle" => q \notin acceptInProgress'
    BY <1>1, <1>2 DEF BrokerInv, FlagsAgree
  <2> QED
    BY <2>1, <2>2, <2>3 DEF FlagsAgree
<1>11. TasksAgree'
  BY <1>5 DEF BrokerInv, TasksAgree, Untouched, BrokerTypeOK
<1>12. OffersOnce'
  <2>1. \A o \in pendingTaskOffers' : Untouched(o)'
    <3> SUFFICES ASSUME NEW o \in pendingTaskOffers' PROVE Untouched(o)'
      OBVIOUS
    <3>1. o \in Offers /\ Untouched(o) /\ \A q \in M : m[q] # o
      BY <1>1 DEF BrokerInv, BrokerTypeOK, OffersOnce
    <3> QED
      BY <1>1, <3>1 DEF Untouched
  <2>2. OffersFirst(toBroker)'
    <3> SUFFICES ASSUME NEW o \in Offers, NEW i \in 1..Len(toBroker'[o]), toBroker'[o][i] = "offer"
                 PROVE  i = 1 /\ o \notin pendingTaskOffers' /\ Untouched(o)'
      BY DEF OffersFirst
    <3>1. i = 1 /\ o \notin pendingTaskOffers /\ o \notin arrived /\ Untouched(o)
      BY DEF OffersFirst
    <3>2. o \notin pendingTaskOffers' /\ \A q \in M : m[q] # o
      BY <1>1, <3>1
    <3> QED
      BY <1>1, <3>1, <3>2 DEF Untouched
  <2> QED
    BY <2>1, <2>2 DEF OffersOnce
<1> QED
  BY <1>4, <1>7, <1>8, <1>9, <1>10, <1>11, <1>12 DEF BrokerInv

\* A new request is settled together with those that are waiting.
LEMMA StartTaskKeeps ==
    ASSUME BrokerInv, NEW q \in Requests, StartTask(q)
    PROVE  BrokerInv'
<1> DEFINE reqs == Append(pendingTaskRequests, q)
<1>1. /\ caller[q] = "idle" /\ caller' = [caller EXCEPT ![q] = "asked"]
      /\ Settle(reqs, {})
      /\ UNCHANGED <<knownRunners, tasks, taskAccepts, runner, toBroker, lost, deferrals>>
  BY DEF StartTask
<1>2. reqs \in Seq(Requests) /\ Pending(reqs) = Pending(pendingTaskRequests) \cup {q}
  BY AppendFacts DEF BrokerInv, BrokerTypeOK
<1>3. /\ caller' \in [Requests -> {"idle", "asked", "started", "done", "error"}]
      /\ caller'[q] = "asked" /\ \A r \in Requests \ {q} : caller'[r] = caller[r]
  BY <1>1 DEF BrokerInv, BrokerTypeOK
<1>4. toBroker' \in ToBroker /\ OffersFirst(toBroker')
  BY <1>1 DEF BrokerInv, BrokerTypeOK, ToBroker, OffersOnce
<1> HIDE DEF reqs
<1>5. \A r \in Requests : caller'[r] = "asked" => r \in Pending(reqs)
  BY <1>2, <1>3 DEF BrokerInv, NobodyForgotten
<1>6. \A r \in Idle(reqs) : caller'[r] = "asked"
  <2>1. Pending(reqs) \subseteq Requests
    BY <1>2 DEF Pending
  <2>2. \A r \in Idle(reqs) : r \in Requests /\ (r = q \/ r \in Idle(pendingTaskRequests))
    BY <1>2, <2>1 DEF Idle
  <2> QED
    BY <1>3, <2>2 DEF BrokerInv, FlagsAgree
<1>7. \A r \in Requests : caller'[r] # caller[r] => caller[r] = "idle" /\ caller'[r] = "asked"
  BY <1>1, <1>3
<1> QED
  BY <1>1, <1>2, <1>3, <1>4, <1>5, <1>6, <1>7, SettleKeeps

\* An offer that arrives is settled together with those the broker has.
LEMMA TaskOfferedKeeps ==
    ASSUME BrokerInv, NEW o \in Offers, TaskOffered(o)
    PROVE  BrokerInv'
<1>1. /\ Receives(toBroker, o, "offer") /\ toBroker' = [toBroker EXCEPT ![o] = Tail(@)]
      /\ Settle(pendingTaskRequests, {o})
      /\ UNCHANGED <<knownRunners, tasks, requester, runner, lost, deferrals>>
  BY DEF TaskOffered
<1>2. /\ toBroker' \in ToBroker /\ OffersFirst(toBroker') /\ Untouched(o)
      /\ \A i \in 1..Len(toBroker'[o]) : toBroker'[o][i] # "offer"
  BY <1>1, ReceiveFacts
<1>3. /\ pendingTaskRequests \in Seq(Requests) /\ caller' = caller /\ taskAccepts' = taskAccepts
      /\ caller' \in [Requests -> {"idle", "asked", "started", "done", "error"}]
  BY <1>1 DEF BrokerInv, BrokerTypeOK, requester
<1>4. \A q \in Requests : caller'[q] = "asked" => q \in Pending(pendingTaskRequests)
  BY <1>3 DEF BrokerInv, NobodyForgotten
<1>5. \A q \in Idle(pendingTaskRequests) : caller'[q] = "asked"
  BY <1>3 DEF BrokerInv, FlagsAgree
<1>6. /\ {o} \in SUBSET Offers
      /\ \A p \in {o} : Untouched(p)
      /\ \A p \in {o} : \A i \in 1..Len(toBroker'[p]) : toBroker'[p][i] # "offer"
  BY <1>2
<1>7. \A q \in Requests : caller'[q] # caller[q] => caller[q] = "idle" /\ caller'[q] = "asked"
  BY <1>3
<1>8. Pending(pendingTaskRequests) \subseteq Pending(pendingTaskRequests)
  OBVIOUS
<1>9. UNCHANGED <<knownRunners, tasks, taskAccepts, runner, lost, deferrals>>
  BY <1>1, <1>3
<1> QED
  BY <1>1, <1>2, <1>3, <1>4, <1>5, <1>6, <1>7, <1>8, <1>9, SettleKeeps

\* The broker no longer waits for the runner to accept: the request is idle again.
LEMMA GiveUpKeeps ==
    ASSUME BrokerInv, NEW o \in Offers,
           runnerAccepts' = [runnerAccepts EXCEPT ![o] = NoRequest],
           acceptInProgress' = acceptInProgress \ {runnerAccepts[o]},
           pendingTaskRequests' \in Seq(Requests),
           Pending(pendingTaskRequests)' = Pending(pendingTaskRequests),
           UNCHANGED <<knownRunners, pendingTaskOffers, tasks, requester, runner, toRunner>>,
           toBroker' \in ToBroker, OffersFirst(toBroker'),
           late' \in Nat, lost' \in Nat, deferrals' \in Nat
    PROVE  BrokerInv'
<1>1. BrokerTypeOK'
  BY DEF BrokerInv, BrokerTypeOK, requester, runner, ToBroker
<1>2. /\ runnerAccepts'[o] = NoRequest
      /\ \A p \in Offers \ {o} : runnerAccepts'[p] = runnerAccepts[p]
      /\ caller' = caller /\ tasks' = tasks /\ taskAccepts' = taskAccepts
  BY DEF BrokerInv, BrokerTypeOK, requester
<1>3. AcceptFindsRequest'
  BY <1>2 DEF BrokerInv, AcceptFindsRequest
<1>4. OneTaskPerRequest'
  BY <1>2 DEF BrokerInv, OneTaskPerRequest
<1>5. NobodyForgotten'
  <2> SUFFICES ASSUME NEW q \in Requests
               PROVE  /\ caller[q] = "asked" =>
                            /\ q \in Pending(pendingTaskRequests)
                            /\ q \in acceptInProgress' => \E p \in Offers : runnerAccepts'[p] = q
                      /\ caller[q] = "started" =>
                            \E p \in Offers : tasks[p] = q /\ taskAccepts[p] = q
    BY <1>2 DEF NobodyForgotten
  <2>1. /\ caller[q] = "asked" => q \in Pending(pendingTaskRequests)
        /\ caller[q] = "started" => \E p \in Offers : tasks[p] = q /\ taskAccepts[p] = q
    BY DEF BrokerInv, NobodyForgotten
  <2>2. ASSUME caller[q] = "asked", q \in acceptInProgress'
        PROVE  \E p \in Offers : runnerAccepts'[p] = q
    <3>1. q \in acceptInProgress /\ q # runnerAccepts[o]
      BY <2>2
    <3>2. PICK p \in Offers : runnerAccepts[p] = q
      BY <2>2, <3>1 DEF BrokerInv, NobodyForgotten
    <3> QED
      BY <1>2, <3>1, <3>2
  <2> QED
    BY <2>1, <2>2
<1>6. FlagsAgree'
  <2>1. \A p \in Offers : runnerAccepts'[p] # NoRequest => runnerAccepts'[p] \in acceptInProgress'
    BY <1>2 DEF BrokerInv, FlagsAgree, OneTaskPerRequest
  <2>2. \A q \in Idle(pendingTaskRequests)' : caller'[q] = "asked"
    <3>1. \A q \in Idle(pendingTaskRequests)' :
             q \in Requests /\ (q \in Idle(pendingTaskRequests) \/ q = runnerAccepts[o])
      <4>1. Pending(pendingTaskRequests) \subseteq Requests
        BY DEF Pending, BrokerInv, BrokerTypeOK
      <4>2. Idle(pendingTaskRequests)' = Pending(pendingTaskRequests) \ acceptInProgress'
        BY DEF Idle
      <4> QED
        BY <4>1, <4>2 DEF Idle
    <3>2. \A q \in Idle(pendingTaskRequests) : caller[q] = "asked"
      BY DEF BrokerInv, FlagsAgree
    <3>3. runnerAccepts[o] # NoRequest => caller[runnerAccepts[o]] = "asked"
      BY DEF BrokerInv, AcceptFindsRequest
    <3> QED
      BY <1>2, <3>1, <3>2, <3>3, BrokerAssumption
  <2>3. \A q \in Requests : caller'[q] = "idle" => q \notin acceptInProgress'
    BY <1>2 DEF BrokerInv, FlagsAgree
  <2> QED
    BY <2>1, <2>2, <2>3 DEF FlagsAgree
<1>7. TasksAgree'
  BY <1>2 DEF BrokerInv, TasksAgree
<1>8. OffersOnce'
  BY <1>2 DEF BrokerInv, OffersOnce, OffersFirst, Untouched, BrokerTypeOK
<1> QED
  BY <1>1, <1>3, <1>4, <1>5, <1>6, <1>7, <1>8 DEF BrokerInv

\* The runner has accepted: the request leaves the queue and becomes a task.  By the
\* invariant it is there, and the requester still asks for it.
LEMMA HandleRunnerAcceptKeeps ==
    ASSUME BrokerInv, NEW o \in Offers, HandleRunnerAccept(o)
    PROVE  BrokerInv'
<1> DEFINE q == runnerAccepts[o]
<1>1. /\ toBroker' \in ToBroker /\ OffersFirst(toBroker')
      /\ runnerAccepts' = [runnerAccepts EXCEPT ![o] = NoRequest]
      /\ UNCHANGED <<knownRunners, pendingTaskOffers, acceptInProgress, runner, late, lost, deferrals>>
  <2>1. Receives(toBroker, o, "accepted") /\ toBroker' = [toBroker EXCEPT ![o] = Tail(@)]
    BY DEF HandleRunnerAccept
  <2> QED
    BY <2>1, ReceiveFacts DEF HandleRunnerAccept
<1>2. /\ runnerAccepts'[o] = NoRequest
      /\ \A p \in Offers \ {o} : runnerAccepts'[p] = runnerAccepts[p]
  BY <1>1 DEF BrokerInv, BrokerTypeOK
<1>3. CASE q = NoRequest
  <2>1. UNCHANGED <<tasks, pendingTaskRequests, requester, toRunner>>
    BY <1>3 DEF HandleRunnerAccept
  <2>2. runnerAccepts' = runnerAccepts
    BY <1>1, <1>3 DEF BrokerInv, BrokerTypeOK
  <2>3. UNCHANGED Elsewhere
    BY <1>1, <2>1, <2>2 DEF Elsewhere
  <2>4. /\ knownRunners' \subseteq Runners /\ connected' \subseteq knownRunners'
        /\ openOffers' \subseteq Offers /\ runningTasks' \in [Offers -> TaskStatuses]
        /\ toRunner' \in ToRunner /\ late' \in Nat /\ lost' \in Nat /\ deferrals' \in Nat
    BY <1>1, <2>1 DEF BrokerInv, BrokerTypeOK, runner, ToRunner
  <2> QED
    BY <1>1, <2>3, <2>4, RunnerStepKeeps
<1>4. CASE q # NoRequest
  <2>1. q \in Pending(pendingTaskRequests) /\ caller[q] = "asked" /\ q \in Requests
    BY <1>4 DEF BrokerInv, AcceptFindsRequest, BrokerTypeOK
  <2>2. /\ tasks' = [tasks EXCEPT ![o] = q]
        /\ \E i \in 1..Len(pendingTaskRequests) :
              /\ pendingTaskRequests[i] = q
              /\ pendingTaskRequests' = Without(pendingTaskRequests, i)
        /\ caller' = [caller EXCEPT ![q] = "started"]
        /\ taskAccepts' = [taskAccepts EXCEPT ![o] = q]
        /\ toRunner' = Send(toRunner, o, "settings")
    BY <1>4, <2>1 DEF HandleRunnerAccept, IsFirst
  <2>3. PICK i \in 1..Len(pendingTaskRequests) :
              /\ pendingTaskRequests[i] = q
              /\ pendingTaskRequests' = Without(pendingTaskRequests, i)
    BY <2>2
  <2>4. pendingTaskRequests \in Seq(Requests)
    BY DEF BrokerInv, BrokerTypeOK
  <2>5. /\ pendingTaskRequests' \in Seq(Requests)
        /\ Pending(pendingTaskRequests)' \subseteq Pending(pendingTaskRequests)
        /\ \A p \in Pending(pendingTaskRequests) : p # q => p \in Pending(pendingTaskRequests)'
    <3>1. /\ Without(pendingTaskRequests, i) \in Seq(Requests)
          /\ Pending(Without(pendingTaskRequests, i)) \subseteq Pending(pendingTaskRequests)
          /\ \A p \in Pending(pendingTaskRequests) :
                p # pendingTaskRequests[i] => p \in Pending(Without(pendingTaskRequests, i))
      BY <2>4, WithoutFacts
    <3>2. Pending(pendingTaskRequests)' = Pending(Without(pendingTaskRequests, i))
      BY <2>3 DEF Pending
    <3> QED
      BY <2>3, <3>1, <3>2
  <2>6. toRunner' \in ToRunner
    BY <2>2, ToRunnerFacts DEF BrokerInv
  <2>7. BrokerTypeOK'
    BY <1>1, <2>1, <2>2, <2>5, <2>6 DEF BrokerInv, BrokerTypeOK, ToBroker, ToRunner, runner
  <2>8. /\ tasks'[o] = q /\ taskAccepts'[o] = q /\ caller'[q] = "started"
        /\ \A p \in Offers \ {o} : tasks'[p] = tasks[p] /\ taskAccepts'[p] = taskAccepts[p]
        /\ \A r \in Requests \ {q} : caller'[r] = caller[r]
    BY <2>1, <2>2 DEF BrokerInv, BrokerTypeOK
  <2>9. /\ tasks[o] = NoRequest
        /\ \A p \in Offers : tasks[p] # q
        /\ \A p \in Offers \ {o} : runnerAccepts[p] # q
    BY <1>4, <2>1 DEF BrokerInv, OneTaskPerRequest, TasksAgree
  <2>10. AcceptFindsRequest'
    <3> SUFFICES ASSUME NEW p \in Offers, runnerAccepts'[p] # NoRequest
                 PROVE  /\ runnerAccepts'[p] \in Pending(pendingTaskRequests)'
                        /\ caller'[runnerAccepts'[p]] = "asked"
      BY DEF AcceptFindsRequest
    <3>1. p # o /\ runnerAccepts'[p] = runnerAccepts[p] /\ runnerAccepts[p] # q
      BY <1>2, <2>9
    <3>2. /\ runnerAccepts[p] \in Pending(pendingTaskRequests)
          /\ caller[runnerAccepts[p]] = "asked" /\ runnerAccepts[p] \in Requests
      BY <3>1 DEF BrokerInv, AcceptFindsRequest, BrokerTypeOK
    <3> QED
      BY <2>5, <2>8, <3>1, <3>2
  <2>11. OneTaskPerRequest'
    BY <1>2, <1>4, <2>8, <2>9 DEF BrokerInv, OneTaskPerRequest
  <2>12. NobodyForgotten'
    <3> SUFFICES ASSUME NEW r \in Requests
                 PROVE  /\ caller'[r] = "asked" =>
                              /\ r \in Pending(pendingTaskRequests)'
                              /\ r \in acceptInProgress' => \E p \in Offers : runnerAccepts'[p] = r
                        /\ caller'[r] = "started" =>
                              \E p \in Offers : tasks'[p] = r /\ taskAccepts'[p] = r
      BY DEF NobodyForgotten
    <3>1. CASE r = q
      BY <2>8, <3>1
    <3>2. CASE r # q
      <4>1. caller'[r] = caller[r] /\ acceptInProgress' = acceptInProgress
        BY <1>1, <2>8, <3>2
      <4>2. ASSUME caller[r] = "asked"
            PROVE  /\ r \in Pending(pendingTaskRequests)'
                   /\ r \in acceptInProgress => \E p \in Offers : runnerAccepts'[p] = r
        BY <1>2, <2>5, <3>2, <4>2 DEF BrokerInv, NobodyForgotten
      <4>3. ASSUME caller[r] = "started"
            PROVE  \E p \in Offers : tasks'[p] = r /\ taskAccepts'[p] = r
        <5>1. PICK p \in Offers : tasks[p] = r /\ taskAccepts[p] = r
          BY <4>3 DEF BrokerInv, NobodyForgotten
        <5>2. p # o
          BY <2>9, <5>1, BrokerAssumption
        <5> QED
          BY <2>8, <5>1, <5>2
      <4> QED
        BY <4>1, <4>2, <4>3
    <3> QED
      BY <3>1, <3>2
  <2>13. FlagsAgree'
    <3>1. q \in acceptInProgress
      BY <1>4 DEF BrokerInv, FlagsAgree
    <3>2. \A p \in Offers : runnerAccepts'[p] # NoRequest => runnerAccepts'[p] \in acceptInProgress'
      BY <1>1, <1>2 DEF BrokerInv, FlagsAgree
    <3>3. \A r \in Idle(pendingTaskRequests)' : r \in Idle(pendingTaskRequests) /\ r # q /\ r \in Requests
      BY <1>1, <2>4, <2>5, <3>1 DEF Idle, Pending
    <3>4. \A r \in Idle(pendingTaskRequests)' : caller'[r] = "asked"
      BY <2>8, <3>3 DEF BrokerInv, FlagsAgree
    <3>5. \A r \in Requests : caller'[r] = "idle" => r \notin acceptInProgress'
      BY <1>1, <2>8 DEF BrokerInv, FlagsAgree
    <3> QED
      BY <3>2, <3>4, <3>5 DEF FlagsAgree
  <2>14. TasksAgree'
    <3>1. tasks' = taskAccepts'
      BY <2>2 DEF BrokerInv, TasksAgree
    <3>2. ASSUME NEW p \in Offers, tasks'[p] # NoRequest
          PROVE  runnerAccepts'[p] = NoRequest /\ caller'[tasks'[p]] = "started"
      <4>1. CASE p = o
        BY <1>2, <2>8, <4>1
      <4>2. CASE p # o
        <5>1. tasks'[p] = tasks[p] /\ tasks[p] # NoRequest /\ tasks[p] # q
          BY <2>8, <2>9, <3>2, <4>2
        <5>2. /\ runnerAccepts[p] = NoRequest /\ caller[tasks[p]] = "started"
              /\ tasks[p] \in Requests
          BY <5>1 DEF BrokerInv, TasksAgree, BrokerTypeOK
        <5> QED
          BY <1>2, <2>8, <4>2, <5>1, <5>2
      <4> QED
        BY <4>1, <4>2
    <3> QED
      BY <3>1, <3>2 DEF TasksAgree
  <2>15. OffersOnce'
    <3>1. \A p \in Offers : Untouched(p) => Untouched(p)'
      BY <1>2, <1>4, <2>8 DEF Untouched
    <3>2. \A p \in pendingTaskOffers' : Untouched(p)'
      BY <1>1, <3>1 DEF BrokerInv, OffersOnce, BrokerTypeOK
    <3> QED
      BY <1>1, <3>1, <3>2 DEF OffersOnce, OffersFirst
  <2> QED
    BY <2>7, <2>10, <2>11, <2>12, <2>13, <2>14, <2>15 DEF BrokerInv
<1> QED
  BY <1>3, <1>4

\* Tasks end, and the requester learns of it.
LEMMA AnswerKeeps ==
    ASSUME BrokerInv, NEW ended \in SUBSET Offers, NEW result \in {"done", "error"},
           \A o \in ended : tasks[o] # NoRequest,
           Answer(ended, result),
           UNCHANGED <<pendingTaskRequests, acceptInProgress, runnerAccepts, runner>>,
           knownRunners' \subseteq Runners, connected' \subseteq knownRunners',
           pendingTaskOffers' \subseteq pendingTaskOffers,
           toBroker' \in ToBroker, OffersFirst(toBroker'), toRunner' \in ToRunner,
           late' \in Nat, lost' \in Nat, deferrals' \in Nat
    PROVE  BrokerInv'
<1> DEFINE calls == {taskAccepts[o] : o \in ended} \ {NoRequest}
<1>1. /\ caller' = [q \in Requests |-> IF q \in calls THEN result ELSE caller[q]]
      /\ taskAccepts' = [o \in Offers |-> IF o \in ended THEN NoRequest ELSE taskAccepts[o]]
      /\ tasks' = [o \in Offers |-> IF o \in ended THEN NoRequest ELSE tasks[o]]
  BY DEF Answer
<1>2. \A q \in calls : caller[q] = "started" /\ \E o \in ended : tasks[o] = q
  BY DEF BrokerInv, TasksAgree
<1>3. \A o \in ended : tasks[o] \in calls
  BY DEF BrokerInv, TasksAgree
<1> HIDE DEF calls
<1>4. BrokerTypeOK'
  BY <1>1 DEF BrokerInv, BrokerTypeOK, runner, ToBroker, ToRunner
<1>5. \A q \in Requests : /\ caller'[q] = "asked" <=> caller[q] = "asked"
                          /\ caller'[q] = "idle" <=> caller[q] = "idle"
                          /\ caller'[q] = "started" <=> caller[q] = "started" /\ q \notin calls
  BY <1>1, <1>2
<1>6. AcceptFindsRequest'
  BY <1>5 DEF BrokerInv, AcceptFindsRequest, BrokerTypeOK, Pending
<1>7. \A o \in Offers : tasks'[o] = (IF o \in ended THEN NoRequest ELSE tasks[o])
                        /\ taskAccepts'[o] = (IF o \in ended THEN NoRequest ELSE taskAccepts[o])
  BY <1>1
<1>8. OneTaskPerRequest'
  BY <1>7 DEF BrokerInv, OneTaskPerRequest
<1>9. NobodyForgotten'
  <2> SUFFICES ASSUME NEW q \in Requests
               PROVE  /\ caller'[q] = "asked" =>
                            /\ q \in Pending(pendingTaskRequests)
                            /\ q \in acceptInProgress => \E o \in Offers : runnerAccepts[o] = q
                      /\ caller'[q] = "started" =>
                            \E o \in Offers : tasks'[o] = q /\ taskAccepts'[o] = q
    BY DEF NobodyForgotten, Pending
  <2>1. ASSUME caller'[q] = "started"
        PROVE  \E o \in Offers : tasks'[o] = q /\ taskAccepts'[o] = q
    <3>1. PICK o \in Offers : tasks[o] = q /\ taskAccepts[o] = q
      BY <1>5, <2>1 DEF BrokerInv, NobodyForgotten
    <3>2. o \notin ended
      BY <1>3, <1>5, <2>1, <3>1
    <3> QED
      BY <1>7, <3>1, <3>2
  <2>2. caller'[q] = "asked" =>
            /\ q \in Pending(pendingTaskRequests)
            /\ q \in acceptInProgress => \E o \in Offers : runnerAccepts[o] = q
    BY <1>5 DEF BrokerInv, NobodyForgotten
  <2> QED
    BY <2>1, <2>2
<1>10. FlagsAgree'
  <2>1. Idle(pendingTaskRequests)' = Idle(pendingTaskRequests) /\ Idle(pendingTaskRequests) \subseteq Requests
    BY DEF Idle, Pending, BrokerInv, BrokerTypeOK
  <2> QED
    BY <1>5, <2>1 DEF BrokerInv, FlagsAgree
<1>11. TasksAgree'
  <2>1. tasks' = taskAccepts'
    BY <1>1 DEF BrokerInv, TasksAgree
  <2>2. ASSUME NEW o \in Offers, tasks'[o] # NoRequest
        PROVE  runnerAccepts'[o] = NoRequest /\ caller'[tasks'[o]] = "started"
    <3>1. o \notin ended /\ tasks'[o] = tasks[o]
      BY <1>7, <2>2
    <3>2. tasks[o] \notin calls
      BY <1>2, <2>2, <3>1 DEF BrokerInv, OneTaskPerRequest
    <3>3. runnerAccepts[o] = NoRequest /\ caller[tasks[o]] = "started" /\ tasks[o] \in Requests
      BY <2>2, <3>1 DEF BrokerInv, TasksAgree, BrokerTypeOK
    <3> QED
      BY <1>5, <3>1, <3>2, <3>3
  <2> QED
    BY <2>1, <2>2 DEF TasksAgree
<1>12. OffersOnce'
  <2>1. \A o \in Offers : Untouched(o) => Untouched(o)'
    BY <1>7 DEF Untouched
  <2> QED
    BY <2>1 DEF BrokerInv, OffersOnce, OffersFirst, BrokerTypeOK
<1> QED
  BY <1>4, <1>6, <1>8, <1>9, <1>10, <1>11, <1>12 DEF BrokerInv

\* What the broker does with a runner's answer, with its timers and with runners that
\* come and go.
LEMMA BrokerStepsKeep ==
    ASSUME BrokerInv, NEW o \in Offers, NEW w \in Runners,
           \/ Handle(o) \/ AcceptTimesOut(o) \/ HandleTaskTimeout(o)
           \/ RegisterRunner(w) \/ DeregisterRunner(w)
    PROVE  BrokerInv'
<1>0. /\ pendingTaskRequests \in Seq(Requests)
      /\ toBroker \in ToBroker /\ OffersFirst(toBroker) /\ toRunner \in ToRunner
      /\ knownRunners \subseteq Runners /\ connected \subseteq knownRunners
      /\ late \in Nat /\ lost \in Nat /\ deferrals \in Nat
  BY DEF BrokerInv, BrokerTypeOK, ToBroker, ToRunner, OffersOnce
<1>1. CASE TaskOffered(o)
  BY <1>1, TaskOfferedKeeps
<1>2. CASE HandleRunnerAccept(o)
  BY <1>2, HandleRunnerAcceptKeeps
<1>3. CASE HandleRunnerReject(o)
  <2>1. toBroker' \in ToBroker /\ OffersFirst(toBroker')
    BY <1>3, ReceiveFacts DEF HandleRunnerReject
  <2>2. Pending(pendingTaskRequests)' = Pending(pendingTaskRequests)
    BY <1>3 DEF HandleRunnerReject, Pending
  <2> QED
    BY <1>0, <1>3, <2>1, <2>2, GiveUpKeeps DEF HandleRunnerReject
<1>4. CASE HandleRunnerDeferred(o)
  <2>1. toBroker' \in ToBroker /\ OffersFirst(toBroker')
    BY <1>4, ReceiveFacts DEF HandleRunnerDeferred
  <2>2. /\ pendingTaskRequests' \in Seq(Requests)
        /\ Pending(pendingTaskRequests)' = Pending(pendingTaskRequests)
    <3>1. CASE runnerAccepts[o] = NoRequest
      BY <1>0, <1>4, <3>1 DEF HandleRunnerDeferred, Pending
    <3>2. CASE runnerAccepts[o] # NoRequest
      <4>1. runnerAccepts[o] \in Pending(pendingTaskRequests) /\ runnerAccepts[o] \in Requests
        <5>1. runnerAccepts[o] \in Requests
          BY <3>2 DEF BrokerInv, BrokerTypeOK
        <5>2. runnerAccepts[o] \in Pending(pendingTaskRequests)
          BY <3>2 DEF BrokerInv, AcceptFindsRequest
        <5> QED
          BY <5>1, <5>2
      <4>2. pendingTaskRequests' = Append(pendingTaskRequests, runnerAccepts[o])
        BY <1>4, <3>2 DEF HandleRunnerDeferred
      <4>3. Pending(pendingTaskRequests)' = Pending(Append(pendingTaskRequests, runnerAccepts[o]))
        BY <4>2 DEF Pending
      <4>4. /\ Append(pendingTaskRequests, runnerAccepts[o]) \in Seq(Requests)
            /\ Pending(Append(pendingTaskRequests, runnerAccepts[o]))
                  = Pending(pendingTaskRequests) \cup {runnerAccepts[o]}
        BY <1>0, <4>1, AppendFacts
      <4> QED
        BY <4>1, <4>2, <4>3, <4>4
    <3> QED
      BY <3>1, <3>2
  <2> QED
    BY <1>0, <1>4, <2>1, <2>2, GiveUpKeeps DEF HandleRunnerDeferred
<1>5. CASE AcceptTimesOut(o)
  <2>1. late' \in Nat /\ Pending(pendingTaskRequests)' = Pending(pendingTaskRequests)
    BY <1>0, <1>5 DEF AcceptTimesOut, Pending
  <2> QED
    BY <1>0, <1>5, <2>1, GiveUpKeeps DEF AcceptTimesOut
<1>6. ASSUME NEW result \in {"done", "error"}, TaskEnds(o, result)
      PROVE  BrokerInv'
  <2>1. toBroker' \in ToBroker /\ OffersFirst(toBroker')
    BY <1>6, ReceiveFacts DEF TaskEnds
  <2>2. Known(o) \in SUBSET Offers /\ \A t \in Known(o) : tasks[t] # NoRequest
    BY DEF Known
  <2> QED
    BY <1>0, <1>6, <2>1, <2>2, AnswerKeeps DEF TaskEnds, runner
<1>7. CASE HandleTaskTimeout(o)
  <2>1. toRunner' \in ToRunner
    BY <1>7, ToRunnerFacts DEF HandleTaskTimeout, BrokerInv
  <2>2. {o} \in SUBSET Offers /\ \A t \in {o} : tasks[t] # NoRequest
    BY <1>7 DEF HandleTaskTimeout
  <2>3. late' \in Nat
    BY <1>0, <1>7 DEF HandleTaskTimeout
  <2> QED
    BY <1>0, <1>7, <2>1, <2>2, <2>3, AnswerKeeps DEF HandleTaskTimeout, runner
<1>8. CASE RegisterRunner(w)
  <2>1. /\ knownRunners' \subseteq Runners /\ connected' \subseteq knownRunners'
        /\ UNCHANGED Elsewhere /\ toBroker' = toBroker /\ toRunner' = toRunner
        /\ late' = late /\ lost' = lost /\ deferrals' = deferrals
        /\ openOffers' = openOffers /\ runningTasks' = runningTasks
    BY <1>0, <1>8 DEF RegisterRunner, Elsewhere
  <2>2. openOffers \subseteq Offers /\ runningTasks \in [Offers -> TaskStatuses]
    BY DEF BrokerInv, BrokerTypeOK
  <2> QED
    BY <1>0, <2>1, <2>2, RunnerStepKeeps
<1>9. CASE DeregisterRunner(w)
  <2> DEFINE ended == {p \in OffersOf(w) : tasks[p] # NoRequest}
  <2>1. /\ ended \in SUBSET Offers /\ \A p \in ended : tasks[p] # NoRequest
        /\ Answer(ended, "error")
    BY <1>9 DEF DeregisterRunner, OffersOf
  <2>2. /\ knownRunners' \subseteq Runners /\ connected' \subseteq knownRunners'
        /\ pendingTaskOffers' \subseteq pendingTaskOffers
        /\ UNCHANGED <<pendingTaskRequests, acceptInProgress, runnerAccepts, runner>>
        /\ toBroker' = toBroker /\ toRunner' = toRunner
        /\ late' = late /\ lost' = lost /\ deferrals' = deferrals
    BY <1>0, <1>9 DEF DeregisterRunner, runner
  <2> HIDE DEF ended
  <2> QED
    BY <1>0, <2>1, <2>2, AnswerKeeps
<1>10. CASE Handle(o)
  BY <1>1, <1>2, <1>3, <1>4, <1>6, <1>10 DEF Handle
<1> QED
  BY <1>5, <1>7, <1>8, <1>9, <1>10

\* The runner's own steps.
LEMMA SendingKeeps ==
    ASSUME BrokerInv, NEW w \in Runners, NEW status \in [Offers -> TaskStatuses],
           NEW out \in ToBroker, OffersFirst(out), SendOffers(w, status, out),
           \A o \in Offers : Fresh(o) => out[o] = << >>,
           UNCHANGED <<broker, requester, connected, lost, deferrals>>, toRunner' \in ToRunner
    PROVE  BrokerInv'
<1>1. /\ toBroker' \in ToBroker /\ OffersFirst(toBroker')
      /\ openOffers' \subseteq Offers /\ runningTasks' \in [Offers -> TaskStatuses]
      /\ late' \in Nat
  BY SendOffersFacts
<1>2. /\ knownRunners' \subseteq Runners /\ connected' \subseteq knownRunners'
      /\ lost' \in Nat /\ deferrals' \in Nat /\ UNCHANGED Elsewhere
  BY DEF BrokerInv, BrokerTypeOK, broker, Elsewhere
<1> QED
  BY <1>1, <1>2, RunnerStepKeeps

LEMMA FinishTaskKeeps ==
    ASSUME BrokerInv, NEW o \in Offers, runningTasks[o] # "none",
           NEW out \in ToBroker, OffersFirst(out),
           \A p \in Offers \ {o} : out[p] = toBroker[p], FinishTask(o, out),
           UNCHANGED <<broker, requester, connected, lost, deferrals>>, toRunner' \in ToRunner
    PROVE  BrokerInv'
<1> DEFINE status == [runningTasks EXCEPT ![o] = "none"]
<1>1. status \in [Offers -> TaskStatuses]
  BY DEF BrokerInv, BrokerTypeOK, TaskStatuses
<1>2. SendOffers(RunnerOf(o), status, out) /\ RunnerOf(o) \in Runners
  BY RunnerFacts DEF FinishTask
<1>3. \A p \in Offers : Fresh(p) => out[p] = << >>
  BY DEF Fresh
<1> HIDE DEF status
<1> QED
  BY <1>1, <1>2, <1>3, SendingKeeps

\* What runners do, and what happens to their connections.
LEMMA RunnerStepsKeep ==
    ASSUME BrokerInv, NEW o \in Offers, NEW w \in Runners,
           \/ RunnerHandle(o) \/ TaskTimedOut(o)
           \/ ExecutionEnds(o, "done") \/ ExecutionEnds(o, "error")
           \/ OfferInterval(w) \/ ConnectionLost(w) \/ LauncherOffers(w, o)
    PROVE  BrokerInv'
<1>0. /\ toBroker \in ToBroker /\ OffersFirst(toBroker) /\ toRunner \in ToRunner
      /\ knownRunners \subseteq Runners /\ connected \subseteq knownRunners
      /\ openOffers \subseteq Offers /\ runningTasks \in [Offers -> TaskStatuses]
      /\ late \in Nat /\ lost \in Nat /\ deferrals \in Nat
  BY DEF BrokerInv, BrokerTypeOK, ToBroker, ToRunner, OffersOnce
<1>1. CASE OfferAccepted(o)
  <2>1. /\ toBroker' \in ToBroker /\ OffersFirst(toBroker')
        /\ runningTasks' \in [Offers -> TaskStatuses] /\ openOffers' \subseteq Offers
    BY <1>0, <1>1, ReplyFacts DEF OfferAccepted, TaskStatuses
  <2>2. toRunner' \in ToRunner
    BY <1>1, ToRunnerFacts DEF OfferAccepted, Receives, BrokerInv
  <2>3. UNCHANGED <<broker, requester, connected, late, lost, deferrals>>
    BY <1>1 DEF OfferAccepted
  <2> QED
    BY <1>0, <2>1, <2>2, <2>3, RunnerStepKeeps DEF broker, Elsewhere
<1>2. CASE ReceivedSettings(o)
  <2>1. runningTasks' \in [Offers -> TaskStatuses]
    BY <1>0, <1>2 DEF ReceivedSettings, TaskStatuses
  <2>2. toRunner' \in ToRunner
    BY <1>2, ToRunnerFacts DEF ReceivedSettings, Receives, BrokerInv
  <2>3. UNCHANGED <<broker, requester, connected, openOffers, toBroker, late, lost, deferrals>>
    BY <1>2 DEF ReceivedSettings
  <2> QED
    BY <1>0, <2>1, <2>2, <2>3, RunnerStepKeeps DEF broker, Elsewhere
<1>3. CASE TaskCancelled(o)
  <2>1. /\ toRunner' \in ToRunner
        /\ UNCHANGED <<broker, requester, connected, lost, deferrals>>
    BY <1>3, ToRunnerFacts DEF TaskCancelled, Receives, BrokerInv
  <2>2. CASE runningTasks[o] = "waitingForSettings" /\ FinishTask(o, toBroker)
    BY <1>0, <2>1, <2>2, FinishTaskKeeps
  <2>3. CASE UNCHANGED <<openOffers, toBroker, late>>
             /\ runningTasks' = [runningTasks EXCEPT ![o] =
                                   IF @ = "running" THEN "aborting:cancelled" ELSE @]
    <3>1. runningTasks' \in [Offers -> TaskStatuses]
      BY <1>0, <2>3 DEF TaskStatuses
    <3> QED
      BY <1>0, <2>1, <2>3, <3>1, RunnerStepKeeps DEF broker, Elsewhere
  <2> QED
    BY <1>3, <2>2, <2>3 DEF TaskCancelled
<1>4. CASE LauncherDefers(o)
  <2>1. toBroker' \in ToBroker /\ OffersFirst(toBroker')
    BY <1>4, ReplyFacts DEF LauncherDefers
  <2>2. toRunner' \in ToRunner
    BY <1>4, ToRunnerFacts DEF LauncherDefers, Receives, BrokerInv
  <2>3. UNCHANGED <<broker, requester, runner, late, lost, deferrals>>
    BY <1>4 DEF LauncherDefers
  <2> QED
    BY <1>0, <2>1, <2>2, <2>3, RunnerStepKeeps DEF broker, runner, Elsewhere
<1>5. CASE TaskTimedOut(o)
  <2>1. UNCHANGED <<broker, requester, connected, toRunner, lost, deferrals>>
    BY <1>5 DEF TaskTimedOut
  <2>2. CASE runningTasks[o] = "waitingForSettings" /\ FinishTask(o, Send(toBroker, o, "error"))
    <3>1. /\ Send(toBroker, o, "error") \in ToBroker
          /\ OffersFirst(Send(toBroker, o, "error"))
          /\ \A p \in Offers \ {o} : Send(toBroker, o, "error")[p] = toBroker[p]
      BY ReplyFacts
    <3> QED
      BY <1>0, <2>1, <2>2, <3>1, FinishTaskKeeps
  <2>3. CASE runningTasks' = [runningTasks EXCEPT ![o] = "aborting:timeout"]
             /\ UNCHANGED <<openOffers, toBroker, late>>
    <3>1. runningTasks' \in [Offers -> TaskStatuses]
      BY <1>0, <2>3 DEF TaskStatuses
    <3> QED
      BY <1>0, <2>1, <2>3, <3>1, RunnerStepKeeps DEF broker, Elsewhere
  <2> QED
    BY <1>5, <2>2, <2>3 DEF TaskTimedOut
<1>6. ASSUME NEW result \in {"done", "error"}, ExecutionEnds(o, result)
      PROVE  BrokerInv'
  <2>1. UNCHANGED <<broker, requester, connected, toRunner, lost, deferrals>>
    BY <1>6 DEF ExecutionEnds
  <2>2. CASE runningTasks[o] # "none" /\ FinishTask(o, Send(toBroker, o, result))
    <3>1. /\ Send(toBroker, o, result) \in ToBroker
          /\ OffersFirst(Send(toBroker, o, result))
          /\ \A p \in Offers \ {o} : Send(toBroker, o, result)[p] = toBroker[p]
      BY ReplyFacts
    <3> QED
      BY <1>0, <2>1, <2>2, <3>1, FinishTaskKeeps
  <2>3. CASE runningTasks[o] # "none" /\ FinishTask(o, toBroker)
    BY <1>0, <2>1, <2>3, FinishTaskKeeps
  <2> QED
    BY <1>6, <2>2, <2>3 DEF ExecutionEnds
<1>7. CASE OfferInterval(w)
  <2>1. /\ SendOffers(w, runningTasks, toBroker)
        /\ UNCHANGED <<broker, requester, connected, toRunner, lost, deferrals>>
    BY <1>7 DEF OfferInterval
  <2>2. \A p \in Offers : Fresh(p) => toBroker[p] = << >>
    BY DEF Fresh
  <2> QED
    BY <1>0, <2>1, <2>2, SendingKeeps
<1>8. CASE ConnectionLost(w)
  <2>1. /\ connected' = connected \ {w} /\ openOffers' = openOffers \ OffersOf(w)
        /\ runningTasks' = [p \in Offers |-> IF RunnerOf(p) = w THEN "none" ELSE runningTasks[p]]
        /\ toBroker' = [p \in Offers |-> IF RunnerOf(p) = w THEN << >> ELSE toBroker[p]]
        /\ toRunner' = [p \in Offers |-> IF RunnerOf(p) = w THEN << >> ELSE toRunner[p]]
        /\ lost' = lost + 1 /\ UNCHANGED <<broker, requester, late, deferrals>>
    BY <1>8 DEF ConnectionLost
  <2>2. /\ toBroker' \in ToBroker /\ toRunner' \in ToRunner
        /\ runningTasks' \in [Offers -> TaskStatuses]
    BY <1>0, <2>1 DEF ToBroker, ToRunner, TaskStatuses
  <2>3. OffersFirst(toBroker')
    BY <1>0, <2>1 DEF OffersFirst
  <2> QED
    BY <1>0, <2>1, <2>2, <2>3, RunnerStepKeeps DEF broker, Elsewhere
<1>9. CASE LauncherOffers(w, o)
  <2>1. /\ Fresh(o) /\ toBroker' = Send(toBroker, o, "offer") /\ deferrals' = deferrals + 1
        /\ UNCHANGED <<broker, requester, runner, toRunner, late, lost>>
    BY <1>9 DEF LauncherOffers
  <2>2. /\ toBroker[o] = << >> /\ o \notin pendingTaskOffers /\ Untouched(o)
    BY <2>1 DEF Fresh, Untouched
  <2>3. \/ toBroker' = toBroker
        \/ toBroker' = [toBroker EXCEPT ![o] = <<"offer">>]
    <3>1. Append(toBroker[o], "offer") = <<"offer">>
      BY <2>2
    <3>2. \/ toBroker' = toBroker
          \/ toBroker' = [toBroker EXCEPT ![o] = Append(toBroker[o], "offer")]
      BY <2>1 DEF Send
    <3> QED
      BY <3>1, <3>2
  <2>4. toBroker' \in ToBroker
    <3>1. <<"offer">> \in Seq({"offer", "accepted", "rejected", "deferred", "done", "error"})
      OBVIOUS
    <3> QED
      BY <1>0, <2>3, <3>1 DEF ToBroker
  <2>5. OffersFirst(toBroker')
    <3>1. CASE toBroker' = toBroker
      BY <1>0, <3>1
    <3>2. CASE toBroker' = [toBroker EXCEPT ![o] = <<"offer">>]
      <4>1. toBroker'[o] = <<"offer">> /\ \A p \in Offers \ {o} : toBroker'[p] = toBroker[p]
        BY <1>0, <3>2 DEF ToBroker
      <4>2. \A i \in 1..Len(toBroker'[o]) : i = 1
        <5>1. Len(toBroker'[o]) = 1
          BY <4>1
        <5> QED
          BY <5>1
      <4> QED
        BY <1>0, <2>2, <4>1, <4>2 DEF OffersFirst
    <3> QED
      BY <2>3, <3>1, <3>2
  <2> QED
    BY <1>0, <2>1, <2>4, <2>5, RunnerStepKeeps DEF broker, runner, Elsewhere
<1> QED
  BY <1>1, <1>2, <1>3, <1>4, <1>5, <1>6, <1>7, <1>8, <1>9 DEF RunnerHandle

\* Nothing that happens, in whatever order, breaks the invariant.
LEMMA NextKeepsBroker == BrokerInv /\ [Next]_vars => BrokerInv'
<1> SUFFICES ASSUME BrokerInv, [Next]_vars PROVE BrokerInv'
  OBVIOUS
<1>1. ASSUME NEW q \in Requests, StartTask(q) PROVE BrokerInv'
  BY <1>1, StartTaskKeeps
<1>2. ASSUME NEW o \in Offers,
             \/ Handle(o) \/ AcceptTimesOut(o) \/ HandleTaskTimeout(o)
             \/ RunnerHandle(o) \/ TaskTimedOut(o)
             \/ ExecutionEnds(o, "done") \/ ExecutionEnds(o, "error")
      PROVE  BrokerInv'
  BY <1>2, RunnerFacts, BrokerStepsKeep, RunnerStepsKeep
<1>3. ASSUME NEW w \in Runners,
             \/ RegisterRunner(w) \/ DeregisterRunner(w) \/ OfferInterval(w) \/ ConnectionLost(w)
             \/ \E o \in Offers : LauncherOffers(w, o)
      PROVE  BrokerInv'
  <2>1. <<w, 1>> \in Offers
    <3>1. 1 \in 1..MaxOffers
      BY BrokerAssumption
    <3> QED
      BY <3>1 DEF Offers
  <2>2. CASE RegisterRunner(w) \/ DeregisterRunner(w)
    BY <2>1, <2>2, BrokerStepsKeep
  <2>3. CASE OfferInterval(w) \/ ConnectionLost(w)
    BY <2>1, <2>3, RunnerStepsKeep
  <2>4. CASE \E o \in Offers : LauncherOffers(w, o)
    BY <2>4, RunnerStepsKeep
  <2> QED
    BY <1>3, <2>2, <2>3, <2>4
<1>4. CASE UNCHANGED vars
  <2>1. UNCHANGED Elsewhere /\ knownRunners' \subseteq Runners /\ connected' \subseteq knownRunners'
        /\ openOffers' \subseteq Offers /\ runningTasks' \in [Offers -> TaskStatuses]
        /\ toBroker' \in ToBroker /\ toRunner' \in ToRunner
        /\ late' \in Nat /\ lost' \in Nat /\ deferrals' \in Nat /\ OffersFirst(toBroker')
    BY <1>4 DEF vars, Elsewhere, requester, BrokerInv, BrokerTypeOK, ToBroker, ToRunner, OffersOnce
  <2> QED
    BY <2>1, RunnerStepKeeps
<1> QED
  BY <1>1, <1>2, <1>3, <1>4 DEF Next

\* The type invariant of the broker, its requester and its runners.
THEOREM BrokerIsTyped == Spec => []BrokerTypeOK
<1>1. BrokerInv => BrokerTypeOK
  BY DEF BrokerInv
<1> QED
  BY InitBroker, NextKeepsBroker, <1>1, PTL DEF Spec

\* "Failed to find task request after a task was accepted" is never raised: whatever
\* times out, is deferred, answers late or goes away, the request is in the queue.
THEOREM AcceptAlwaysFindsRequest == Spec => []AcceptFindsRequest
<1>1. BrokerInv => AcceptFindsRequest
  BY DEF BrokerInv
<1> QED
  BY InitBroker, NextKeepsBroker, <1>1, PTL DEF Spec

\* No code is run twice: a request is in the hands of one runner and becomes one task.
THEOREM RequestsAreGivenOnce == Spec => []OneTaskPerRequest
<1>1. BrokerInv => OneTaskPerRequest
  BY DEF BrokerInv
<1> QED
  BY InitBroker, NextKeepsBroker, <1>1, PTL DEF Spec

\* No call is dropped: it is in the queue and idle, or has a timer, or has a task.
THEOREM NobodyIsForgotten == Spec => []NobodyForgotten
<1>1. BrokerInv => NobodyForgotten
  BY DEF BrokerInv
<1> QED
  BY InitBroker, NextKeepsBroker, <1>1, PTL DEF Spec

-----------------------------------------------------------------------------
(* The runner's side of the broker: its slots, and what may be on its way to it when *)

InMessages == {"accept", "settings", "cancel"}
OutMessages == {"offer", "accepted", "rejected", "deferred", "done", "error"}

Has(s, m) == \E i \in 1..Len(s) : s[i] = m
Once(s, m) == \A i, j \in 1..Len(s) : s[i] = m /\ s[j] = m => i = j

\* An offer and the task that comes of it pass from hand to hand: it is open or on its way to
\* the broker, then its acceptance is on its way to the runner, then the runner's answer is on
\* its way back, then the settings follow - one after the other, and each once.  Until they
\* have arrived the runner's task is over or waits for them.
OneHand(in, out, status, open) ==
    /\ Once(in, "accept") /\ Once(in, "settings") /\ Once(out, "accepted")
    /\ open \/ Has(out, "offer") =>
          ~Has(in, "accept") /\ ~Has(in, "settings") /\ ~Has(out, "accepted")
    /\ Has(in, "accept") => ~Has(in, "settings") /\ ~Has(out, "accepted")
    /\ Has(out, "accepted") => ~Has(in, "settings")
    /\ Has(in, "settings") \/ Has(out, "accepted") => status \in {"none", "waitingForSettings"}

InStep ==
    \A o \in Offers : OneHand(toRunner[o], toBroker[o], runningTasks[o], o \in pendingTaskOffers)

\* The inductive invariant.
RunnerInv == BrokerInv /\ InStep /\ WithinCapacity

-----------------------------------------------------------------------------
(* Messages in a channel *)

\* Sending a message adds it, and it is there once if it was not there before.
LEMMA AppendHas ==
    ASSUME NEW S, NEW s \in Seq(S), NEW e \in S, NEW m
    PROVE  /\ Has(Append(s, e), m) <=> Has(s, m) \/ e = m
           /\ Once(s, m) /\ (e = m => ~Has(s, m)) => Once(Append(s, e), m)
<1> DEFINE t == Append(s, e)
<1>1. /\ Len(s) \in Nat /\ Len(t) = Len(s) + 1
      /\ \A i \in 1..Len(s) : t[i] = s[i]
      /\ t[Len(s) + 1] = e
  OBVIOUS
<1> HIDE DEF t
<1>2. 1..Len(t) = 1..Len(s) \cup {Len(s) + 1} /\ Len(s) + 1 \notin 1..Len(s)
  BY <1>1
<1>3. Has(t, m) <=> Has(s, m) \/ e = m
  BY <1>1, <1>2 DEF Has
<1>4. Once(s, m) /\ (e = m => ~Has(s, m)) => Once(t, m)
  BY <1>1, <1>2 DEF Once, Has
<1> QED
  BY <1>3, <1>4 DEF t

\* Receiving the first message takes it away, and no other.
LEMMA TailHas ==
    ASSUME NEW S, NEW s \in Seq(S), s # << >>
    PROVE  /\ Tail(s) \in Seq(S)
           /\ Has(s, Head(s))
           /\ \A m : Has(Tail(s), m) => Has(s, m)
           /\ \A m : Once(s, m) => Once(Tail(s), m)
           /\ Once(s, Head(s)) => ~Has(Tail(s), Head(s))
<1> DEFINE t == Tail(s)
<1>1. /\ t \in Seq(S) /\ Len(s) \in Nat \ {0} /\ Len(t) = Len(s) - 1
      /\ \A i \in 1..Len(t) : t[i] = s[i + 1]
      /\ Head(s) = s[1]
  OBVIOUS
<1> HIDE DEF t
<1>2. 1 \in 1..Len(s) /\ \A i \in 1..Len(t) : i + 1 \in 1..Len(s) /\ i + 1 # 1
  BY <1>1
<1>3. Has(s, Head(s))
  BY <1>1, <1>2 DEF Has
<1>4. \A m : Has(t, m) => Has(s, m)
  BY <1>1, <1>2 DEF Has
<1>5. \A m : Once(s, m) => Once(t, m)
  <2> SUFFICES ASSUME NEW m, Once(s, m), NEW i \in 1..Len(t), NEW j \in 1..Len(t),
                      t[i] = m, t[j] = m
               PROVE  i = j
    BY DEF Once
  <2>1. s[i + 1] = m /\ s[j + 1] = m /\ i + 1 \in 1..Len(s) /\ j + 1 \in 1..Len(s)
    BY <1>1, <1>2
  <2>2. i + 1 = j + 1
    BY <2>1 DEF Once
  <2> QED
    BY <2>2, <1>1
<1>6. Once(s, Head(s)) => ~Has(t, Head(s))
  BY <1>1, <1>2 DEF Once, Has
<1> QED
  BY <1>1, <1>3, <1>4, <1>5, <1>6 DEF t

\* A channel without messages has none.
LEMMA EmptyHas == \A m : ~Has(<< >>, m) /\ Once(<< >>, m)
BY DEF Has, Once

-----------------------------------------------------------------------------
(* What a step may do to one offer and the task that comes of it *)

\* Messages that hand nothing over, and an offer that is withdrawn.
LEMMA NothingHandedOver ==
    ASSUME NEW in \in Seq(InMessages), NEW out \in Seq(OutMessages), NEW status, NEW open \in BOOLEAN,
           OneHand(in, out, status, open)
    PROVE  /\ OneHand(in, out, status, FALSE)
           /\ OneHand(Append(in, "cancel"), out, status, open)
           /\ \A m \in {"rejected", "deferred", "done", "error"} : OneHand(in, Append(out, m), status, open)
<1>1. OneHand(in, out, status, FALSE)
  BY DEF OneHand
<1>2. OneHand(Append(in, "cancel"), out, status, open)
  <2>1. /\ \A m : m # "cancel" => (Has(Append(in, "cancel"), m) <=> Has(in, m))
        /\ \A m : m # "cancel" /\ Once(in, m) => Once(Append(in, "cancel"), m)
    <3> SUFFICES ASSUME NEW m, m # "cancel"
                 PROVE  /\ Has(Append(in, "cancel"), m) <=> Has(in, m)
                        /\ Once(in, m) => Once(Append(in, "cancel"), m)
      OBVIOUS
    <3>1. "cancel" \in InMessages
      BY DEF InMessages
    <3> QED
      BY <3>1, AppendHas
  <2> HIDE DEF InMessages
  <2> QED
    BY <2>1 DEF OneHand
<1>3. ASSUME NEW e \in {"rejected", "deferred", "done", "error"}
      PROVE  OneHand(in, Append(out, e), status, open)
  <2>1. /\ \A m : m # e => (Has(Append(out, e), m) <=> Has(out, m))
        /\ \A m : m # e /\ Once(out, m) => Once(Append(out, e), m)
    <3> SUFFICES ASSUME NEW m, m # e
                 PROVE  /\ Has(Append(out, e), m) <=> Has(out, m)
                        /\ Once(out, m) => Once(Append(out, e), m)
      OBVIOUS
    <3>1. e \in OutMessages
      BY DEF OutMessages
    <3> QED
      BY <3>1, AppendHas
  <2>2. e # "offer" /\ e # "accepted"
    OBVIOUS
  <2> QED
    BY <2>1, <2>2 DEF OneHand
<1> QED
  BY <1>1, <1>2, <1>3

\* The broker takes an open offer.
LEMMA OfferTaken ==
    ASSUME NEW in \in Seq(InMessages), NEW out \in Seq(OutMessages), NEW status,
           OneHand(in, out, status, TRUE), ~Has(out, "offer")
    PROVE  OneHand(Append(in, "accept"), out, status, FALSE)
<1>1. "accept" \in InMessages
  BY DEF InMessages
<1>2. /\ \A m : Has(Append(in, "accept"), m) <=> Has(in, m) \/ m = "accept"
      /\ \A m : Once(in, m) /\ ~Has(in, "accept") => Once(Append(in, "accept"), m)
  BY <1>1, AppendHas
<1> QED
  BY <1>2 DEF OneHand

\* The broker receives a message; an offer is then open, and an acceptance may be answered
\* with the settings.
LEMMA BrokerReceives ==
    ASSUME NEW in \in Seq(InMessages), NEW out \in Seq(OutMessages), out # << >>,
           NEW status, NEW open \in BOOLEAN, OneHand(in, out, status, open)
    PROVE  /\ OneHand(in, Tail(out), status, open)
           /\ Head(out) = "offer" => OneHand(in, Tail(out), status, TRUE)
           /\ Head(out) = "accepted" => OneHand(Append(in, "settings"), Tail(out), status, open)
<1>1. /\ Has(out, Head(out))
      /\ \A m : Has(Tail(out), m) => Has(out, m)
      /\ \A m : Once(out, m) => Once(Tail(out), m)
      /\ Once(out, Head(out)) => ~Has(Tail(out), Head(out))
  BY TailHas
<1>2. OneHand(in, Tail(out), status, open)
  BY <1>1 DEF OneHand
<1>3. ASSUME Head(out) = "offer" PROVE OneHand(in, Tail(out), status, TRUE)
  BY <1>1, <1>3 DEF OneHand
<1>4. ASSUME Head(out) = "accepted" PROVE OneHand(Append(in, "settings"), Tail(out), status, open)
  <2>1. "settings" \in InMessages
    BY DEF InMessages
  <2>2. /\ \A m : Has(Append(in, "settings"), m) <=> Has(in, m) \/ m = "settings"
        /\ \A m : Once(in, m) /\ ~Has(in, "settings") => Once(Append(in, "settings"), m)
    BY <2>1, AppendHas
  <2> QED
    BY <1>1, <1>4, <2>2 DEF OneHand
<1> QED
  BY <1>2, <1>3, <1>4

\* The runner receives a message: it may accept what the broker has taken, and begin when the
\* settings are there.
LEMMA RunnerReceives ==
    ASSUME NEW in \in Seq(InMessages), in # << >>, NEW out \in Seq(OutMessages),
           NEW status, NEW open \in BOOLEAN, OneHand(in, out, status, open)
    PROVE  /\ OneHand(Tail(in), out, status, open)
           /\ Head(in) = "accept" =>
                  /\ OneHand(Tail(in), out, "waitingForSettings", open)
                  /\ OneHand(Tail(in), Append(out, "accepted"), "waitingForSettings", open)
           /\ Head(in) = "settings" => \A any : OneHand(Tail(in), out, any, open)
<1>1. /\ Has(in, Head(in))
      /\ \A m : Has(Tail(in), m) => Has(in, m)
      /\ \A m : Once(in, m) => Once(Tail(in), m)
      /\ Once(in, Head(in)) => ~Has(Tail(in), Head(in))
  BY TailHas
<1>2. OneHand(Tail(in), out, status, open)
  BY <1>1 DEF OneHand
<1>3. ASSUME Head(in) = "accept"
      PROVE  /\ OneHand(Tail(in), out, "waitingForSettings", open)
             /\ OneHand(Tail(in), Append(out, "accepted"), "waitingForSettings", open)
  <2>1. "accepted" \in OutMessages
    BY DEF OutMessages
  <2>2. /\ \A m : Has(Append(out, "accepted"), m) <=> Has(out, m) \/ m = "accepted"
        /\ \A m : Once(out, m) /\ ~Has(out, "accepted") => Once(Append(out, "accepted"), m)
    BY <2>1, AppendHas
  <2> QED
    BY <1>1, <1>3, <2>2 DEF OneHand
<1>4. ASSUME Head(in) = "settings", NEW any PROVE OneHand(Tail(in), out, any, open)
  BY <1>1, <1>4 DEF OneHand
<1> QED
  BY <1>2, <1>3, <1>4

\* The runner's task is over, or was begun and is in another state now.
LEMMA StatusChanges ==
    ASSUME NEW in, NEW out, NEW status, NEW open \in BOOLEAN, OneHand(in, out, status, open)
    PROVE  /\ OneHand(in, out, "none", open)
           /\ status \notin {"none", "waitingForSettings"} => \A any : OneHand(in, out, any, open)
BY DEF OneHand

\* Nothing is on its way, or a new offer is.
LEMMA NewOffer ==
    \A status : \A open \in BOOLEAN :
        OneHand(<< >>, << >>, status, open) /\ OneHand(<< >>, Append(<< >>, "offer"), status, open)
<1>1. "offer" \in OutMessages /\ << >> \in Seq(OutMessages)
  BY DEF OutMessages
<1>2. \A m : /\ Has(Append(<< >>, "offer"), m) <=> m = "offer"
             /\ Once(Append(<< >>, "offer"), m)
  BY <1>1, AppendHas, EmptyHas
<1> QED
  BY <1>2, EmptyHas DEF OneHand

-----------------------------------------------------------------------------
(* The slots of a runner *)

\* What a runner offers and runs can be counted.
LEMMA SlotsFinite ==
    ASSUME BrokerInv, NEW w \in Runners
    PROVE  /\ IsFiniteSet(openOffers \cap OffersOf(w)) /\ IsFiniteSet(Running(w, runningTasks))
           /\ Cardinality(openOffers \cap OffersOf(w)) \in Nat
           /\ Cardinality(Running(w, runningTasks)) \in Nat
<1>1. openOffers \cap OffersOf(w) \subseteq Offers /\ Running(w, runningTasks) \subseteq Offers
  BY DEF OffersOf, Running
<1>2. IsFiniteSet(openOffers \cap OffersOf(w)) /\ IsFiniteSet(Running(w, runningTasks))
  BY <1>1, OffersFinite, FS_Subset, Zenon
<1> QED
  BY <1>2, FS_CardinalityType, Zenon

\* A step by which a runner offers and runs no more than it did.
LEMMA NoMoreSlots ==
    ASSUME RunnerInv,
           \A w \in Runners \ Launchers :
              /\ openOffers' \cap OffersOf(w) \subseteq openOffers \cap OffersOf(w)
              /\ Running(w, runningTasks') \subseteq Running(w, runningTasks)
    PROVE  WithinCapacity'
<1> SUFFICES ASSUME NEW w \in Runners \ Launchers
             PROVE  Cardinality(openOffers' \cap OffersOf(w)) + Cardinality(Running(w, runningTasks'))
                        <= MaxConcurrency
  BY DEF WithinCapacity, OffersOf, Running
<1> DEFINE a == openOffers \cap OffersOf(w)
           b == Running(w, runningTasks)
           c == openOffers' \cap OffersOf(w)
           d == Running(w, runningTasks')
<1>1. /\ IsFiniteSet(a) /\ IsFiniteSet(b)
      /\ Cardinality(a) \in Nat /\ Cardinality(b) \in Nat
  BY SlotsFinite DEF RunnerInv
<1>2. c \subseteq a /\ d \subseteq b
  OBVIOUS
<1>3. Cardinality(a) + Cardinality(b) <= MaxConcurrency
  BY DEF RunnerInv, WithinCapacity
<1> HIDE DEF a, b, c, d
<1>4. /\ Cardinality(c) \in Nat /\ Cardinality(c) <= Cardinality(a)
      /\ Cardinality(d) \in Nat /\ Cardinality(d) <= Cardinality(b)
  BY <1>1, <1>2, FS_Subset, FS_CardinalityType
<1> QED
  BY <1>1, <1>3, <1>4, BrokerAssumption DEF c, d

\* An offer that is accepted gives its slot to the task.
LEMMA SlotPassesOn ==
    ASSUME RunnerInv, NEW o \in Offers, o \in openOffers,
           openOffers' = openOffers \ {o},
           runningTasks' = [runningTasks EXCEPT ![o] = "waitingForSettings"]
    PROVE  WithinCapacity'
<1> SUFFICES ASSUME NEW w \in Runners \ Launchers
             PROVE  Cardinality(openOffers' \cap OffersOf(w)) + Cardinality(Running(w, runningTasks'))
                        <= MaxConcurrency
  BY DEF WithinCapacity, OffersOf, Running
<1> DEFINE a == openOffers \cap OffersOf(w)
           b == Running(w, runningTasks)
           c == openOffers' \cap OffersOf(w)
           d == Running(w, runningTasks')
<1>1. /\ IsFiniteSet(a) /\ IsFiniteSet(b)
      /\ Cardinality(a) \in Nat /\ Cardinality(b) \in Nat
  BY SlotsFinite DEF RunnerInv
<1>2. Cardinality(a) + Cardinality(b) <= MaxConcurrency
  BY DEF RunnerInv, WithinCapacity
<1>3. \A p \in Offers : runningTasks'[p] = IF p = o THEN "waitingForSettings" ELSE runningTasks[p]
  BY DEF RunnerInv, BrokerInv, BrokerTypeOK
<1>4. CASE o \in OffersOf(w)
  <2>1. o \in a /\ c = a \ {o} /\ d = b \cup {o}
    BY <1>3, <1>4 DEF Running, OffersOf
  <2> HIDE DEF a, b, c, d
  <2>2. Cardinality(c) = Cardinality(a) - 1
    BY <1>1, <2>1, FS_RemoveElement
  <2>3. Cardinality(d) = Cardinality(b) \/ Cardinality(d) = Cardinality(b) + 1
    BY <1>1, <2>1, FS_AddElement
  <2> QED
    BY <1>1, <1>2, <2>2, <2>3, BrokerAssumption DEF c, d
<1>5. CASE o \notin OffersOf(w)
  <2>1. c = a /\ d = b
    BY <1>3, <1>5 DEF Running, OffersOf
  <2> QED
    BY <1>2, <2>1
<1> QED
  BY <1>4, <1>5

\* sendOffers counts what is on offer and what is running before it offers more.
LEMMA SendOffersCounts ==
    ASSUME RunnerInv, NEW v \in Runners, NEW status \in [Offers -> TaskStatuses], NEW out,
           SendOffers(v, status, out),
           \A o \in Offers \ OffersOf(v) : status[o] = runningTasks[o]
    PROVE  WithinCapacity'
<1>1. PICK stale \in SUBSET (openOffers \cap OffersOf(v)) :
        \E new \in SUBSET {o \in OffersOf(v) : Fresh(o)} :
            LET slots == MaxConcurrency - Cardinality((openOffers \ stale) \cap OffersOf(v))
                                        - Cardinality(Running(v, status))
            IN  /\ Cardinality(new) = slots \/ Cardinality(new) < slots
                /\ openOffers' = (openOffers \ stale) \cup new
                /\ runningTasks' = status
  BY DEF SendOffers
<1> DEFINE left == openOffers \ stale
           slots == MaxConcurrency - Cardinality(left \cap OffersOf(v)) - Cardinality(Running(v, status))
<1>2. PICK new \in SUBSET {o \in OffersOf(v) : Fresh(o)} :
            /\ Cardinality(new) = slots \/ Cardinality(new) < slots
            /\ openOffers' = left \cup new
            /\ runningTasks' = status
  BY <1>1
<1> SUFFICES ASSUME NEW w \in Runners \ Launchers
             PROVE  Cardinality(openOffers' \cap OffersOf(w)) + Cardinality(Running(w, runningTasks'))
                        <= MaxConcurrency
  BY DEF WithinCapacity, OffersOf, Running
<1>3. CASE w = v
  <2> DEFINE a == left \cap OffersOf(v)
             b == Running(v, status)
  <2>1. a \subseteq Offers /\ b \subseteq Offers /\ new \subseteq Offers
    BY DEF OffersOf, Running
  <2>2. \A o \in new : o \notin openOffers
    BY DEF Fresh
  <2>3. openOffers' \cap OffersOf(w) = a \cup new /\ a \cap new = {}
    BY <1>2, <1>3, <2>2
  <2>4. /\ Cardinality(new) = MaxConcurrency - Cardinality(a) - Cardinality(b)
           \/ Cardinality(new) < MaxConcurrency - Cardinality(a) - Cardinality(b)
        /\ Running(w, runningTasks') = b
    BY <1>2, <1>3
  <2> HIDE DEF a, b, left, slots
  <2>5. IsFiniteSet(a) /\ IsFiniteSet(b) /\ IsFiniteSet(new)
    BY <2>1, OffersFinite, FS_Subset, Zenon
  <2>6. Cardinality(a) \in Nat /\ Cardinality(b) \in Nat /\ Cardinality(new) \in Nat
    BY <2>5, FS_CardinalityType, Zenon
  <2>7. Cardinality(a \cup new) = Cardinality(a) + Cardinality(new)
    <3>1. Cardinality(a \cup new) = Cardinality(a) + Cardinality(new) - Cardinality(a \cap new)
      BY <2>5, FS_Union, Zenon
    <3>2. Cardinality(a \cap new) = 0
      BY <2>3, FS_EmptySet, Zenon
    <3> QED
      BY <2>6, <3>1, <3>2
  <2>8. Cardinality(a) + Cardinality(new) + Cardinality(b) <= MaxConcurrency
    BY <2>4, <2>6, BrokerAssumption
  <2>9. /\ Cardinality(openOffers' \cap OffersOf(w)) = Cardinality(a) + Cardinality(new)
        /\ Running(w, runningTasks') = b
    BY <2>3, <2>4, <2>7, Zenon
  <2> QED
    BY <2>8, <2>9
<1>4. CASE w # v
  <2>1. \A o \in OffersOf(w) : o \in Offers \ OffersOf(v)
    BY <1>4 DEF OffersOf
  <2>2. openOffers' \cap OffersOf(w) = openOffers \cap OffersOf(w)
    BY <1>2, <2>1
  <2>3. Running(w, runningTasks') = Running(w, runningTasks)
    BY <1>2, <2>1 DEF Running
  <2> QED
    BY <2>2, <2>3 DEF RunnerInv, WithinCapacity
<1> QED
  BY <1>3, <1>4

-----------------------------------------------------------------------------
(* What a step may do to all of them *)

\* The channels are functions of the offers to sequences of messages.
LEMMA ChannelFacts ==
    ASSUME BrokerInv
    PROVE  /\ toRunner \in [Offers -> Seq(InMessages)]
           /\ toBroker \in [Offers -> Seq(OutMessages)]
           /\ runningTasks \in [Offers -> TaskStatuses]
BY DEF BrokerInv, BrokerTypeOK, InMessages, OutMessages

\* A step about one offer that leaves the others alone.
LEMMA OneOfferChanges ==
    ASSUME RunnerInv, NEW o \in Offers,
           \A p \in Offers \ {o} :
              /\ toRunner'[p] = toRunner[p] /\ toBroker'[p] = toBroker[p]
              /\ runningTasks'[p] = runningTasks[p]
              /\ p \in pendingTaskOffers' => p \in pendingTaskOffers,
           OneHand(toRunner'[o], toBroker'[o], runningTasks'[o], o \in pendingTaskOffers')
    PROVE  InStep'
<1> SUFFICES ASSUME NEW p \in Offers, p # o
             PROVE  OneHand(toRunner'[p], toBroker'[p], runningTasks'[p], p \in pendingTaskOffers')
  BY DEF InStep
<1>1. OneHand(toRunner[p], toBroker[p], runningTasks[p], p \in pendingTaskOffers)
  BY DEF RunnerInv, InStep
<1>2. OneHand(toRunner[p], toBroker[p], runningTasks[p], p \in pendingTaskOffers')
  BY <1>1 DEF OneHand
<1> QED
  BY <1>2

\* What settleTasks does to each offer: it is left as it is, or has expired, or it is taken
\* and the runner told.
LEMMA SettleTakes ==
    ASSUME BrokerInv, NEW reqs \in Seq(Requests), NEW arrived \in SUBSET Offers, Settle(reqs, arrived),
           NEW o \in Offers
    PROVE  \/ toRunner'[o] = toRunner[o] /\ (o \in pendingTaskOffers' => o \in pendingTaskOffers \cup arrived)
           \/ /\ o \in pendingTaskOffers \cup arrived /\ o \notin pendingTaskOffers'
              /\ toRunner'[o] = Append(toRunner[o], "accept")
<1>1. PICK expired \in SUBSET {p \in pendingTaskOffers : RunnerOf(p) \notin Launchers} :
        \E m \in Matchings(reqs, (pendingTaskOffers \ expired) \cup arrived) :
            LET valid == (pendingTaskOffers \ expired) \cup arrived
                taken == {m[q] : q \in DOMAIN m}
            IN  /\ pendingTaskOffers' = valid \ taken
                /\ toRunner' = [p \in Offers |->
                      IF p \in taken /\ RunnerOf(p) \in connected
                      THEN Append(toRunner[p], "accept") ELSE toRunner[p]]
  BY DEF Settle
<1> DEFINE valid == (pendingTaskOffers \ expired) \cup arrived
<1>2. PICK m \in Matchings(reqs, valid) :
            LET taken == {m[q] : q \in DOMAIN m}
            IN  /\ pendingTaskOffers' = valid \ taken
                /\ toRunner' = [p \in Offers |->
                      IF p \in taken /\ RunnerOf(p) \in connected
                      THEN Append(toRunner[p], "accept") ELSE toRunner[p]]
  BY <1>1
<1>3. m \in [DOMAIN m -> valid]
  BY <1>2 DEF Matchings
<1>4. {m[q] : q \in DOMAIN m} \subseteq valid
  BY <1>3
<1> QED
  BY <1>2, <1>4

\* settleTasks keeps offers and tasks in one hand, when they are before it.
LEMMA SettleKeepsInStep ==
    ASSUME BrokerInv, NEW reqs \in Seq(Requests), NEW arrived \in SUBSET Offers, Settle(reqs, arrived),
           toBroker' \in ToBroker,
           \A o \in Offers :
              /\ OneHand(toRunner[o], toBroker'[o], runningTasks'[o], o \in pendingTaskOffers \cup arrived)
              /\ o \in pendingTaskOffers \cup arrived => ~Has(toBroker'[o], "offer")
    PROVE  InStep'
<1> SUFFICES ASSUME NEW o \in Offers
             PROVE  OneHand(toRunner'[o], toBroker'[o], runningTasks'[o], o \in pendingTaskOffers')
  BY DEF InStep
<1>1. /\ toRunner[o] \in Seq(InMessages) /\ toBroker'[o] \in Seq(OutMessages)
      /\ OneHand(toRunner[o], toBroker'[o], runningTasks'[o], o \in pendingTaskOffers \cup arrived)
  BY ChannelFacts DEF ToBroker, OutMessages
<1>2. CASE toRunner'[o] = toRunner[o] /\ (o \in pendingTaskOffers' => o \in pendingTaskOffers \cup arrived)
  BY <1>1, <1>2 DEF OneHand
<1>3. CASE /\ o \in pendingTaskOffers \cup arrived /\ o \notin pendingTaskOffers'
           /\ toRunner'[o] = Append(toRunner[o], "accept")
  <2>1. OneHand(toRunner[o], toBroker'[o], runningTasks'[o], TRUE)
    BY <1>1, <1>3 DEF OneHand
  <2>2. OneHand(Append(toRunner[o], "accept"), toBroker'[o], runningTasks'[o], FALSE)
    BY <1>1, <1>3, <2>1, OfferTaken
  <2> QED
    BY <1>3, <2>2 DEF OneHand
<1> QED
  BY <1>2, <1>3, SettleTakes

\* sendOffers only offers what nothing refers to.
LEMMA SendOffersKeepsInStep ==
    ASSUME BrokerInv, NEW w \in Runners, NEW status \in [Offers -> TaskStatuses], NEW out,
           SendOffers(w, status, out), pendingTaskOffers' = pendingTaskOffers,
           \A o \in Offers :
              /\ OneHand(toRunner'[o], out[o], status[o], o \in pendingTaskOffers)
              /\ Fresh(o) => toRunner'[o] = << >> /\ out[o] = << >>
    PROVE  InStep'
<1>1. PICK new \in SUBSET {o \in OffersOf(w) : Fresh(o)} :
            /\ runningTasks' = status
            /\ toBroker' = [o \in Offers |->
                  IF o \in new THEN Append(out[o], "offer") ELSE out[o]]
  BY DEF SendOffers
<1> SUFFICES ASSUME NEW o \in Offers
             PROVE  OneHand(toRunner'[o], toBroker'[o], runningTasks'[o], o \in pendingTaskOffers')
  BY DEF InStep
<1>2. CASE o \in new
  <2>1. toBroker'[o] = Append(<< >>, "offer") /\ toRunner'[o] = << >>
    BY <1>1, <1>2
  <2>2. (o \in pendingTaskOffers') \in BOOLEAN
    OBVIOUS
  <2> QED
    BY <2>1, <2>2, NewOffer
<1>3. CASE o \notin new
  <2>1. /\ toBroker'[o] = out[o] /\ runningTasks'[o] = status[o]
        /\ pendingTaskOffers' = pendingTaskOffers
    BY <1>1, <1>3
  <2> QED
    BY <2>1
<1> QED
  BY <1>2, <1>3

\* A task that is over leaves its slot to a new offer.
LEMMA FinishTaskKeepsRunner ==
    ASSUME RunnerInv, NEW o \in Offers, runningTasks[o] # "none", NEW out, FinishTask(o, out),
           pendingTaskOffers' = pendingTaskOffers,
           \A p \in Offers \ {o} : out[p] = toBroker[p] /\ toRunner'[p] = toRunner[p],
           OneHand(toRunner'[o], out[o], "none", o \in pendingTaskOffers)
    PROVE  InStep' /\ WithinCapacity'
<1> DEFINE status == [runningTasks EXCEPT ![o] = "none"]
<1>1. /\ status \in [Offers -> TaskStatuses] /\ status[o] = "none"
      /\ \A p \in Offers \ {o} : status[p] = runningTasks[p]
  BY ChannelFacts DEF RunnerInv, TaskStatuses
<1>2. SendOffers(RunnerOf(o), status, out) /\ RunnerOf(o) \in Runners
  BY RunnerFacts DEF FinishTask
<1> HIDE DEF status
<1>3. ASSUME NEW p \in Offers
      PROVE  /\ OneHand(toRunner'[p], out[p], status[p], p \in pendingTaskOffers)
             /\ Fresh(p) => toRunner'[p] = << >> /\ out[p] = << >>
  <2>1. CASE p = o
    <3>1. ~Fresh(p)
      BY <2>1 DEF Fresh
    <3> QED
      BY <1>1, <2>1, <3>1
  <2>2. CASE p # o
    <3>1. /\ OneHand(toRunner[p], toBroker[p], runningTasks[p], p \in pendingTaskOffers)
          /\ Fresh(p) => toRunner[p] = << >> /\ toBroker[p] = << >>
      BY DEF RunnerInv, InStep, Fresh
    <3>2. out[p] = toBroker[p] /\ toRunner'[p] = toRunner[p] /\ status[p] = runningTasks[p]
      BY <1>1, <2>2
    <3> QED
      BY <3>1, <3>2
  <2> QED
    BY <2>1, <2>2
<1>4. InStep'
  BY <1>1, <1>2, <1>3, SendOffersKeepsInStep DEF RunnerInv
<1>5. \A p \in Offers \ OffersOf(RunnerOf(o)) : status[p] = runningTasks[p]
  BY <1>1 DEF OffersOf
<1>6. WithinCapacity'
  BY <1>1, <1>2, <1>5, SendOffersCounts
<1> QED
  BY <1>4, <1>6

\* A task that goes on, whatever its state is now, keeps its slot; one that has not begun
\* takes none.
LEMMA SlotKept ==
    ASSUME RunnerInv, NEW o \in Offers, NEW status,
           runningTasks' = [runningTasks EXCEPT ![o] = status],
           runningTasks[o] = "none" => status = "none",
           openOffers' \subseteq openOffers
    PROVE  WithinCapacity'
<1>1. \A p \in Offers : runningTasks[p] = "none" => runningTasks'[p] = "none"
  BY ChannelFacts DEF RunnerInv
<1> QED
  BY <1>1, NoMoreSlots DEF Running, OffersOf

-----------------------------------------------------------------------------
(* The steps *)

\* A step that leaves offers and tasks of the runners alone keeps their slots.
LEMMA SlotsUntouched ==
    ASSUME RunnerInv, UNCHANGED <<openOffers, runningTasks>>
    PROVE  WithinCapacity'
BY NoMoreSlots

\* The broker receives a message about o, and may send one.
LEMMA BrokerReceivesKeeps ==
    ASSUME RunnerInv, NEW o \in Offers, NEW m, Receives(toBroker, o, m),
           toBroker' = [toBroker EXCEPT ![o] = Tail(@)],
           toRunner' = toRunner \/ (m = "accepted" /\ toRunner' = Send(toRunner, o, "settings")),
           UNCHANGED <<pendingTaskOffers, runningTasks>>
    PROVE  InStep'
<1>1. /\ toRunner[o] \in Seq(InMessages) /\ toBroker[o] \in Seq(OutMessages)
      /\ toBroker[o] # << >> /\ Head(toBroker[o]) = m
      /\ OneHand(toRunner[o], toBroker[o], runningTasks[o], o \in pendingTaskOffers)
  BY ChannelFacts DEF RunnerInv, InStep, Receives
<1>2. (o \in pendingTaskOffers) \in BOOLEAN
  OBVIOUS
<1>3. /\ OneHand(toRunner[o], Tail(toBroker[o]), runningTasks[o], o \in pendingTaskOffers)
      /\ m = "accepted" => OneHand(Append(toRunner[o], "settings"), Tail(toBroker[o]),
                                   runningTasks[o], o \in pendingTaskOffers)
  BY <1>1, <1>2, BrokerReceives
<1>4. /\ toBroker'[o] = Tail(toBroker[o])
      /\ \A p \in Offers \ {o} : toBroker'[p] = toBroker[p] /\ toRunner'[p] = toRunner[p]
      /\ \/ toRunner'[o] = toRunner[o]
         \/ m = "accepted" /\ toRunner'[o] = Append(toRunner[o], "settings")
  BY ChannelFacts DEF RunnerInv, Send
<1>5. OneHand(toRunner'[o], toBroker'[o], runningTasks'[o], o \in pendingTaskOffers')
  BY <1>3, <1>4
<1> QED
  BY <1>4, <1>5, OneOfferChanges

\* A request is queued, or an offer arrives, and the broker matches what it can.
LEMMA MatchingKeepsRunners ==
    ASSUME RunnerInv
    PROVE  /\ \A q \in Requests : StartTask(q) => InStep' /\ WithinCapacity'
           /\ \A o \in Offers : TaskOffered(o) => InStep' /\ WithinCapacity'
<1>0. BrokerInv /\ InStep /\ toBroker \in ToBroker /\ pendingTaskRequests \in Seq(Requests)
  BY DEF RunnerInv, BrokerInv, BrokerTypeOK, ToBroker
<1>1. \A p \in pendingTaskOffers : ~Has(toBroker[p], "offer")
  BY <1>0 DEF BrokerInv, BrokerTypeOK, OffersOnce, OffersFirst, Has
<1>2. ASSUME NEW q \in Requests, StartTask(q) PROVE InStep' /\ WithinCapacity'
  <2>1. Settle(Append(pendingTaskRequests, q), {}) /\ UNCHANGED <<runner, toBroker>>
    BY <1>2 DEF StartTask
  <2>2. Append(pendingTaskRequests, q) \in Seq(Requests)
    BY <1>0
  <2>3. \A p \in Offers :
           /\ OneHand(toRunner[p], toBroker'[p], runningTasks'[p], p \in pendingTaskOffers \cup {})
           /\ p \in pendingTaskOffers \cup {} => ~Has(toBroker'[p], "offer")
    BY <1>0, <1>1, <2>1 DEF InStep, runner
  <2>4. InStep'
    BY <1>0, <2>1, <2>2, <2>3, SettleKeepsInStep
  <2> QED
    BY <2>1, <2>4, SlotsUntouched DEF runner
<1>3. ASSUME NEW o \in Offers, TaskOffered(o) PROVE InStep' /\ WithinCapacity'
  <2>1. /\ Receives(toBroker, o, "offer") /\ toBroker' = [toBroker EXCEPT ![o] = Tail(@)]
        /\ Settle(pendingTaskRequests, {o}) /\ UNCHANGED runner
    BY <1>3 DEF TaskOffered
  <2>2. /\ toRunner[o] \in Seq(InMessages) /\ toBroker[o] \in Seq(OutMessages)
        /\ toBroker[o] # << >> /\ Head(toBroker[o]) = "offer"
        /\ OneHand(toRunner[o], toBroker[o], runningTasks[o], o \in pendingTaskOffers)
        /\ (o \in pendingTaskOffers) \in BOOLEAN
    BY <1>0, <2>1, ChannelFacts DEF InStep, Receives
  <2>3. OneHand(toRunner[o], Tail(toBroker[o]), runningTasks[o], TRUE)
    BY <2>2, BrokerReceives
  <2>4. /\ toBroker' \in ToBroker
        /\ \A i \in 1..Len(toBroker'[o]) : toBroker'[o][i] # "offer"
    BY <1>0, <2>1, ReceiveFacts
  <2>5. /\ toBroker'[o] = Tail(toBroker[o])
        /\ \A p \in Offers \ {o} : toBroker'[p] = toBroker[p]
        /\ runningTasks' = runningTasks
    BY <1>0, <2>1 DEF ToBroker, runner
  <2>6. ASSUME NEW p \in Offers
        PROVE  /\ OneHand(toRunner[p], toBroker'[p], runningTasks'[p], p \in pendingTaskOffers \cup {o})
               /\ p \in pendingTaskOffers \cup {o} => ~Has(toBroker'[p], "offer")
    <3>1. CASE p = o
      <4>1. (p \in pendingTaskOffers \cup {o}) = TRUE
        BY <3>1
      <4>2. ~Has(toBroker'[o], "offer")
        BY <2>4 DEF Has
      <4> QED
        BY <2>3, <2>5, <3>1, <4>1, <4>2
    <3>2. CASE p # o
      <4>1. (p \in pendingTaskOffers \cup {o}) = (p \in pendingTaskOffers)
        BY <3>2
      <4> QED
        BY <1>0, <1>1, <2>5, <3>2, <4>1 DEF InStep
    <3> QED
      BY <3>1, <3>2
  <2>7. InStep'
    BY <1>0, <2>1, <2>4, <2>6, SettleKeepsInStep
  <2> QED
    BY <2>1, <2>7, SlotsUntouched DEF runner
<1> QED
  BY <1>2, <1>3

\* What the broker does with a runner's answer, with its timers and with runners that
\* come and go.
LEMMA BrokerStepsKeepRunners ==
    ASSUME RunnerInv, NEW o \in Offers, NEW w \in Runners,
           \/ Handle(o) \/ AcceptTimesOut(o) \/ HandleTaskTimeout(o)
           \/ RegisterRunner(w) \/ DeregisterRunner(w)
    PROVE  InStep' /\ WithinCapacity'
<1>1. CASE TaskOffered(o)
  BY <1>1, MatchingKeepsRunners
<1>2. CASE HandleRunnerAccept(o)
  <2>1. /\ Receives(toBroker, o, "accepted") /\ toBroker' = [toBroker EXCEPT ![o] = Tail(@)]
        /\ UNCHANGED <<pendingTaskOffers, runner>>
    BY <1>2 DEF HandleRunnerAccept
  <2>2. toRunner' = toRunner \/ toRunner' = Send(toRunner, o, "settings")
    <3>1. CASE runnerAccepts[o] = NoRequest
      BY <1>2, <3>1 DEF HandleRunnerAccept
    <3>2. CASE runnerAccepts[o] # NoRequest
      <4>1. /\ runnerAccepts[o] \in Pending(pendingTaskRequests)
            /\ caller[runnerAccepts[o]] = "asked"
        BY <3>2 DEF RunnerInv, BrokerInv, AcceptFindsRequest
      <4> QED
        BY <1>2, <3>2, <4>1 DEF HandleRunnerAccept
    <3> QED
      BY <3>1, <3>2
  <2> QED
    BY <2>1, <2>2, BrokerReceivesKeeps, SlotsUntouched DEF runner
<1>3. CASE HandleRunnerReject(o)
  BY <1>3, BrokerReceivesKeeps, SlotsUntouched DEF HandleRunnerReject, runner
<1>4. CASE HandleRunnerDeferred(o)
  BY <1>4, BrokerReceivesKeeps, SlotsUntouched DEF HandleRunnerDeferred, runner
<1>5. ASSUME NEW result \in {"done", "error"}, TaskEnds(o, result)
      PROVE  InStep' /\ WithinCapacity'
  BY <1>5, BrokerReceivesKeeps, SlotsUntouched DEF TaskEnds, runner
<1>6. CASE HandleTaskTimeout(o)
  <2>1. /\ toRunner' = Send(toRunner, o, "cancel")
        /\ UNCHANGED <<pendingTaskOffers, runner, toBroker>>
    BY <1>6 DEF HandleTaskTimeout
  <2>2. /\ toRunner[o] \in Seq(InMessages) /\ toBroker[o] \in Seq(OutMessages)
        /\ OneHand(toRunner[o], toBroker[o], runningTasks[o], o \in pendingTaskOffers)
        /\ (o \in pendingTaskOffers) \in BOOLEAN
    BY ChannelFacts DEF RunnerInv, InStep
  <2>3. OneHand(Append(toRunner[o], "cancel"), toBroker[o], runningTasks[o], o \in pendingTaskOffers)
    BY <2>2, NothingHandedOver
  <2>4. /\ toRunner'[o] = toRunner[o] \/ toRunner'[o] = Append(toRunner[o], "cancel")
        /\ \A p \in Offers \ {o} : toRunner'[p] = toRunner[p]
    BY <2>1, ChannelFacts DEF RunnerInv, Send
  <2>5. OneHand(toRunner'[o], toBroker'[o], runningTasks'[o], o \in pendingTaskOffers')
    BY <2>1, <2>2, <2>3, <2>4 DEF runner
  <2> QED
    BY <2>1, <2>4, <2>5, OneOfferChanges, SlotsUntouched DEF runner
<1>7. CASE \/ AcceptTimesOut(o) \/ RegisterRunner(w) \/ DeregisterRunner(w)
  <2>1. /\ UNCHANGED <<openOffers, runningTasks, toBroker, toRunner>>
        /\ pendingTaskOffers' \subseteq pendingTaskOffers
    BY <1>7 DEF AcceptTimesOut, RegisterRunner, DeregisterRunner, runner
  <2>2. OneHand(toRunner[o], toBroker[o], runningTasks[o], o \in pendingTaskOffers)
    BY DEF RunnerInv, InStep
  <2>3. OneHand(toRunner'[o], toBroker'[o], runningTasks'[o], o \in pendingTaskOffers')
    BY <2>1, <2>2 DEF OneHand
  <2> QED
    BY <2>1, <2>3, OneOfferChanges, SlotsUntouched
<1>8. CASE Handle(o)
  BY <1>1, <1>2, <1>3, <1>4, <1>5, <1>8 DEF Handle
<1> QED
  BY <1>6, <1>7, <1>8

\* The runner accepts or rejects what the broker has taken, or a launcher defers it.
LEMMA OfferAcceptedKeeps ==
    ASSUME RunnerInv, NEW o \in Offers, OfferAccepted(o) \/ LauncherDefers(o)
    PROVE  InStep' /\ WithinCapacity'
<1>1. /\ Receives(toRunner, o, "accept") /\ toRunner' = [toRunner EXCEPT ![o] = Tail(@)]
      /\ pendingTaskOffers' = pendingTaskOffers
  BY DEF OfferAccepted, LauncherDefers, broker
<1>2. /\ toRunner[o] \in Seq(InMessages) /\ toBroker[o] \in Seq(OutMessages)
      /\ toRunner[o] # << >> /\ Head(toRunner[o]) = "accept"
      /\ OneHand(toRunner[o], toBroker[o], runningTasks[o], o \in pendingTaskOffers)
      /\ (o \in pendingTaskOffers) \in BOOLEAN
  BY <1>1, ChannelFacts DEF RunnerInv, InStep, Receives
<1>3. /\ OneHand(Tail(toRunner[o]), toBroker[o], runningTasks[o], o \in pendingTaskOffers)
      /\ OneHand(Tail(toRunner[o]), toBroker[o], "waitingForSettings", o \in pendingTaskOffers)
      /\ OneHand(Tail(toRunner[o]), Append(toBroker[o], "accepted"), "waitingForSettings",
                 o \in pendingTaskOffers)
  BY <1>2, RunnerReceives
<1>4. /\ toRunner'[o] = Tail(toRunner[o])
      /\ \A p \in Offers \ {o} : toRunner'[p] = toRunner[p]
  BY <1>1, ChannelFacts DEF RunnerInv
<1>5. ASSUME NEW m \in {"rejected", "deferred"}, toBroker' = Send(toBroker, o, m),
             runningTasks' = runningTasks, openOffers' \subseteq openOffers
      PROVE  InStep' /\ WithinCapacity'
  <2>1. Tail(toRunner[o]) \in Seq(InMessages)
    BY <1>2
  <2>2. OneHand(Tail(toRunner[o]), Append(toBroker[o], m), runningTasks[o], o \in pendingTaskOffers)
    BY <1>2, <1>3, <2>1, NothingHandedOver
  <2>3. /\ toBroker'[o] = toBroker[o] \/ toBroker'[o] = Append(toBroker[o], m)
        /\ \A p \in Offers \ {o} : toBroker'[p] = toBroker[p]
    BY <1>5, ChannelFacts DEF RunnerInv, Send
  <2>4. OneHand(toRunner'[o], toBroker'[o], runningTasks'[o], o \in pendingTaskOffers')
    BY <1>1, <1>3, <1>4, <1>5, <2>2, <2>3
  <2>5. InStep'
    BY <1>1, <1>4, <1>5, <2>3, <2>4, OneOfferChanges
  <2>6. WithinCapacity'
    BY <1>5, NoMoreSlots
  <2> QED
    BY <2>5, <2>6
<1>6. CASE /\ o \in openOffers /\ openOffers' = openOffers \ {o}
           /\ runningTasks' = [runningTasks EXCEPT ![o] = "waitingForSettings"]
           /\ toBroker' = Send(toBroker, o, "accepted")
  <2>1. /\ toBroker'[o] = toBroker[o] \/ toBroker'[o] = Append(toBroker[o], "accepted")
        /\ runningTasks'[o] = "waitingForSettings"
        /\ \A p \in Offers \ {o} : toBroker'[p] = toBroker[p] /\ runningTasks'[p] = runningTasks[p]
    BY <1>6, ChannelFacts DEF RunnerInv, Send
  <2>2. OneHand(toRunner'[o], toBroker'[o], runningTasks'[o], o \in pendingTaskOffers')
    BY <1>1, <1>3, <1>4, <2>1
  <2>3. InStep'
    BY <1>1, <1>4, <2>1, <2>2, OneOfferChanges
  <2>4. WithinCapacity'
    BY <1>6, SlotPassesOn
  <2> QED
    BY <2>3, <2>4
<1>7. CASE OfferAccepted(o)
  <2>1. \/ toBroker' = Send(toBroker, o, "rejected") /\ runningTasks' = runningTasks
        \/ /\ o \in openOffers
           /\ runningTasks' = [runningTasks EXCEPT ![o] = "waitingForSettings"]
           /\ toBroker' = Send(toBroker, o, "accepted")
    BY <1>7 DEF OfferAccepted
  <2>2. openOffers' = openOffers \ {o}
    BY <1>7 DEF OfferAccepted
  <2> QED
    BY <1>5, <1>6, <2>1, <2>2
<1>8. CASE LauncherDefers(o)
  BY <1>5, <1>8 DEF LauncherDefers, runner
<1> QED
  BY <1>7, <1>8

\* The runner receives the settings of a task, or the order to cancel it.
LEMMA TaskMessagesKeep ==
    ASSUME RunnerInv, NEW o \in Offers, ReceivedSettings(o) \/ TaskCancelled(o)
    PROVE  InStep' /\ WithinCapacity'
<1>1. /\ toRunner[o] # << >> /\ toRunner' = [toRunner EXCEPT ![o] = Tail(@)]
      /\ pendingTaskOffers' = pendingTaskOffers
  BY DEF ReceivedSettings, TaskCancelled, Receives, broker
<1>2. /\ toRunner[o] \in Seq(InMessages) /\ toBroker[o] \in Seq(OutMessages)
      /\ OneHand(toRunner[o], toBroker[o], runningTasks[o], o \in pendingTaskOffers)
      /\ (o \in pendingTaskOffers) \in BOOLEAN
  BY ChannelFacts DEF RunnerInv, InStep
<1>3. /\ OneHand(Tail(toRunner[o]), toBroker[o], runningTasks[o], o \in pendingTaskOffers)
      /\ Head(toRunner[o]) = "settings" =>
            \A any : OneHand(Tail(toRunner[o]), toBroker[o], any, o \in pendingTaskOffers)
  BY <1>1, <1>2, RunnerReceives
<1>4. /\ toRunner'[o] = Tail(toRunner[o])
      /\ \A p \in Offers \ {o} : toRunner'[p] = toRunner[p]
  BY <1>1, ChannelFacts DEF RunnerInv
<1>5. ASSUME NEW status, runningTasks' = [runningTasks EXCEPT ![o] = status],
             runningTasks[o] = "none" => status = "none",
             OneHand(Tail(toRunner[o]), toBroker[o], status, o \in pendingTaskOffers),
             UNCHANGED <<openOffers, toBroker>>
      PROVE  InStep' /\ WithinCapacity'
  <2>1. /\ runningTasks'[o] = status
        /\ \A p \in Offers \ {o} : runningTasks'[p] = runningTasks[p]
    BY <1>5, ChannelFacts DEF RunnerInv
  <2>2. OneHand(toRunner'[o], toBroker'[o], runningTasks'[o], o \in pendingTaskOffers')
    BY <1>1, <1>4, <1>5, <2>1
  <2>3. InStep'
    BY <1>1, <1>4, <1>5, <2>1, <2>2, OneOfferChanges
  <2> QED
    BY <1>5, <2>3, SlotKept
<1>6. CASE ReceivedSettings(o)
  <2> DEFINE status == IF runningTasks[o] = "waitingForSettings" THEN "running" ELSE runningTasks[o]
  <2>1. /\ Head(toRunner[o]) = "settings" /\ runningTasks' = [runningTasks EXCEPT ![o] = status]
        /\ UNCHANGED <<openOffers, toBroker>>
    BY <1>6 DEF ReceivedSettings, Receives
  <2>2. runningTasks[o] = "none" => status = "none"
    OBVIOUS
  <2> HIDE DEF status
  <2> QED
    BY <1>3, <1>5, <2>1, <2>2
<1>7. CASE TaskCancelled(o)
  <2>1. CASE runningTasks[o] = "waitingForSettings" /\ FinishTask(o, toBroker)
    <3>1. OneHand(Tail(toRunner[o]), toBroker[o], "none", o \in pendingTaskOffers)
      BY <1>2, <1>3, StatusChanges
    <3>2. OneHand(toRunner'[o], toBroker[o], "none", o \in pendingTaskOffers)
      BY <1>4, <3>1
    <3> QED
      BY <1>1, <1>4, <2>1, <3>2, FinishTaskKeepsRunner
  <2>2. CASE /\ runningTasks[o] # "waitingForSettings"
             /\ runningTasks' = [runningTasks EXCEPT ![o] =
                                   IF @ = "running" THEN "aborting:cancelled" ELSE @]
             /\ UNCHANGED <<openOffers, toBroker>>
    <3> DEFINE status == IF runningTasks[o] = "running" THEN "aborting:cancelled" ELSE runningTasks[o]
    <3>1. runningTasks' = [runningTasks EXCEPT ![o] = status]
      BY <2>2
    <3>2. OneHand(Tail(toRunner[o]), toBroker[o], status, o \in pendingTaskOffers)
      <4>1. CASE runningTasks[o] = "running"
        BY <1>2, <1>3, <4>1, StatusChanges
      <4>2. CASE runningTasks[o] # "running"
        BY <1>3, <4>2
      <4> QED
        BY <4>1, <4>2
    <3>3. runningTasks[o] = "none" => status = "none"
      OBVIOUS
    <3> HIDE DEF status
    <3> QED
      BY <1>5, <2>2, <3>1, <3>2, <3>3
  <2> QED
    BY <1>7, <2>1, <2>2 DEF TaskCancelled
<1> QED
  BY <1>6, <1>7

\* A task times out, or its execution ends, or it is time to offer what is free.
LEMMA TaskEndsKeep ==
    ASSUME RunnerInv, NEW o \in Offers, NEW w \in Runners,
           \/ TaskTimedOut(o) \/ ExecutionEnds(o, "done") \/ ExecutionEnds(o, "error")
           \/ OfferInterval(w)
    PROVE  InStep' /\ WithinCapacity'
<1>1. toRunner' = toRunner /\ pendingTaskOffers' = pendingTaskOffers
  BY DEF TaskTimedOut, ExecutionEnds, OfferInterval, broker
<1>2. /\ toRunner[o] \in Seq(InMessages) /\ toBroker[o] \in Seq(OutMessages)
      /\ OneHand(toRunner[o], toBroker[o], runningTasks[o], o \in pendingTaskOffers)
      /\ (o \in pendingTaskOffers) \in BOOLEAN
  BY ChannelFacts DEF RunnerInv, InStep
<1>3. OneHand(toRunner[o], toBroker[o], "none", o \in pendingTaskOffers)
  BY <1>2, StatusChanges
<1>4. ASSUME runningTasks[o] # "none", FinishTask(o, toBroker)
      PROVE  InStep' /\ WithinCapacity'
  BY <1>1, <1>3, <1>4, FinishTaskKeepsRunner
<1>5. ASSUME NEW m \in {"done", "error"}, runningTasks[o] # "none", FinishTask(o, Send(toBroker, o, m))
      PROVE  InStep' /\ WithinCapacity'
  <2> DEFINE out == Send(toBroker, o, m)
  <2>1. /\ out[o] = toBroker[o] \/ out[o] = Append(toBroker[o], m)
        /\ \A p \in Offers \ {o} : out[p] = toBroker[p]
    BY ChannelFacts DEF RunnerInv, Send
  <2> HIDE DEF out
  <2>2. OneHand(toRunner[o], Append(toBroker[o], m), "none", o \in pendingTaskOffers)
    BY <1>2, <1>3, NothingHandedOver
  <2>3. OneHand(toRunner'[o], out[o], "none", o \in pendingTaskOffers)
    BY <1>1, <1>3, <2>1, <2>2
  <2> QED
    BY <1>1, <1>5, <2>1, <2>3, FinishTaskKeepsRunner DEF out
<1>6. CASE TaskTimedOut(o)
  <2>1. CASE /\ runningTasks[o] = "running"
             /\ runningTasks' = [runningTasks EXCEPT ![o] = "aborting:timeout"]
             /\ UNCHANGED <<openOffers, toBroker>>
    <3>1. /\ runningTasks'[o] = "aborting:timeout"
          /\ \A p \in Offers \ {o} : runningTasks'[p] = runningTasks[p]
      BY <2>1, ChannelFacts DEF RunnerInv
    <3>2. OneHand(toRunner[o], toBroker[o], "aborting:timeout", o \in pendingTaskOffers)
      BY <1>2, <2>1, StatusChanges
    <3>3. InStep'
      BY <1>1, <2>1, <3>1, <3>2, OneOfferChanges
    <3> QED
      BY <2>1, <3>3, SlotKept
  <2> QED
    BY <1>5, <1>6, <2>1 DEF TaskTimedOut
<1>7. CASE ExecutionEnds(o, "done") \/ ExecutionEnds(o, "error")
  BY <1>4, <1>5, <1>7 DEF ExecutionEnds
<1>8. CASE OfferInterval(w)
  <2>1. SendOffers(w, runningTasks, toBroker) /\ runningTasks \in [Offers -> TaskStatuses]
    BY <1>8, ChannelFacts DEF OfferInterval, RunnerInv
  <2>2. \A p \in Offers :
           /\ OneHand(toRunner'[p], toBroker[p], runningTasks[p], p \in pendingTaskOffers)
           /\ Fresh(p) => toRunner'[p] = << >> /\ toBroker[p] = << >>
    BY <1>1 DEF RunnerInv, InStep, Fresh
  <2>3. InStep'
    BY <1>1, <2>1, <2>2, SendOffersKeepsInStep DEF RunnerInv
  <2>4. WithinCapacity'
    BY <2>1, SendOffersCounts
  <2> QED
    BY <2>3, <2>4
<1> QED
  BY <1>6, <1>7, <1>8

\* A connection is lost with all that was on its way, or a launcher makes an offer.
LEMMA ConnectionsKeep ==
    ASSUME RunnerInv, NEW o \in Offers, NEW w \in Runners, ConnectionLost(w) \/ LauncherOffers(w, o)
    PROVE  InStep' /\ WithinCapacity'
<1>1. CASE ConnectionLost(w)
  <2>1. /\ openOffers' = openOffers \ OffersOf(w) /\ pendingTaskOffers' = pendingTaskOffers
        /\ \A p \in Offers :
              /\ runningTasks'[p] = IF RunnerOf(p) = w THEN "none" ELSE runningTasks[p]
              /\ toBroker'[p] = IF RunnerOf(p) = w THEN << >> ELSE toBroker[p]
              /\ toRunner'[p] = IF RunnerOf(p) = w THEN << >> ELSE toRunner[p]
    BY <1>1 DEF ConnectionLost, broker
  <2>2. InStep'
    <3> SUFFICES ASSUME NEW p \in Offers
                 PROVE  OneHand(toRunner'[p], toBroker'[p], runningTasks'[p], p \in pendingTaskOffers')
      BY DEF InStep
    <3>1. CASE RunnerOf(p) = w
      <4>1. toBroker'[p] = << >> /\ toRunner'[p] = << >> /\ (p \in pendingTaskOffers') \in BOOLEAN
        BY <2>1, <3>1
      <4> QED
        BY <4>1, NewOffer
    <3>2. CASE RunnerOf(p) # w
      <4>1. OneHand(toRunner[p], toBroker[p], runningTasks[p], p \in pendingTaskOffers)
        BY DEF RunnerInv, InStep
      <4> QED
        BY <2>1, <3>2, <4>1
    <3> QED
      BY <3>1, <3>2
  <2>3. WithinCapacity'
    BY <2>1, NoMoreSlots DEF Running, OffersOf
  <2> QED
    BY <2>2, <2>3
<1>2. CASE LauncherOffers(w, o)
  <2>1. /\ toBroker[o] = << >> /\ toRunner[o] = << >> /\ toBroker' = Send(toBroker, o, "offer")
        /\ UNCHANGED <<pendingTaskOffers, openOffers, runningTasks, toRunner>>
    BY <1>2 DEF LauncherOffers, Fresh, broker, runner
  <2>2. /\ toBroker'[o] = << >> \/ toBroker'[o] = Append(<< >>, "offer")
        /\ \A p \in Offers \ {o} : toBroker'[p] = toBroker[p]
    BY <2>1, ChannelFacts DEF RunnerInv, Send
  <2>3. (o \in pendingTaskOffers') \in BOOLEAN
    OBVIOUS
  <2>4. OneHand(toRunner'[o], toBroker'[o], runningTasks'[o], o \in pendingTaskOffers')
    BY <2>1, <2>2, <2>3, NewOffer
  <2>5. InStep'
    BY <2>1, <2>2, <2>4, OneOfferChanges
  <2> QED
    BY <2>1, <2>5, SlotsUntouched
<1> QED
  BY <1>1, <1>2

-----------------------------------------------------------------------------
(* The theorems *)

LEMMA InitRunner == Init => RunnerInv
<1> SUFFICES ASSUME Init PROVE RunnerInv
  OBVIOUS
<1>1. BrokerInv
  BY InitBroker
<1>2. \A o \in Offers : toRunner[o] = << >> /\ toBroker[o] = << >> /\ runningTasks[o] = "none"
  BY DEF Init, Silence
<1>3. InStep
  <2> SUFFICES ASSUME NEW o \in Offers
               PROVE  OneHand(toRunner[o], toBroker[o], runningTasks[o], o \in pendingTaskOffers)
    BY DEF InStep
  <2>1. (o \in pendingTaskOffers) \in BOOLEAN
    OBVIOUS
  <2> QED
    BY <1>2, <2>1, NewOffer
<1>4. WithinCapacity
  <2> SUFFICES ASSUME NEW w \in Runners \ Launchers
               PROVE  Cardinality(openOffers \cap OffersOf(w)) + Cardinality(Running(w, runningTasks))
                          <= MaxConcurrency
    BY DEF WithinCapacity
  <2>1. openOffers \cap OffersOf(w) = {} /\ Running(w, runningTasks) = {}
    BY <1>2 DEF Init, Running, OffersOf
  <2> QED
    BY <2>1, FS_EmptySet, BrokerAssumption
<1> QED
  BY <1>1, <1>3, <1>4 DEF RunnerInv

\* Nothing that happens, in whatever order, breaks the invariant.
LEMMA NextKeepsRunner == RunnerInv /\ [Next]_vars => RunnerInv'
<1> SUFFICES ASSUME RunnerInv, [Next]_vars PROVE InStep' /\ WithinCapacity'
  BY NextKeepsBroker DEF RunnerInv
<1>1. ASSUME NEW q \in Requests, StartTask(q) PROVE InStep' /\ WithinCapacity'
  BY <1>1, MatchingKeepsRunners
<1>2. ASSUME NEW o \in Offers,
             \/ Handle(o) \/ AcceptTimesOut(o) \/ HandleTaskTimeout(o)
             \/ RunnerHandle(o) \/ TaskTimedOut(o)
             \/ ExecutionEnds(o, "done") \/ ExecutionEnds(o, "error")
      PROVE  InStep' /\ WithinCapacity'
  <2>1. RunnerOf(o) \in Runners
    BY RunnerFacts
  <2>2. CASE Handle(o) \/ AcceptTimesOut(o) \/ HandleTaskTimeout(o)
    BY <2>1, <2>2, BrokerStepsKeepRunners
  <2>3. CASE RunnerHandle(o)
    BY <2>3, OfferAcceptedKeeps, TaskMessagesKeep DEF RunnerHandle
  <2>4. CASE TaskTimedOut(o) \/ ExecutionEnds(o, "done") \/ ExecutionEnds(o, "error")
    BY <2>1, <2>4, TaskEndsKeep
  <2> QED
    BY <1>2, <2>2, <2>3, <2>4
<1>3. ASSUME NEW w \in Runners,
             \/ RegisterRunner(w) \/ DeregisterRunner(w) \/ OfferInterval(w) \/ ConnectionLost(w)
             \/ \E o \in Offers : LauncherOffers(w, o)
      PROVE  InStep' /\ WithinCapacity'
  <2>1. <<w, 1>> \in Offers
    <3>1. 1 \in 1..MaxOffers
      BY BrokerAssumption
    <3> QED
      BY <3>1 DEF Offers
  <2>2. CASE RegisterRunner(w) \/ DeregisterRunner(w)
    BY <2>1, <2>2, BrokerStepsKeepRunners
  <2>3. CASE OfferInterval(w)
    BY <2>1, <2>3, TaskEndsKeep
  <2>4. CASE ConnectionLost(w) \/ \E o \in Offers : LauncherOffers(w, o)
    BY <2>1, <2>4, ConnectionsKeep
  <2> QED
    BY <1>3, <2>2, <2>3, <2>4
<1>4. CASE UNCHANGED vars
  BY <1>4 DEF vars, RunnerInv, InStep, WithinCapacity, Running, OffersOf
<1> QED
  BY <1>1, <1>2, <1>3, <1>4 DEF Next

\* A runner never promises more slots than it has: its open offers and its tasks together
\* stay within its limit, whatever the broker has forgotten, cancelled or taken late.
THEOREM RunnerStaysWithinCapacity == Spec => []WithinCapacity
<1>1. RunnerInv => WithinCapacity
  BY DEF RunnerInv
<1> QED
  BY InitRunner, NextKeepsRunner, <1>1, PTL DEF Spec

\* "These states should never happen": the assertion of receivedSettings about the state of
\* the task never fails - settings find a task that waits for them or is over.
THEOREM SettingsAreExpected == Spec => []SettingsExpected
<1>1. RunnerInv => SettingsExpected
  <2> SUFFICES ASSUME RunnerInv, NEW o \in Offers, Receives(toRunner, o, "settings")
               PROVE  runningTasks[o] \in {"none", "waitingForSettings"}
    BY DEF SettingsExpected
  <2>1. toRunner[o] \in Seq(InMessages) /\ toRunner[o] # << >> /\ Head(toRunner[o]) = "settings"
    BY ChannelFacts DEF RunnerInv, Receives
  <2>2. Has(toRunner[o], "settings")
    BY <2>1, TailHas
  <2> QED
    BY <2>2 DEF RunnerInv, InStep, OneHand
<1> QED
  BY InitRunner, NextKeepsRunner, <1>1, PTL DEF Spec

=============================================================================
