--------------------------- MODULE InsightsProofs ---------------------------
(***************************************************************************)
(* Proofs about InsightsCollection: no event is counted twice, none is      *)
(* lost, and what a process leaves behind at its exit is only what was      *)
(* refused after shutdown had begun, or what nobody waited for.            *)
(***************************************************************************)
EXTENDS InsightsCollection, TLAPS

\* The buffer, the flushes and the database have no event in common.
Once(buffer, flushes, raw) ==
    /\ buffer \cap raw = {}
    /\ \A f \in Flushes : flushes[f] \cap (buffer \cup raw) = {}
    /\ \A f, g \in Flushes : f # g => flushes[f] \cap flushes[g] = {}

\* An execution that runs has left nothing yet.
NoneAhead ==
    \A x \in Executions, t \in {"outcome"} \cup Optional :
        handler[x] = "running" => <<x, t>> \notin bufferedInsights \cup Flushed \cup insightsRaw

\* What a flush holds has been refused before, or its own execution awaits it.
AwaitedByHandlers(f) ==
    \A v \in flushing[f] : v \in failedLate \/ (handler[v[1]] = "flushing" /\ awaited[v[1]] = f)

\* Once shutdown has begun, an event that nobody awaits the flush of has been refused; once
\* the process is down, nobody awaits a flush whose execution had an entry.
LateEventsAwaited ==
    phase # "up" /\ phase # "killed" =>
        /\ ~isAsynchronouslySavingInsights
        /\ bufferedInsights \subseteq failedLate
        /\ \A f \in Flushes : (phase = "stopping" /\ f \in shutdownAwaits) \/ AwaitedByHandlers(f)
        /\ phase = "down" => \A x \in Executions \ Released : handler[x] # "flushing"

IInv ==
    /\ InsightsTypeOK /\ EachEventOnce /\ NoneAhead /\ NoEventLost
    /\ BufferIsScheduled /\ LateEventsAwaited

-----------------------------------------------------------------------------
(* The start of a flush and its end *)

\* A flush that starts moves the events from the buffer and leaves a timer or itself.
LEMMA FlushEventsKeeps ==
    ASSUME NEW f \in Flushes, NEW events \in SUBSET Event,
           flushing \in [Flushes -> SUBSET Event],
           Once(events, flushing, insightsRaw),
           FlushEvents(f, events), UNCHANGED insightsRaw
    PROVE  /\ bufferedInsights' \in SUBSET Event /\ timer' \in BOOLEAN
           /\ flushing' \in [Flushes -> SUBSET Event]
           /\ EachEventOnce'
           /\ bufferedInsights' \cup Flushed' = events \cup Flushed
           /\ timer' \/ FlushesInProgress' # {}
           /\ bufferedInsights' = {}
           /\ \A g \in Flushes : flushing'[g] = flushing[g] \/ (g = f /\ flushing'[g] = events)
  <1>1. CASE events = {}
    BY <1>1 DEF FlushEvents, Once, EachEventOnce, Flushed
  <1>2. CASE events # {}
    <2>1. flushing[f] = {} /\ flushing' = [flushing EXCEPT ![f] = events]
          /\ timer' = FALSE /\ bufferedInsights' = {}
      BY <1>2 DEF FlushEvents, Fresh
    <2>2. \A g \in Flushes : flushing'[g] = IF g = f THEN events ELSE flushing[g]
      BY <2>1
    <2>3. flushing' \in [Flushes -> SUBSET Event]
      BY <2>1
    <2>4. EachEventOnce'
      BY <2>1, <2>2 DEF EachEventOnce, Once
    <2>5. Flushed' = events \cup Flushed
      BY <2>1, <2>2 DEF Flushed
    <2>6. f \in FlushesInProgress'
      BY <1>2, <2>2 DEF FlushesInProgress
    <2>7. QED
      BY <2>1, <2>2, <2>3, <2>4, <2>5, <2>6
  <1>3. QED
    BY <1>1, <1>2

\* A flush that ends, well or not.
LEMMA OverKeeps ==
    ASSUME NEW f \in Flushes, InsightsTypeOK, EachEventOnce, InProgress(f), Over(f)
    PROVE  /\ timer' = TRUE /\ flushing' \in [Flushes -> SUBSET Event]
           /\ \A g \in Flushes : flushing'[g] = IF g = f THEN {} ELSE flushing[g]
           /\ Flushed = flushing[f] \cup Flushed'
           /\ flushing[f] \in SUBSET Event
  <1>1. \A g \in Flushes : flushing'[g] = IF g = f THEN {} ELSE flushing[g]
    BY DEF Over, InsightsTypeOK
  <1>2. timer' = TRUE /\ flushing' \in [Flushes -> SUBSET Event]
    BY DEF Over, InsightsTypeOK
  <1>3. Flushed = flushing[f] \cup Flushed'
    BY <1>1 DEF Flushed
  <1>4. QED
    BY <1>1, <1>2, <1>3 DEF InsightsTypeOK

-----------------------------------------------------------------------------
(* The invariant is inductive *)

LEMMA InitIInv == Init => IInv
  <1>1. SUFFICES ASSUME Init PROVE IInv
    OBVIOUS
  <1>2. Flushed = {}
    BY <1>1 DEF Init, Flushed
  <1>3. QED
    BY <1>1, <1>2, InsightsAssumption
       DEF Init, IInv, InsightsTypeOK, EachEventOnce, NoneAhead, NoEventLost, BufferIsScheduled,
           LateEventsAwaited

\* The buffer as it stands can be flushed.
LEMMA BufferIsOnce == IInv => bufferedInsights \in SUBSET Event /\ Once(bufferedInsights, flushing, insightsRaw)
  BY DEF IInv, InsightsTypeOK, EachEventOnce, Once

\* The buffer can be flushed with the events of an execution that ends.
LEMMA EventsAreNew ==
    ASSUME IInv, NEW x \in Executions, NEW types \in SUBSET Optional, handler[x] = "running"
    PROVE  /\ bufferedInsights \cup EventsOf(x, types) \in SUBSET Event
           /\ Once(bufferedInsights \cup EventsOf(x, types), flushing, insightsRaw)
           /\ <<x, "outcome">> \in EventsOf(x, types)
           /\ \A v \in EventsOf(x, types) : v[1] = x
           /\ \A y \in Executions \ {x}, t \in {"outcome"} \cup Optional : <<y, t>> \notin EventsOf(x, types)
  <1>1. EventsOf(x, types) \in SUBSET Event
    BY DEF EventsOf, Event
  <1>2. ASSUME NEW v \in EventsOf(x, types) PROVE v \notin bufferedInsights \cup Flushed \cup insightsRaw
    <2>1. v[2] \in {"outcome"} \cup Optional /\ v = <<x, v[2]>>
      BY DEF EventsOf
    <2>2. QED
      BY <2>1 DEF IInv, NoneAhead
  <1>3. \A f \in Flushes : flushing[f] \subseteq Flushed
    BY DEF Flushed
  <1>4. Once(bufferedInsights \cup EventsOf(x, types), flushing, insightsRaw)
    BY <1>2, <1>3, BufferIsOnce DEF Once
  <1>5. QED
    BY <1>1, <1>4, BufferIsOnce DEF EventsOf

LEMMA TimerKeepsIInv == ASSUME IInv, NEW f \in Flushes, TimerFires(f) PROVE IInv'
  <1> DEFINE events == bufferedInsights
  <1>1. /\ FlushEvents(f, events) /\ Alive
        /\ UNCHANGED <<isAsynchronouslySavingInsights, insightsRaw, handler, awaited, phase,
                        shutdownAwaits, failures, failedLate>>
    BY DEF TimerFires
  <1>2. /\ bufferedInsights' \in SUBSET Event /\ timer' \in BOOLEAN
        /\ flushing' \in [Flushes -> SUBSET Event] /\ EachEventOnce'
        /\ bufferedInsights' \cup Flushed' = events \cup Flushed
        /\ timer' \/ FlushesInProgress' # {}
        /\ bufferedInsights' = {}
        /\ \A g \in Flushes : flushing'[g] = flushing[g] \/ (g = f /\ flushing'[g] = events)
    BY <1>1, BufferIsOnce, FlushEventsKeeps DEF IInv, InsightsTypeOK
  <1>3. InsightsTypeOK'
    BY <1>1, <1>2 DEF IInv, InsightsTypeOK
  <1>4. NoneAhead' /\ NoEventLost'
    BY <1>1, <1>2 DEF IInv, NoneAhead, NoEventLost
  <1>5. BufferIsScheduled'
    BY <1>2 DEF BufferIsScheduled, Alive
  <1>6. LateEventsAwaited'
    BY <1>1, <1>2 DEF IInv, LateEventsAwaited, AwaitedByHandlers, Alive
  <1>7. QED
    BY <1>2, <1>3, <1>4, <1>5, <1>6 DEF IInv

LEMMA EndsKeepsIInv ==
    ASSUME IInv, NEW x \in Executions, NEW types \in SUBSET Optional, NEW f \in Flushes,
           WorkflowEnds(x, types, f)
    PROVE  IInv'
  <1> DEFINE events == bufferedInsights \cup EventsOf(x, types)
  <1>1. /\ Alive /\ handler[x] = "running" /\ isAsynchronouslySavingInsights
        /\ handler' = [handler EXCEPT ![x] = "over"]
        /\ UNCHANGED <<isAsynchronouslySavingInsights, insightsRaw, awaited, phase,
                        shutdownAwaits, failures, failedLate>>
    BY DEF WorkflowEnds
  <1>2. phase = "up"
    BY <1>1 DEF IInv, LateEventsAwaited, InsightsTypeOK, Alive
  <1>3. /\ bufferedInsights' \in SUBSET Event /\ timer' \in BOOLEAN
        /\ flushing' \in [Flushes -> SUBSET Event] /\ EachEventOnce'
        /\ bufferedInsights' \cup Flushed' = events \cup Flushed
        /\ timer' \/ FlushesInProgress' # {}
    <2>1. CASE Full(events)
      BY <1>1, <2>1, EventsAreNew, FlushEventsKeeps DEF WorkflowEnds, IInv, InsightsTypeOK
    <2>2. CASE ~Full(events)
      <3>1. bufferedInsights' = events /\ UNCHANGED <<timer, flushing>>
        BY <2>2 DEF WorkflowEnds
      <3>2. timer \/ FlushesInProgress # {}
        BY <1>1 DEF IInv, BufferIsScheduled, Alive
      <3>3. EachEventOnce'
        BY <1>1, <3>1, EventsAreNew DEF EachEventOnce, Once
      <3>4. events \in SUBSET Event
        BY <1>1, EventsAreNew
      <3>5. Flushed' = Flushed /\ FlushesInProgress' = FlushesInProgress
        BY <3>1 DEF Flushed, FlushesInProgress
      <3>6. timer' \in BOOLEAN /\ flushing' \in [Flushes -> SUBSET Event]
        BY <3>1 DEF IInv, InsightsTypeOK
      <3>7. QED
        BY <3>1, <3>2, <3>3, <3>4, <3>5, <3>6
    <2>3. QED
      BY <2>1, <2>2
  <1>4. InsightsTypeOK'
    BY <1>1, <1>3 DEF IInv, InsightsTypeOK
  <1>5. \A y \in Executions : handler'[y] = IF y = x THEN "over" ELSE handler[y]
    BY <1>1 DEF IInv, InsightsTypeOK
  <1>6. NoneAhead'
    <2>1. SUFFICES ASSUME NEW y \in Executions, NEW t \in {"outcome"} \cup Optional, handler'[y] = "running"
                   PROVE  <<y, t>> \notin bufferedInsights' \cup Flushed' \cup insightsRaw'
      BY DEF NoneAhead
    <2>2. y # x /\ handler[y] = "running"
      BY <1>5, <2>1
    <2>3. <<y, t>> \notin EventsOf(x, types)
      BY <1>1, <2>2, EventsAreNew
    <2>4. <<y, t>> \notin bufferedInsights \cup Flushed \cup insightsRaw
      BY <2>2 DEF IInv, NoneAhead
    <2>5. QED
      BY <1>1, <1>3, <2>3, <2>4
  <1>7. NoEventLost'
    BY <1>1, <1>3, <1>5, EventsAreNew DEF IInv, NoEventLost
  <1>8. BufferIsScheduled' /\ LateEventsAwaited'
    BY <1>1, <1>2, <1>3 DEF BufferIsScheduled, LateEventsAwaited, Alive
  <1>9. QED
    BY <1>3, <1>4, <1>6, <1>7, <1>8 DEF IInv

LEMMA EndsLateKeepsIInv ==
    ASSUME IInv, NEW x \in Executions, NEW types \in SUBSET Optional, NEW f \in Flushes,
           WorkflowEndsLate(x, types, f)
    PROVE  IInv'
  <1> DEFINE events == bufferedInsights \cup EventsOf(x, types)
  <1>1. /\ Alive /\ handler[x] = "running" /\ ~isAsynchronouslySavingInsights
        /\ handler' = [handler EXCEPT ![x] = "flushing"]
        /\ awaited' = [awaited EXCEPT ![x] = f]
        /\ FlushEvents(f, events)
        /\ UNCHANGED <<isAsynchronouslySavingInsights, insightsRaw, phase,
                        shutdownAwaits, failures, failedLate>>
    BY DEF WorkflowEndsLate
  <1>2. /\ bufferedInsights' \in SUBSET Event /\ timer' \in BOOLEAN
        /\ flushing' \in [Flushes -> SUBSET Event] /\ EachEventOnce'
        /\ bufferedInsights' \cup Flushed' = events \cup Flushed
        /\ timer' \/ FlushesInProgress' # {}
        /\ bufferedInsights' = {}
        /\ \A g \in Flushes : flushing'[g] = flushing[g] \/ (g = f /\ flushing'[g] = events)
    BY <1>1, EventsAreNew, FlushEventsKeeps DEF IInv, InsightsTypeOK
  <1>3. InsightsTypeOK'
    BY <1>1, <1>2 DEF IInv, InsightsTypeOK
  <1>4. /\ \A y \in Executions : handler'[y] = IF y = x THEN "flushing" ELSE handler[y]
        /\ \A y \in Executions : awaited'[y] = IF y = x THEN f ELSE awaited[y]
    BY <1>1 DEF IInv, InsightsTypeOK
  <1>5. NoneAhead'
    <2>1. SUFFICES ASSUME NEW y \in Executions, NEW t \in {"outcome"} \cup Optional, handler'[y] = "running"
                   PROVE  <<y, t>> \notin bufferedInsights' \cup Flushed' \cup insightsRaw'
      BY DEF NoneAhead
    <2>2. y # x /\ handler[y] = "running"
      BY <1>4, <2>1
    <2>3. <<y, t>> \notin EventsOf(x, types)
      BY <1>1, <2>2, EventsAreNew
    <2>4. <<y, t>> \notin bufferedInsights \cup Flushed \cup insightsRaw
      BY <2>2 DEF IInv, NoneAhead
    <2>5. QED
      BY <1>1, <1>2, <2>3, <2>4
  <1>6. NoEventLost'
    BY <1>1, <1>2, <1>4, EventsAreNew DEF IInv, NoEventLost
  <1>7. BufferIsScheduled'
    BY <1>2 DEF BufferIsScheduled, Alive
  <1>8. LateEventsAwaited'
    <2> SUFFICES ASSUME phase # "up", phase # "killed"
                 PROVE  /\ bufferedInsights \subseteq failedLate /\ phase # "down"
                        /\ \A g \in Flushes : (phase = "stopping" /\ g \in shutdownAwaits) \/ AwaitedByHandlers(g)'
      BY <1>1, <1>2 DEF LateEventsAwaited
    <2>1. bufferedInsights \subseteq failedLate /\ phase # "down"
      BY <1>1 DEF IInv, LateEventsAwaited, Alive
    <2>2. ASSUME NEW g \in Flushes PROVE (phase = "stopping" /\ g \in shutdownAwaits) \/ AwaitedByHandlers(g)'
      <3> SUFFICES ASSUME ~(phase = "stopping" /\ g \in shutdownAwaits), NEW v \in flushing'[g], v \notin failedLate
                   PROVE  handler'[v[1]] = "flushing" /\ awaited'[v[1]] = g
        BY <1>1 DEF AwaitedByHandlers
      <3>1. CASE v \in flushing[g]
        <4>1. handler[v[1]] = "flushing" /\ awaited[v[1]] = g
          BY <3>1 DEF IInv, LateEventsAwaited, AwaitedByHandlers
        <4>2. v \in Event
          BY <3>1 DEF IInv, InsightsTypeOK
        <4>3. v[1] \in Executions
          BY <4>2 DEF Event
        <4> QED
          BY <1>1, <1>4, <4>1, <4>3
      <3>2. CASE v \notin flushing[g]
        <4>1. g = f /\ v \in EventsOf(x, types)
          BY <1>2, <2>1, <3>2
        <4>2. v[1] = x
          BY <1>1, <4>1, EventsAreNew
        <4> QED
          BY <1>4, <4>1, <4>2
      <3> QED
        BY <3>1, <3>2
    <2> QED
      BY <2>1, <2>2
  <1>9. QED
    BY <1>2, <1>3, <1>5, <1>6, <1>7, <1>8 DEF IInv

LEMMA HandlerEndsKeepsIInv ==
    ASSUME IInv, NEW x \in Executions, NEW f \in Flushes, HandlerEnds(x, f)
    PROVE  IInv'
  <1>1. /\ Alive /\ handler[x] = "flushing" /\ awaited[x] \notin FlushesInProgress
        /\ handler' = [handler EXCEPT ![x] = "over"]
        /\ awaited' = [awaited EXCEPT ![x] = NoFlush]
        /\ UNCHANGED <<isAsynchronouslySavingInsights, insightsRaw, phase,
                        shutdownAwaits, failures, failedLate>>
    BY DEF HandlerEnds
  <1>2. /\ bufferedInsights' \in SUBSET Event /\ timer' \in BOOLEAN
        /\ flushing' \in [Flushes -> SUBSET Event] /\ EachEventOnce'
        /\ bufferedInsights' \cup Flushed' = bufferedInsights \cup Flushed
        /\ timer' \/ FlushesInProgress' # {}
        /\ bufferedInsights' \subseteq bufferedInsights
        /\ \A g \in Flushes : flushing'[g] = flushing[g] \/ flushing'[g] = bufferedInsights
    <2>1. CASE Full(bufferedInsights)
      <3>1. FlushEvents(f, bufferedInsights)
        BY <2>1 DEF HandlerEnds
      <3>2. QED
        BY <1>1, <3>1, BufferIsOnce, FlushEventsKeeps DEF IInv, InsightsTypeOK
    <2>2. CASE ~Full(bufferedInsights)
      <3>1. UNCHANGED <<bufferedInsights, timer, flushing>>
        BY <2>2 DEF HandlerEnds
      <3>2. QED
        BY <1>1, <3>1 DEF IInv, InsightsTypeOK, EachEventOnce, BufferIsScheduled, Flushed, FlushesInProgress
    <2>3. QED
      BY <2>1, <2>2
  <1>3. InsightsTypeOK'
    BY <1>1, <1>2 DEF IInv, InsightsTypeOK
  <1>4. /\ \A y \in Executions : handler'[y] = IF y = x THEN "over" ELSE handler[y]
        /\ \A y \in Executions : awaited'[y] = IF y = x THEN NoFlush ELSE awaited[y]
    BY <1>1 DEF IInv, InsightsTypeOK
  <1>5. NoneAhead' /\ NoEventLost'
    BY <1>1, <1>2, <1>4 DEF IInv, NoneAhead, NoEventLost
  <1>6. BufferIsScheduled'
    BY <1>2 DEF BufferIsScheduled, Alive
  <1>7. LateEventsAwaited'
    BY <1>1, <1>2, <1>4 DEF IInv, LateEventsAwaited, AwaitedByHandlers, FlushesInProgress
  <1>8. QED
    BY <1>2, <1>3, <1>5, <1>6, <1>7 DEF IInv

LEMMA SucceedsKeepsIInv == ASSUME IInv, NEW f \in Flushes, FlushSucceeds(f) PROVE IInv'
  <1>1. /\ InProgress(f) /\ Over(f) /\ Alive
        /\ insightsRaw' = insightsRaw \cup flushing[f]
        /\ UNCHANGED <<bufferedInsights, isAsynchronouslySavingInsights, handler, awaited, phase,
                        shutdownAwaits, failures, failedLate>>
    BY DEF FlushSucceeds, InProgress
  <1>2. /\ timer' = TRUE /\ flushing' \in [Flushes -> SUBSET Event]
        /\ \A g \in Flushes : flushing'[g] = IF g = f THEN {} ELSE flushing[g]
        /\ Flushed = flushing[f] \cup Flushed'
        /\ flushing[f] \in SUBSET Event
    BY <1>1, OverKeeps DEF IInv
  <1>3. InsightsTypeOK'
    BY <1>1, <1>2 DEF IInv, InsightsTypeOK
  <1>4. EachEventOnce'
    BY <1>1, <1>2 DEF IInv, EachEventOnce
  <1>5. NoneAhead' /\ NoEventLost'
    BY <1>1, <1>2 DEF IInv, NoneAhead, NoEventLost
  <1>6. BufferIsScheduled'
    BY <1>2 DEF BufferIsScheduled, Alive
  <1>7. LateEventsAwaited'
    BY <1>1, <1>2 DEF IInv, LateEventsAwaited, AwaitedByHandlers, Alive
  <1>8. QED
    BY <1>3, <1>4, <1>5, <1>6, <1>7 DEF IInv

\* A flush that the database or an event fails gives its events back.
LEMMA FailsKeepsIInv ==
    ASSUME IInv, NEW f \in Flushes, FlushFails(f) \/ FlushThrows(f)
    PROVE  IInv'
  <1>1. /\ InProgress(f) /\ Over(f) /\ Alive
        /\ bufferedInsights' = bufferedInsights \cup flushing[f]
        /\ failedLate' = IF phase = "up" THEN failedLate ELSE failedLate \cup flushing[f]
        /\ UNCHANGED <<insightsRaw, isAsynchronouslySavingInsights, handler,
                        awaited, phase, shutdownAwaits>>
    BY DEF FlushFails, FlushThrows, PutBack, InProgress
  <1>2. /\ timer' = TRUE /\ flushing' \in [Flushes -> SUBSET Event]
        /\ \A g \in Flushes : flushing'[g] = IF g = f THEN {} ELSE flushing[g]
        /\ Flushed = flushing[f] \cup Flushed'
        /\ flushing[f] \in SUBSET Event
    BY <1>1, OverKeeps DEF IInv
  <1>3. InsightsTypeOK'
    <2>1. failures' \in 0..MaxFailures
      BY InsightsAssumption DEF FlushFails, FlushThrows, IInv, InsightsTypeOK
    <2>2. QED
      BY <1>1, <1>2, <2>1 DEF IInv, InsightsTypeOK
  <1>4. EachEventOnce'
    BY <1>1, <1>2 DEF IInv, EachEventOnce
  <1>5. NoneAhead' /\ NoEventLost'
    BY <1>1, <1>2 DEF IInv, NoneAhead, NoEventLost
  <1>6. BufferIsScheduled'
    BY <1>2 DEF BufferIsScheduled, Alive
  <1>7. LateEventsAwaited'
    BY <1>1, <1>2 DEF IInv, LateEventsAwaited, AwaitedByHandlers, Alive
  <1>8. QED
    BY <1>3, <1>4, <1>5, <1>6, <1>7 DEF IInv

LEMMA ShutdownKeepsIInv == ASSUME IInv, NEW f \in Flushes, Shutdown(f) PROVE IInv'
  <1>1. /\ phase = "up" /\ phase' = "stopping" /\ isAsynchronouslySavingInsights' = FALSE
        /\ FlushEvents(f, bufferedInsights)
        /\ shutdownAwaits' = FlushesInProgress \cup (IF bufferedInsights = {} THEN {} ELSE {f})
        /\ UNCHANGED <<insightsRaw, handler, awaited, failures, failedLate>>
    BY DEF Shutdown
  <1>2. /\ bufferedInsights' \in SUBSET Event /\ timer' \in BOOLEAN
        /\ flushing' \in [Flushes -> SUBSET Event] /\ EachEventOnce'
        /\ bufferedInsights' \cup Flushed' = bufferedInsights \cup Flushed
        /\ timer' \/ FlushesInProgress' # {}
        /\ bufferedInsights' = {}
        /\ \A g \in Flushes : flushing'[g] = flushing[g] \/ (g = f /\ flushing'[g] = bufferedInsights)
    BY <1>1, BufferIsOnce, FlushEventsKeeps DEF IInv, InsightsTypeOK
  <1>3. InsightsTypeOK'
    BY <1>1, <1>2 DEF IInv, InsightsTypeOK, FlushesInProgress
  <1>4. NoneAhead' /\ NoEventLost'
    BY <1>1, <1>2 DEF IInv, NoneAhead, NoEventLost
  <1>5. BufferIsScheduled'
    BY <1>2 DEF BufferIsScheduled, Alive
  <1>6. LateEventsAwaited'
    <2>1. ASSUME NEW g \in Flushes PROVE g \in shutdownAwaits' \/ AwaitedByHandlers(g)'
      <3>1. flushing'[g] = {} \/ g \in shutdownAwaits'
        BY <1>1, <1>2 DEF FlushesInProgress
      <3> QED
        BY <3>1 DEF AwaitedByHandlers
    <2> QED
      BY <1>1, <1>2, <2>1 DEF LateEventsAwaited
  <1>7. QED
    BY <1>2, <1>3, <1>4, <1>5, <1>6 DEF IInv

\* The ends of the shutdown and of the process move no event.
LEMMA ProcessEndsKeepsIInv == ASSUME IInv, ShutdownEnds \/ Exit \/ Killed PROVE IInv'
  <1>1. CASE ShutdownEnds
    <2>1. /\ phase = "stopping" /\ shutdownAwaits \cap FlushesInProgress = {}
          /\ phase' = "stopped" /\ shutdownAwaits' = {}
          /\ UNCHANGED <<bufferedInsights, timer, isAsynchronouslySavingInsights, flushing,
                          insightsRaw, handler, awaited, failures, failedLate>>
      BY <1>1 DEF ShutdownEnds
    <2>2. LateEventsAwaited'
      BY <2>1 DEF IInv, LateEventsAwaited, AwaitedByHandlers, FlushesInProgress
    <2>3. QED
      BY <2>1, <2>2 DEF IInv, InsightsTypeOK, EachEventOnce, NoneAhead, NoEventLost, BufferIsScheduled,
                        Alive, Flushed, FlushesInProgress
  <1>2. CASE Exit \/ Killed
    <2>1. /\ phase' \in {"down", "killed"}
          /\ phase' = "down" => phase = "stopped" /\ \A x \in Executions \ Released : handler[x] # "flushing"
          /\ UNCHANGED <<bufferedInsights, timer, isAsynchronouslySavingInsights, flushing,
                          insightsRaw, handler, awaited, shutdownAwaits, failures, failedLate>>
      BY <1>2 DEF Exit, Killed, Ends
    <2>2. LateEventsAwaited'
      BY <2>1 DEF IInv, LateEventsAwaited, AwaitedByHandlers, Alive
    <2>3. QED
      BY <2>1, <2>2 DEF IInv, InsightsTypeOK, EachEventOnce, NoneAhead, NoEventLost, BufferIsScheduled,
                        Alive, Flushed, FlushesInProgress
  <1>3. QED
    BY <1>1, <1>2

LEMMA StutterKeepsIInv == ASSUME IInv, UNCHANGED vars PROVE IInv'
  BY DEF IInv, InsightsTypeOK, EachEventOnce, NoneAhead, NoEventLost, BufferIsScheduled,
         LateEventsAwaited, AwaitedByHandlers, Alive, Flushed, FlushesInProgress, vars

LEMMA NextIInv == IInv /\ [Next]_vars => IInv'
  <1>1. SUFFICES ASSUME IInv, [Next]_vars PROVE IInv'
    OBVIOUS
  <1>2. CASE UNCHANGED vars
    BY <1>1, <1>2, StutterKeepsIInv
  <1>3. CASE \E f \in Flushes : TimerFires(f)
    BY <1>1, <1>3, TimerKeepsIInv
  <1>4. CASE \E f \in Flushes : FlushSucceeds(f)
    BY <1>1, <1>4, SucceedsKeepsIInv
  <1>5. CASE \E f \in Flushes : FlushFails(f) \/ FlushThrows(f)
    BY <1>1, <1>5, FailsKeepsIInv
  <1>6. CASE \E f \in Flushes : Shutdown(f)
    BY <1>1, <1>6, ShutdownKeepsIInv
  <1>7. CASE \E f \in Flushes, x \in Executions, types \in SUBSET Optional : WorkflowEnds(x, types, f)
    BY <1>1, <1>7, EndsKeepsIInv
  <1>8. CASE \E f \in Flushes, x \in Executions, types \in SUBSET Optional : WorkflowEndsLate(x, types, f)
    BY <1>1, <1>8, EndsLateKeepsIInv
  <1>9. CASE \E f \in Flushes, x \in Executions : HandlerEnds(x, f)
    BY <1>1, <1>9, HandlerEndsKeepsIInv
  <1>10. CASE ShutdownEnds \/ Exit \/ Killed
    BY <1>1, <1>10, ProcessEndsKeepsIInv
  <1>11. QED
    BY <1>1, <1>2, <1>3, <1>4, <1>5, <1>6, <1>7, <1>8, <1>9, <1>10 DEF Next

LEMMA AlwaysIInv == Spec => []IInv
  BY InitIInv, NextIInv, PTL DEF Spec

-----------------------------------------------------------------------------
(* The theorems *)

\* The types of the buffer, of the flushes in progress and of the process are kept.
THEOREM InsightsAreTyped == Spec => []InsightsTypeOK
  <1>1. IInv => InsightsTypeOK
    BY DEF IInv
  <1>2. QED
    BY <1>1, AlwaysIInv, PTL

\* However many flushes overlap and fail (bufferedInsights.clear, and the catch of
\* flushEvents), no event is in two places, so none is inserted twice.
THEOREM NoEventTwice == Spec => []EachEventOnce
  <1>1. IInv => EachEventOnce
    BY DEF IInv
  <1>2. QED
    BY <1>1, AlwaysIInv, PTL

\* What handleWorkflowExecuteAfter has added is in the buffer, in a flush or stored.
THEOREM EventsAreKept == Spec => []NoEventLost
  <1>1. IInv => NoEventLost
    BY DEF IInv
  <1>2. QED
    BY <1>1, AlwaysIInv, PTL

\* The calls of scheduleFlushing and cancelScheduledFlushing leave no moment without
\* a timer and without a flush that will set one.
THEOREM BufferIsAlwaysScheduled == Spec => []BufferIsScheduled
  <1>1. IInv => BufferIsScheduled
    BY DEF IInv
  <1>2. QED
    BY <1>1, AlwaysIInv, PTL

\* The flushes that shutdown and the late handlers await are enough for a process that exits
\* when no execution has an entry: what it leaves has been refused since the shutdown began,
\* or belongs to an execution that had lost its entry and still awaited its flush.
THEOREM ExitIsClean == Spec => []StoredAtExit
  <1>1. IInv => StoredAtExit
    <2> SUFFICES ASSUME IInv, phase = "down", NEW v \in bufferedInsights \cup Flushed, v \notin failedLate
                 PROVE  v[1] \in Released /\ handler[v[1]] = "flushing"
      BY DEF StoredAtExit
    <2>1. PICK f \in Flushes : v \in flushing[f]
      BY DEF IInv, LateEventsAwaited, Flushed
    <2>2. handler[v[1]] = "flushing"
      BY <2>1 DEF IInv, LateEventsAwaited, AwaitedByHandlers
    <2>3. v \in Event
      BY <2>1 DEF IInv, InsightsTypeOK
    <2>4. v[1] \in Executions
      BY <2>3 DEF Event
    <2> QED
      BY <2>2, <2>4 DEF IInv, LateEventsAwaited
  <1>2. QED
    BY <1>1, AlwaysIInv, PTL
=============================================================================
