------------------------- MODULE InsightsCollection -------------------------
(***************************************************************************)
(* Insights: every execution that ends leaves a few events in a buffer,     *)
(* which is flushed to the database by a timer, when it is full, and at     *)
(* shutdown.  Flushes may overlap and may fail; a flush that fails puts its *)
(* events back.  After shutdown has begun, every execution that ends        *)
(* flushes the buffer itself; the process exits when the executions that    *)
(* have an entry are over, or when it has waited too long for that.         *)
(***************************************************************************)
EXTENDS Naturals, FiniteSets

CONSTANTS
    Executions,
    Optional,          \* types of event an execution may leave besides its outcome
    Flushes, NoFlush,  \* identities of flushes; one that is over is used again
    FlushBatchSize,
    Unowned,           \* executions of workflows for which no owner is found
    Released,          \* executions whose entry is gone before their last hook
    MaxFailures        \* bound on flushes that the database fails

ASSUME InsightsAssumption ==
    /\ NoFlush \notin Flushes /\ IsFiniteSet(Flushes)
    /\ FlushBatchSize \in Nat \ {0} /\ MaxFailures \in Nat
    /\ Unowned \subseteq Executions /\ Released \subseteq Executions

VARIABLES
    bufferedInsights,
    timer,             \* flushInsightsRawBufferTimer is set
    isAsynchronouslySavingInsights,
    flushing,          \* flushing[f]: the events of a flush in progress, or {}
    insightsRaw,       \* the events in the database
    handler,           \* handler[x]: the execution runs, awaits a flush, or is over
    awaited,           \* awaited[x]: the flush that the handler of x awaits
    phase,             \* the process: up, in InsightsCollectionService.shutdown, after it, down, killed
    shutdownAwaits,    \* the flushes that the shutdown awaits
    failures,
    failedLate         \* events of flushes that failed after the shutdown began (for the properties)

vars == <<bufferedInsights, timer, isAsynchronouslySavingInsights, flushing, insightsRaw,
          handler, awaited, phase, shutdownAwaits, failures, failedLate>>

Alive == phase \notin {"down", "killed"}

Event == Executions \X ({"outcome"} \cup Optional)
FlushesInProgress == {f \in Flushes : flushing[f] # {}}
Flushed == UNION {flushing[f] : f \in Flushes}

Init ==
    /\ bufferedInsights = {} /\ timer = TRUE /\ isAsynchronouslySavingInsights = TRUE
    /\ flushing = [f \in Flushes |-> {}] /\ insightsRaw = {}
    /\ handler = [x \in Executions |-> "running"]
    /\ awaited = [x \in Executions |-> NoFlush]
    /\ phase = "up" /\ shutdownAwaits = {}
    /\ failures = 0 /\ failedLate = {}

-----------------------------------------------------------------------------
(* Flushing *)

\* No flush in progress and none that somebody still has to hear the end of.
Fresh(f) == flushing[f] = {} /\ f \notin shutdownAwaits /\ \A x \in Executions : awaited[x] # f

\* A slip: the buffer is copied and not cleared.
FlushKeepingBuffer(f, events) ==
    IF events = {}
    THEN timer' = TRUE /\ bufferedInsights' = {} /\ UNCHANGED flushing
    ELSE /\ Fresh(f)
         /\ timer' = FALSE
         /\ flushing' = [flushing EXCEPT ![f] = events]
         /\ bufferedInsights' = events

\* flushEvents up to its await, the buffer holding the given events: without events
\* the timer is set again, else they leave the buffer.
FlushEvents(f, events) ==
    IF events = {}
    THEN timer' = TRUE /\ bufferedInsights' = {} /\ UNCHANGED flushing
    ELSE /\ Fresh(f)
         /\ timer' = FALSE
         /\ flushing' = [flushing EXCEPT ![f] = events]
         /\ bufferedInsights' = {}

Full(events) == Cardinality(events) >= FlushBatchSize

\* A slip: a buffer that is not full is left for the next time.
TimerFiresOnFull(f) ==
    /\ Alive /\ timer
    /\ IF Full(bufferedInsights)
       THEN FlushEvents(f, bufferedInsights)
       ELSE UNCHANGED <<timer, bufferedInsights, flushing>>
    /\ UNCHANGED <<isAsynchronouslySavingInsights, insightsRaw, handler, awaited, phase,
                   shutdownAwaits, failures, failedLate>>

TimerFires(f) ==
    /\ Alive /\ timer
    /\ FlushEvents(f, bufferedInsights)
    /\ UNCHANGED <<isAsynchronouslySavingInsights, insightsRaw, handler, awaited, phase,
                   shutdownAwaits, failures, failedLate>>

InProgress(f) == Alive /\ flushing[f] # {}

\* What every flush does in the end.
Over(f) == timer' = TRUE /\ flushing' = [flushing EXCEPT ![f] = {}]

HasUnowned(f) == \E v \in flushing[f] : v[1] \in Unowned

FlushSucceeds(f) ==
    /\ InProgress(f) /\ Over(f) /\ ~HasUnowned(f)
    /\ insightsRaw' = insightsRaw \cup flushing[f]
    /\ UNCHANGED <<bufferedInsights, isAsynchronouslySavingInsights, handler, awaited, phase,
                   shutdownAwaits, failures, failedLate>>

\* A slip: a flush that fails takes its events with it.
FlushDrops(f) ==
    /\ InProgress(f) /\ Over(f)
    /\ failures < MaxFailures /\ failures' = failures + 1
    /\ failedLate' = IF phase = "up" THEN failedLate ELSE failedLate \cup flushing[f]
    /\ UNCHANGED <<bufferedInsights, insightsRaw, isAsynchronouslySavingInsights, handler,
                   awaited, phase, shutdownAwaits>>

\* A slip: after a failure the timer stays as it is.
FlushFailsForGood(f) ==
    /\ InProgress(f) /\ flushing' = [flushing EXCEPT ![f] = {}] /\ UNCHANGED timer
    /\ bufferedInsights' = bufferedInsights \cup flushing[f]
    /\ failures < MaxFailures /\ failures' = failures + 1
    /\ failedLate' = IF phase = "up" THEN failedLate ELSE failedLate \cup flushing[f]
    /\ UNCHANGED <<insightsRaw, isAsynchronouslySavingInsights, handler,
                   awaited, phase, shutdownAwaits>>

\* The events of a flush that throws go back into the buffer.
PutBack(f) ==
    /\ InProgress(f) /\ Over(f)
    /\ bufferedInsights' = bufferedInsights \cup flushing[f]
    /\ failedLate' = IF phase = "up" THEN failedLate ELSE failedLate \cup flushing[f]
    /\ UNCHANGED <<insightsRaw, isAsynchronouslySavingInsights, handler,
                   awaited, phase, shutdownAwaits>>

\* The database fails.
FlushFails(f) == PutBack(f) /\ failures < MaxFailures /\ failures' = failures + 1

\* An event whose workflow has no owner makes every flush throw that it is part of.
FlushThrows(f) == HasUnowned(f) /\ PutBack(f) /\ UNCHANGED failures

-----------------------------------------------------------------------------
(* handleWorkflowExecuteAfter *)

EventsOf(x, types) == {x} \X ({"outcome"} \cup types)

\* An execution ends: its events join the buffer, which is flushed when it is full.
WorkflowEnds(x, types, f) ==
    /\ Alive /\ handler[x] = "running" /\ isAsynchronouslySavingInsights
    /\ handler' = [handler EXCEPT ![x] = "over"]
    /\ LET events == bufferedInsights \cup EventsOf(x, types)
       IN  IF Full(events)
           THEN FlushEvents(f, events)
           ELSE bufferedInsights' = events /\ UNCHANGED <<timer, flushing>>
    /\ UNCHANGED <<isAsynchronouslySavingInsights, insightsRaw, awaited, phase,
                   shutdownAwaits, failures, failedLate>>

\* An execution ends after shutdown has begun, and awaits a flush of its own ...
WorkflowEndsLate(x, types, f) ==
    /\ Alive /\ handler[x] = "running" /\ ~isAsynchronouslySavingInsights
    /\ handler' = [handler EXCEPT ![x] = "flushing"]
    /\ awaited' = [awaited EXCEPT ![x] = f]
    /\ FlushEvents(f, bufferedInsights \cup EventsOf(x, types))
    /\ UNCHANGED <<isAsynchronouslySavingInsights, insightsRaw, phase,
                   shutdownAwaits, failures, failedLate>>

\* ... after which the buffer may be full again.
HandlerEnds(x, f) ==
    /\ Alive /\ handler[x] = "flushing" /\ awaited[x] \notin FlushesInProgress
    /\ handler' = [handler EXCEPT ![x] = "over"]
    /\ awaited' = [awaited EXCEPT ![x] = NoFlush]
    /\ IF Full(bufferedInsights)
       THEN FlushEvents(f, bufferedInsights)
       ELSE UNCHANGED <<bufferedInsights, timer, flushing>>
    /\ UNCHANGED <<isAsynchronouslySavingInsights, insightsRaw, phase,
                   shutdownAwaits, failures, failedLate>>

-----------------------------------------------------------------------------
(* Shutdown *)

\* A slip: the shutdown awaits nothing but its own flush.
ShutdownAwaitsItsOwn(f) ==
    /\ phase = "up" /\ phase' = "stopping"
    /\ isAsynchronouslySavingInsights' = FALSE
    /\ FlushEvents(f, bufferedInsights)
    /\ shutdownAwaits' = IF bufferedInsights = {} THEN {} ELSE {f}
    /\ UNCHANGED <<insightsRaw, handler, awaited, failures, failedLate>>

\* shutdown up to its await: the flushes in progress are awaited, and one more.
Shutdown(f) ==
    /\ phase = "up" /\ phase' = "stopping"
    /\ isAsynchronouslySavingInsights' = FALSE
    /\ FlushEvents(f, bufferedInsights)
    /\ shutdownAwaits' = FlushesInProgress \cup (IF bufferedInsights = {} THEN {} ELSE {f})
    /\ UNCHANGED <<insightsRaw, handler, awaited, failures, failedLate>>

ShutdownEnds ==
    /\ phase = "stopping" /\ shutdownAwaits \cap FlushesInProgress = {}
    /\ phase' = "stopped" /\ shutdownAwaits' = {}
    /\ UNCHANGED <<bufferedInsights, timer, isAsynchronouslySavingInsights, flushing,
                   insightsRaw, handler, awaited, failures, failedLate>>

Ends(how) ==
    /\ phase' = how
    /\ UNCHANGED <<bufferedInsights, timer, isAsynchronouslySavingInsights, flushing,
                   insightsRaw, handler, awaited, shutdownAwaits, failures, failedLate>>

\* The process exits when no execution has an entry: those that await their hook still
\* have one, unless it was removed before.
Exit ==
    /\ phase = "stopped" /\ \A x \in Executions \ Released : handler[x] # "flushing"
    /\ Ends("down")

\* It crashes, or the shutdown has taken too long.
Killed == Alive /\ Ends("killed")

-----------------------------------------------------------------------------
Next ==
    \/ \E f \in Flushes :
          \/ TimerFires(f) \/ FlushSucceeds(f) \/ FlushFails(f) \/ FlushThrows(f) \/ Shutdown(f)
          \/ \E x \in Executions :
                \/ \E types \in SUBSET Optional : WorkflowEnds(x, types, f) \/ WorkflowEndsLate(x, types, f)
                \/ HandlerEnds(x, f)
    \/ ShutdownEnds \/ Exit \/ Killed

Spec == Init /\ [][Next]_vars

\* The timer fires, and a flush comes to an end: it succeeds unless the database fails it,
\* at most MaxFailures times, or an event without an owner makes it throw, every time.
Fairness ==
    /\ WF_vars(\E f \in Flushes : TimerFires(f))
    /\ \A f \in Flushes : WF_vars(FlushSucceeds(f) \/ FlushThrows(f))
    /\ WF_vars(\E x \in Executions, f \in Flushes : HandlerEnds(x, f))
    /\ WF_vars(ShutdownEnds)

FairSpec == Spec /\ Fairness

-----------------------------------------------------------------------------
(* Properties *)

\* Type invariant of the buffer, the flushes and the process.
InsightsTypeOK ==
    /\ bufferedInsights \subseteq Event /\ insightsRaw \subseteq Event /\ failedLate \subseteq Event
    /\ timer \in BOOLEAN /\ isAsynchronouslySavingInsights \in BOOLEAN
    /\ flushing \in [Flushes -> SUBSET Event]
    /\ handler \in [Executions -> {"running", "flushing", "over"}]
    /\ awaited \in [Executions -> Flushes \cup {NoFlush}]
    /\ phase \in {"up", "stopping", "stopped", "down", "killed"} /\ shutdownAwaits \subseteq Flushes
    /\ failures \in 0..MaxFailures

\* No event is counted twice: it is in the buffer, in one flush or in the database,
\* and in no two of them, however flushes overlap and fail.
EachEventOnce ==
    /\ bufferedInsights \cap insightsRaw = {}
    /\ \A f \in Flushes : flushing[f] \cap (bufferedInsights \cup insightsRaw) = {}
    /\ \A f, g \in Flushes : f # g => flushing[f] \cap flushing[g] = {}

\* No event is lost: one that an execution left is in one of these places.
NoEventLost ==
    \A x \in Executions :
        handler[x] # "running" => <<x, "outcome">> \in bufferedInsights \cup Flushed \cup insightsRaw

\* Somebody will come for the buffer: as long as the process is there, the timer is
\* set, or a flush is in progress that will set it when it is over.
BufferIsScheduled ==
    Alive => timer \/ FlushesInProgress # {}

\* A process that exits in the ordinary way leaves nothing behind but events that a flush
\* has refused after the shutdown had begun, and those of an execution whose entry was
\* gone before the hook that is flushing them: the exit does not wait for these.
StoredAtExit ==
    phase = "down" =>
        \A v \in bufferedInsights \cup Flushed :
            v \in failedLate \/ (v[1] \in Released /\ handler[v[1]] = "flushing")

\* The shutdown is not held up, and what is collected is stored, by the timer, by a full
\* buffer or by the shutdown, whichever comes first: unless the process ends before, or an
\* event without an owner is about, for it takes down the flushes of the others too.
CollectedIsStored ==
    \A x \in Executions :
        handler[x] # "running" ~>
            \/ <<x, "outcome">> \in insightsRaw \cup failedLate
            \/ \E u \in Unowned : handler[u] # "running"
            \/ phase = "killed" \/ (phase = "down" /\ x \in Released)

=============================================================================
