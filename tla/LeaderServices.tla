--------------------------- MODULE LeaderServices ---------------------------
(***************************************************************************)
(* What a main does because it leads: it looks for waiting executions that  *)
(* are due, and prunes executions.  The services start and stop with the    *)
(* events of MultiMainSetup, once their handlers are registered, and by     *)
(* themselves when the process starts and shuts down.                      *)
(*                                                                         *)
(* Each service keeps its timer in one field: to start it again without     *)
(* stopping it strands the first timer, which nothing can clear any more.   *)
(***************************************************************************)
EXTENDS MultiMainSetup

CONSTANT Rows          \* executions that wait and are due

VARIABLES
    mainTimer,         \* the interval of WaitTracker
    waitingExecutions, \* waitingExecutions[m][r]: its entry, with a timer or without
    found,             \* rows a query of WaitTracker has found, not handled yet
    resumed,           \* rows that have been resumed
    softDeletion,      \* the interval of ExecutionsPruningService
    untimely           \* mains whose role changed when the wait tracker had looked at it
                       \* and did not listen yet, or had been stopped (for the properties)

services == <<mainTimer, waitingExecutions, found, resumed, softDeletion, untimely>>
vars == <<key, sent, replies, renewing, refused, phase, instanceRole, stops, lapses,
          mainTimer, waitingExecutions, found, resumed, softDeletion, untimely>>

\* A timer and the field that holds it: does the field's timer run, and how many
\* others do.
Off == [set |-> FALSE, stray |-> 0]

Arm(t) == [set |-> TRUE, stray |-> IF t.set THEN t.stray + 1 ELSE t.stray]

Clear(t) == [t EXCEPT !.set = FALSE]
Runs(t) == t.set \/ t.stray > 0

NoEntries == [r \in Rows |-> "none"]

Init ==
    /\ ElectionInit
    /\ mainTimer = [m \in Mains |-> Off]
    /\ waitingExecutions = [m \in Mains |-> NoEntries]
    /\ found = [m \in Mains |-> {}] /\ resumed = {}
    /\ softDeletion = [m \in Mains |-> Off]
    /\ untimely = {}

isLeader(m) == instanceRole'[m] = "leader"

-----------------------------------------------------------------------------
(* Starting and stopping *)

\* WaitTracker.startTracking: the interval, and a first query at once.
StartTracking(m) ==
    /\ mainTimer' = [mainTimer EXCEPT ![m] = Arm(@)]
    /\ found' = [found EXCEPT ![m] = @ \cup (Rows \ resumed)]
    /\ UNCHANGED waitingExecutions

\* WaitTracker.stopTracking: the timers of the entries are cleared, the entries stay.
StopTracking(m) ==
    /\ mainTimer' = [mainTimer EXCEPT ![m] = Clear(@)]
    /\ waitingExecutions' = [waitingExecutions EXCEPT ![m] =
           [r \in Rows |-> IF @[r] = "timed" THEN "kept" ELSE @[r]]]
    /\ UNCHANGED found

\* ExecutionsPruningService.startPruning and stopPruning both look at isEnabled, which
\* asks whether this instance leads.
StartPruning(m) ==
    softDeletion' = IF isLeader(m) /\ phase[m] \notin {"stopping", "leaving", "clearing"}
                    THEN [softDeletion EXCEPT ![m] = Arm(@)] ELSE softDeletion
StopPruning(m) ==
    softDeletion' = IF isLeader(m) THEN [softDeletion EXCEPT ![m] = Clear(@)] ELSE softDeletion

Listens(m) == phase[m] \in {"serving", "up", "stopping", "leaving", "clearing"}

\* A reply is handled, and the services hear the event it leads to.
Elect(m) ==
    /\ HandleReply(m)
    /\ LET event == IF Listens(m) THEN Emitted(m) ELSE "none"
       IN  CASE event = "leader-takeover" -> StartTracking(m) /\ StartPruning(m)
             [] event = "leader-stepdown" -> StopTracking(m) /\ StopPruning(m)
             [] event = "none" -> UNCHANGED <<mainTimer, waitingExecutions, found, softDeletion>>
    /\ untimely' = IF Emitted(m) # "none" /\ phase[m] \in {"loading", "leaving", "clearing"}
                   THEN untimely \cup {m} ELSE untimely
    /\ UNCHANGED resumed

-----------------------------------------------------------------------------
(* Start and end of a process *)

\* A slip: the tracker waits for the event.
InitWithoutTracking(m) ==
    StartUp(m, "starting", "loading") /\ UNCHANGED services

\* WaitTracker.init, after the election and the licence.
InitTracking(m) ==
    /\ StartUp(m, "starting", "loading")
    /\ IF isLeader(m) THEN StartTracking(m) ELSE UNCHANGED <<mainTimer, found, waitingExecutions>>
    /\ UNCHANGED <<resumed, softDeletion, untimely>>

\* The modules are loaded, and registerEventHandlers is called.
RegisterEventHandlers(m) == StartUp(m, "loading", "serving") /\ UNCHANGED services

\* A slip: pruning waits for the event.
InitWithoutPruning(m) == StartUp(m, "serving", "up") /\ UNCHANGED services

\* ExecutionsPruningService.init, when the server has started.
InitPruning(m) ==
    /\ StartUp(m, "serving", "up")
    /\ IF isLeader(m) THEN StartPruning(m) ELSE UNCHANGED softDeletion
    /\ UNCHANGED <<mainTimer, waitingExecutions, found, resumed, untimely>>

\* The shutdown handler of pruning.
StopServices(m) ==
    /\ BeginStop(m) /\ StopPruning(m)
    /\ UNCHANGED <<mainTimer, waitingExecutions, found, resumed, untimely>>

\* A slip: the wait tracker goes on until the process ends.
LeaveStillTracking(m) == LeaveTracking(m) /\ UNCHANGED services

\* stopProcess: the wait tracker stops before the main gives up the key.
StopTrackingFirst(m) ==
    /\ LeaveTracking(m) /\ StopTracking(m)
    /\ UNCHANGED <<resumed, softDeletion, untimely>>

\* What a process knows ends with it.
Ends(m) ==
    /\ Exit(m) \/ Crash(m)
    /\ mainTimer' = [mainTimer EXCEPT ![m] = Off]
    /\ waitingExecutions' = [waitingExecutions EXCEPT ![m] = NoEntries]
    /\ found' = [found EXCEPT ![m] = {}]
    /\ softDeletion' = [softDeletion EXCEPT ![m] = Off]
    /\ untimely' = untimely \ {m}
    /\ UNCHANGED resumed

-----------------------------------------------------------------------------
(* The services at work *)

\* The interval of the wait tracker: a query is sent.
PollWaiting(m) ==
    /\ Runs(mainTimer[m])
    /\ found' = [found EXCEPT ![m] = @ \cup (Rows \ resumed)]
    /\ UNCHANGED <<election, mainTimer, waitingExecutions, resumed, softDeletion, untimely>>

\* Its result is here: what has no entry gets one, with a timer.
GetWaitingExecutions(m) ==
    /\ found[m] # {}
    /\ waitingExecutions' = [waitingExecutions EXCEPT ![m] =
           [r \in Rows |-> IF r \in found[m] /\ @[r] = "none" THEN "timed" ELSE @[r]]]
    /\ found' = [found EXCEPT ![m] = {}]
    /\ UNCHANGED <<election, mainTimer, resumed, softDeletion, untimely>>

\* The timer of an entry: the entry is removed and the execution resumed.
StartExecution(m, r) ==
    /\ waitingExecutions[m][r] = "timed"
    /\ waitingExecutions' = [waitingExecutions EXCEPT ![m][r] = "none"]
    /\ resumed' = resumed \cup {r}
    /\ UNCHANGED <<election, mainTimer, found, softDeletion, untimely>>

-----------------------------------------------------------------------------
Election(m) ==
    \/ (Serve(m) \/ Join(m) \/ CheckLeader(m) \/ Shutdown(m) \/ Cleared(m)) /\ UNCHANGED services
    \/ Elect(m) \/ InitTracking(m) \/ RegisterEventHandlers(m)
    \/ InitPruning(m) \/ StopServices(m) \/ StopTrackingFirst(m) \/ Ends(m)

Work(m) ==
    \/ PollWaiting(m) \/ GetWaitingExecutions(m) 
    \/ \E r \in Rows : StartExecution(m, r)

Next ==
    \/ (Expire \/ Lapse) /\ UNCHANGED services
    \/ \E m \in Mains : Election(m) \/ Work(m)

Spec == Init /\ [][Next]_vars

\* Redis answers, processes get round to their answers, timers and the steps of their
\* start and end, and a key that nobody extends runs out.  Nothing makes a process
\* start or stop.
Fairness ==
    /\ WF_vars(Expire /\ UNCHANGED services)
    /\ \A m \in Mains :
          /\ WF_vars(Serve(m) /\ UNCHANGED services)
          /\ WF_vars(CheckLeader(m) /\ UNCHANGED services)
          /\ WF_vars(Elect(m))
          /\ WF_vars(InitTracking(m) \/ RegisterEventHandlers(m) \/ InitPruning(m))
          /\ WF_vars(StopTrackingFirst(m))
          /\ WF_vars((Shutdown(m) \/ Cleared(m)) /\ UNCHANGED services)
          /\ WF_vars(Ends(m) /\ Exit(m))
          /\ WF_vars(PollWaiting(m)) /\ WF_vars(GetWaitingExecutions(m))
          /\ \A r \in Rows : WF_vars(StartExecution(m, r))

FairSpec == Spec /\ Fairness

-----------------------------------------------------------------------------
(* Properties *)

Timer == [set : BOOLEAN, stray : Nat]

\* Type invariant of the services.
ServicesTypeOK ==
    /\ ElectionTypeOK
    /\ mainTimer \in [Mains -> Timer] /\ softDeletion \in [Mains -> Timer]
    /\ waitingExecutions \in [Mains -> [Rows -> {"none", "timed", "kept"}]]
    /\ found \in [Mains -> SUBSET Rows] /\ resumed \subseteq Rows
    /\ untimely \subseteq Mains

\* Two mains look for waiting executions at a time only after a lapse, or if one
\* changed its role before its services listened or after they had been stopped: a
\* main that shuts down stops its wait tracker before it gives the key away.
AloneAtWork ==
    lapses = 0 => \A m, n \in Mains \ untimely :
        Runs(mainTimer[m]) /\ Runs(mainTimer[n]) => m = n

\* A leader does the leader's work, however it came to lead: at its start, by an event
\* between the set-up of two services, or after it had stepped down.  The exception is
\* a role that changed before the handlers were registered.
LeaderAtWork ==
    \A m \in Mains \ untimely : phase[m] = "up" /\ instanceRole[m] = "leader" =>
        Runs(mainTimer[m]) /\ Runs(softDeletion[m])

\* Executions that are due are resumed in the end, through changes of the leader,
\* unless a main holds the key as a follower (see HolderLeads) or the leader has an
\* entry for one that stopTracking has left without a timer.
WaitersAreResumedUnlessKept ==
    <>[](\/ Running = {} \/ resumed = Rows
         \/ \E m \in Running : HoldsAsFollower(m)
         \/ \E m \in Running : /\ instanceRole[m] = "leader"
                               /\ \/ m \in untimely
                                  \/ \E r \in Rows \ resumed : waitingExecutions[m][r] = "kept")
=============================================================================
