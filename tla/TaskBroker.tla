----------------------------- MODULE TaskBroker -----------------------------
(***************************************************************************)
(* How code reaches a task runner: the requester in the main process asks  *)
(* the broker for a task, runners offer the broker their free slots, the    *)
(* broker matches the two, waits for the runner to accept, and hands the    *)
(* requester's settings and the runner's result over.                      *)
(*                                                                         *)
(* The requester is called and calls synchronously (LocalTaskRequester), so *)
(* that what it does is part of the broker's step, as are the continuations *)
(* of promises that settle in a step.  A runner is another process behind a *)
(* WebSocket: messages of one task arrive in order, a lost connection loses *)
(* them.  A task has the identity of the offer it came from: an offer is    *)
(* accepted once, and its identity is used again when nothing refers to it. *)
(***************************************************************************)
EXTENDS Naturals, FiniteSets, Sequences

CONSTANTS
    Requests,          \* calls of TaskRequester.startTask
    NoRequest,
    Runners,           \* connections of runners
    Launchers,         \* those of them that are launchers: they start a runner on demand
    MaxConcurrency,    \* the slots of a runner
    MaxOffers,         \* bound on the offers of a runner that are known at a time
    MaxLate,           \* bound on timers that run out before a message in flight arrives
    MaxLost,           \* bound on lost connections
    MaxDeferrals       \* bound on the offers of launchers

ASSUME BrokerAssumption ==
    /\ NoRequest \notin Requests
    /\ Launchers \subseteq Runners
    /\ IsFiniteSet(Runners)
    /\ MaxConcurrency \in Nat \ {0} /\ MaxOffers \in Nat \ {0}

Offers == Runners \X (1..MaxOffers)
RunnerOf(o) == o[1]
OffersOf(w) == {o \in Offers : RunnerOf(o) = w}

VARIABLES
    \* the broker
    knownRunners, pendingTaskOffers, pendingTaskRequests,
    acceptInProgress,     \* the requests flagged so
    runnerAccepts,        \* runnerAccepts[o]: the request whose acceptance by the runner is awaited
    tasks,                \* tasks[o]: the request of a task the broker knows
    \* the requester
    caller,               \* caller[q]: how far the call is
    taskAccepts,          \* taskAccepts[o]: the call that awaits the result of task o
    \* the runners
    connected, openOffers, runningTasks,
    \* the connections, per task
    toBroker, toRunner,
    late, lost, deferrals

broker == <<knownRunners, pendingTaskOffers, pendingTaskRequests, acceptInProgress,
            runnerAccepts, tasks>>
requester == <<caller, taskAccepts>>
runner == <<connected, openOffers, runningTasks>>
vars == <<knownRunners, pendingTaskOffers, pendingTaskRequests, acceptInProgress,
          runnerAccepts, tasks, caller, taskAccepts, connected, openOffers, runningTasks,
          toBroker, toRunner, late, lost, deferrals>>

Nobody == [o \in Offers |-> NoRequest]
Silence == [o \in Offers |-> << >>]

Init ==
    /\ knownRunners = {} /\ pendingTaskOffers = {} /\ pendingTaskRequests = << >>
    /\ acceptInProgress = {} /\ runnerAccepts = Nobody /\ tasks = Nobody
    /\ caller = [q \in Requests |-> "idle"] /\ taskAccepts = Nobody
    /\ connected = {} /\ openOffers = {}
    /\ runningTasks = [o \in Offers |-> "none"]
    /\ toBroker = Silence /\ toRunner = Silence
    /\ late = 0 /\ lost = 0 /\ deferrals = 0

\* A message to a runner whose connection is gone goes nowhere.
Send(channel, o, m) ==
    IF RunnerOf(o) \in connected THEN [channel EXCEPT ![o] = Append(@, m)] ELSE channel

Receives(channel, o, m) == channel[o] # << >> /\ Head(channel[o]) = m

-----------------------------------------------------------------------------
(* The broker: matching offers and requests *)

Pending(reqs) == {reqs[i] : i \in 1..Len(reqs)}

\* Where a request is found: its first place, for a deferred one is queued twice.
IsFirst(reqs, q, i) == reqs[i] = q /\ \A j \in 1..(i - 1) : reqs[j] # q
First(reqs, q) == CHOOSE i \in 1..Len(reqs) : IsFirst(reqs, q, i)

Without(reqs, i) ==
    [j \in 1..(Len(reqs) - 1) |-> IF j < i THEN reqs[j] ELSE reqs[j + 1]]

\* A slip: requests that are being accepted are matched again.
AnyPending(reqs) == Pending(reqs)

Idle(reqs) == Pending(reqs) \ acceptInProgress

\* settleTasks gives idle requests, in their order, an offer each until one of the
\* two runs out.  There is one type of task, and any offer will do.
Matchings(reqs, offers) ==
    LET idle == Idle(reqs)
    IN  {m \in UNION {[M -> offers] : M \in SUBSET idle} :
            /\ \A p, q \in DOMAIN m : m[p] = m[q] => p = q
            /\ \A q \in DOMAIN m, p \in idle :
                  First(reqs, p) < First(reqs, q) => p \in DOMAIN m
            /\ \/ DOMAIN m = idle
               \/ \A o \in offers : \E q \in DOMAIN m : m[q] = o}

\* Offers a runner has forgotten.  The broker's own clock drops them first, unless the
\* latency of the connection eats up what the runner has added for it.
Forgotten(offers) ==
    {o \in offers : RunnerOf(o) \in connected \ Launchers /\ o \notin openOffers}

\* settleTasks, with expireTasks before it and the beginning of acceptOffer for each
\* match: the offer is taken, the request flagged and the runner told.
Settle(reqs, arrived) ==
    \E expired \in SUBSET {o \in pendingTaskOffers : RunnerOf(o) \notin Launchers} :
        LET valid == (pendingTaskOffers \ expired) \cup arrived
        IN  \E m \in Matchings(reqs, valid) :
                LET taken == {m[q] : q \in DOMAIN m}
                IN  /\ pendingTaskRequests' = reqs
                    /\ pendingTaskOffers' = valid \ taken
                    /\ acceptInProgress' = acceptInProgress \cup DOMAIN m
                    /\ runnerAccepts' = [o \in Offers |->
                          IF o \in taken THEN CHOOSE q \in DOMAIN m : m[q] = o
                          ELSE runnerAccepts[o]]
                    /\ toRunner' = [o \in Offers |->
                          IF o \in taken /\ RunnerOf(o) \in connected
                          THEN Append(toRunner[o], "accept") ELSE toRunner[o]]
                    /\ Forgotten(valid \ arrived) \subseteq taken
                    /\ late' = late + Cardinality(Forgotten(taken \ arrived))
                    /\ late' <= MaxLate

\* TaskRequester.startTask: the call is recorded and the broker asked.
StartTask(q) ==
    /\ caller[q] = "idle"
    /\ caller' = [caller EXCEPT ![q] = "asked"]
    /\ Settle(Append(pendingTaskRequests, q), {})
    /\ UNCHANGED <<knownRunners, tasks, taskAccepts, runner, toBroker, lost, deferrals>>

\* runner:taskoffer
TaskOffered(o) ==
    /\ Receives(toBroker, o, "offer")
    /\ toBroker' = [toBroker EXCEPT ![o] = Tail(@)]
    /\ Settle(pendingTaskRequests, {o})
    /\ UNCHANGED <<knownRunners, tasks, requester, runner, lost, deferrals>>

-----------------------------------------------------------------------------
(* The broker: the runner's answer to an accepted offer.  onRunnerMessage ignores a
   runner the broker does not know; one that is connected is known. *)

\* runner:taskaccepted.  If it is still awaited, the task is recorded and the request
\* leaves the queue; the requester is told and sends its settings, which are passed
\* on, or cancels the task if it does not know the request.
HandleRunnerAccept(o) ==
    LET q     == runnerAccepts[o]
        found == q \in Pending(pendingTaskRequests)
        ready == found /\ caller[q] = "asked"
    IN  /\ Receives(toBroker, o, "accepted")
        /\ toBroker' = [toBroker EXCEPT ![o] = Tail(@)]
        /\ runnerAccepts' = [runnerAccepts EXCEPT ![o] = NoRequest]
        /\ \/ /\ q = NoRequest
              /\ UNCHANGED <<tasks, pendingTaskRequests, requester, toRunner>>
           \/ /\ q # NoRequest
              /\ tasks' = IF found /\ ~ready THEN tasks ELSE [tasks EXCEPT ![o] = q]
              /\ IF found
                 THEN \E i \in 1..Len(pendingTaskRequests) :
                         /\ IsFirst(pendingTaskRequests, q, i)
                         /\ pendingTaskRequests' = Without(pendingTaskRequests, i)
                 ELSE UNCHANGED pendingTaskRequests
              /\ caller' = IF ready THEN [caller EXCEPT ![q] = "started"] ELSE caller
              /\ taskAccepts' = IF ready THEN [taskAccepts EXCEPT ![o] = q] ELSE taskAccepts
              /\ toRunner' = IF found THEN Send(toRunner, o, IF ready THEN "settings" ELSE "cancel")
                             ELSE toRunner
        /\ UNCHANGED <<knownRunners, pendingTaskOffers, acceptInProgress, runner,
                       late, lost, deferrals>>

\* Slips: the answer of the runner is still awaited after the broker has given up on
\* it; the flag of the request is not reset.
AcceptStaysOpen(o) ==
    /\ runnerAccepts[o] # NoRequest
    /\ IF RunnerOf(o) \in connected THEN late < MaxLate /\ late' = late + 1 ELSE late' = late
    /\ acceptInProgress' = acceptInProgress \ {runnerAccepts[o]}
    /\ UNCHANGED <<knownRunners, pendingTaskOffers, pendingTaskRequests, runnerAccepts,
                   tasks, requester, runner, toBroker, toRunner, lost, deferrals>>

AcceptKeepsFlag(o) ==
    /\ runnerAccepts[o] # NoRequest
    /\ IF RunnerOf(o) \in connected THEN late < MaxLate /\ late' = late + 1 ELSE late' = late
    /\ runnerAccepts' = [runnerAccepts EXCEPT ![o] = NoRequest]
    /\ UNCHANGED <<knownRunners, pendingTaskOffers, pendingTaskRequests, acceptInProgress,
                   tasks, requester, runner, toBroker, toRunner, lost, deferrals>>

\* runner:taskrejected: the request is idle again and stays where it is in the queue.
HandleRunnerReject(o) ==
    /\ Receives(toBroker, o, "rejected")
    /\ toBroker' = [toBroker EXCEPT ![o] = Tail(@)]
    /\ acceptInProgress' = acceptInProgress \ {runnerAccepts[o]}
    /\ runnerAccepts' = [runnerAccepts EXCEPT ![o] = NoRequest]
    /\ UNCHANGED <<knownRunners, pendingTaskOffers, pendingTaskRequests, tasks,
                   requester, runner, toRunner, late, lost, deferrals>>

\* runner:taskdeferred: the request, which is still in the queue, is queued once more.
HandleRunnerDeferred(o) ==
    LET q == runnerAccepts[o]
    IN  /\ Receives(toBroker, o, "deferred")
        /\ toBroker' = [toBroker EXCEPT ![o] = Tail(@)]
        /\ acceptInProgress' = acceptInProgress \ {q}
        /\ runnerAccepts' = [runnerAccepts EXCEPT ![o] = NoRequest]
        /\ pendingTaskRequests' = IF q = NoRequest THEN pendingTaskRequests
                                  ELSE Append(pendingTaskRequests, q)
        /\ UNCHANGED <<knownRunners, pendingTaskOffers, tasks, requester, runner,
                       toRunner, late, lost, deferrals>>

\* The two seconds the runner has to accept are over.
AcceptTimesOut(o) ==
    /\ runnerAccepts[o] # NoRequest
    /\ IF RunnerOf(o) \in connected THEN late < MaxLate /\ late' = late + 1 ELSE late' = late
    /\ acceptInProgress' = acceptInProgress \ {runnerAccepts[o]}
    /\ runnerAccepts' = [runnerAccepts EXCEPT ![o] = NoRequest]
    /\ UNCHANGED <<knownRunners, pendingTaskOffers, pendingTaskRequests, tasks,
                   requester, runner, toBroker, toRunner, lost, deferrals>>

-----------------------------------------------------------------------------
(* The broker: the end of a task *)

\* The requester is given the results of these tasks, which are then forgotten.
Answer(ended, result) ==
    LET calls == {taskAccepts[o] : o \in ended} \ {NoRequest}
    IN  /\ caller' = [q \in Requests |-> IF q \in calls THEN result ELSE caller[q]]
        /\ taskAccepts' = [o \in Offers |-> IF o \in ended THEN NoRequest ELSE taskAccepts[o]]
        /\ tasks' = [o \in Offers |-> IF o \in ended THEN NoRequest ELSE tasks[o]]

Known(o) == {t \in {o} : tasks[t] # NoRequest}

\* runner:taskdone, runner:taskerror
TaskEnds(o, result) ==
    /\ Receives(toBroker, o, result)
    /\ toBroker' = [toBroker EXCEPT ![o] = Tail(@)]
    /\ Answer(Known(o), result)
    /\ UNCHANGED <<knownRunners, pendingTaskOffers, pendingTaskRequests, acceptInProgress,
                   runnerAccepts, runner, toRunner, late, lost, deferrals>>

\* The broker's own timeout: an external runner is told to cancel the task (an internal
\* one is killed), the requester gets an error.
HandleTaskTimeout(o) ==
    /\ tasks[o] # NoRequest
    /\ late < MaxLate /\ late' = late + 1
    /\ toRunner' = Send(toRunner, o, "cancel")
    /\ Answer({o}, "error")
    /\ UNCHANGED <<knownRunners, pendingTaskOffers, pendingTaskRequests, acceptInProgress,
                   runnerAccepts, runner, toBroker, lost, deferrals>>

\* A runner has introduced itself.  A connection is never made twice: its identity is
\* used again when the broker has given up on the last one's answers.
RegisterRunner(w) ==
    /\ w \notin connected \cup knownRunners
    /\ \A o \in OffersOf(w) : runnerAccepts[o] = NoRequest
    /\ connected' = connected \cup {w}
    /\ knownRunners' = knownRunners \cup {w}
    /\ UNCHANGED <<pendingTaskOffers, pendingTaskRequests, acceptInProgress, runnerAccepts,
                   tasks, requester, openOffers, runningTasks, toBroker, toRunner,
                   late, lost, deferrals>>

\* A slip: the tasks of the runner are not failed.
DeregisterKeepsTasks(w) ==
    /\ w \in knownRunners \ connected
    /\ knownRunners' = knownRunners \ {w}
    /\ pendingTaskOffers' = pendingTaskOffers \ OffersOf(w)
    /\ UNCHANGED <<pendingTaskRequests, acceptInProgress, runnerAccepts, tasks, requester,
                   runner, toBroker, toRunner, late, lost, deferrals>>

\* The broker learns of a lost connection: offers are dropped, tasks failed.  The
\* answers still awaited from the runner are left to their timeout.
DeregisterRunner(w) ==
    /\ w \in knownRunners \ connected
    /\ knownRunners' = knownRunners \ {w}
    /\ pendingTaskOffers' = pendingTaskOffers \ OffersOf(w)
    /\ Answer({o \in OffersOf(w) : tasks[o] # NoRequest}, "error")
    /\ UNCHANGED <<pendingTaskRequests, acceptInProgress, runnerAccepts, runner,
                   toBroker, toRunner, late, lost, deferrals>>

-----------------------------------------------------------------------------
(* The runner *)

\* Nothing refers to the offer or its task.
Fresh(o) ==
    /\ o \notin openOffers \cup pendingTaskOffers
    /\ runnerAccepts[o] = NoRequest /\ tasks[o] = NoRequest /\ runningTasks[o] = "none"
    /\ toBroker[o] = << >> /\ toRunner[o] = << >>

\* Which fresh identities are used makes no difference: the lowest.
Lowest(new, fresh) == \A o \in new, p \in fresh \ new : o[2] < p[2]

Running(w, status) == {o \in OffersOf(w) : status[o] # "none"}

\* sendOffers, once the runner's tasks are as in status and its messages as in out:
\* stale offers are deleted, each slot that is free and not on offer is offered.
SendOffers(w, status, out) ==
    \E stale \in SUBSET (openOffers \cap OffersOf(w)) :
        LET fresh == {o \in OffersOf(w) : Fresh(o)}
            left  == openOffers \ stale
            slots == MaxConcurrency - Cardinality(left \cap OffersOf(w))
                                    - Cardinality(Running(w, status))
            early == {o \in stale : \/ toBroker[o] # << >> \/ toRunner[o] # << >>}
        IN  \E new \in SUBSET fresh :
                /\ Lowest(new, fresh)
                /\ Cardinality(new) = slots \/ (new = fresh /\ Cardinality(new) < slots)
                /\ openOffers' = left \cup new
                /\ runningTasks' = status
                /\ toBroker' = [o \in Offers |->
                      IF o \in new THEN Append(out[o], "offer") ELSE out[o]]
                /\ late' = late + Cardinality(early)
                /\ late' <= MaxLate

FinishTask(o, out) == SendOffers(RunnerOf(o), [runningTasks EXCEPT ![o] = "none"], out)

\* Every 250 ms.
OfferInterval(w) ==
    /\ w \in connected \ Launchers
    /\ SendOffers(w, runningTasks, toBroker)
    /\ UNCHANGED <<broker, requester, connected, toRunner, lost, deferrals>>

\* A slip: the accepted offer stays among the open ones.
OfferStaysOpen(o) ==
    /\ Receives(toRunner, o, "accept") /\ RunnerOf(o) \notin Launchers
    /\ toRunner' = [toRunner EXCEPT ![o] = Tail(@)]
    /\ \/ /\ o \notin openOffers
          /\ toBroker' = Send(toBroker, o, "rejected")
          /\ UNCHANGED runningTasks
       \/ /\ o \in openOffers
          /\ runningTasks' = [runningTasks EXCEPT ![o] = "waitingForSettings"]
          /\ toBroker' = Send(toBroker, o, "accepted")
    /\ UNCHANGED <<broker, requester, connected, openOffers, late, lost, deferrals>>

\* broker:taskofferaccept
OfferAccepted(o) ==
    /\ Receives(toRunner, o, "accept") /\ RunnerOf(o) \notin Launchers
    /\ toRunner' = [toRunner EXCEPT ![o] = Tail(@)]
    /\ openOffers' = openOffers \ {o}
    /\ \/ /\ \/ o \notin openOffers
             \/ Cardinality(Running(RunnerOf(o), runningTasks)) >= MaxConcurrency
          /\ toBroker' = Send(toBroker, o, "rejected")
          /\ UNCHANGED runningTasks
       \/ /\ o \in openOffers
          /\ Cardinality(Running(RunnerOf(o), runningTasks)) < MaxConcurrency
          /\ runningTasks' = [runningTasks EXCEPT ![o] = "waitingForSettings"]
          /\ toBroker' = Send(toBroker, o, "accepted")
    /\ UNCHANGED <<broker, requester, connected, late, lost, deferrals>>

\* broker:tasksettings: the task is run.  For a task that is not waiting for them an
\* assertion fails.
ReceivedSettings(o) ==
    /\ Receives(toRunner, o, "settings")
    /\ toRunner' = [toRunner EXCEPT ![o] = Tail(@)]
    /\ runningTasks' = [runningTasks EXCEPT ![o] = IF @ = "waitingForSettings" THEN "running" ELSE @]
    /\ UNCHANGED <<broker, requester, connected, openOffers, toBroker, late, lost, deferrals>>

\* A slip: a task that times out before it has its settings is aborted like a running one.
TimeOutAborts(o) ==
    /\ runningTasks[o] \in {"waitingForSettings", "running"}
    /\ runningTasks' = [runningTasks EXCEPT ![o] = "aborting:timeout"]
    /\ UNCHANGED <<broker, requester, connected, openOffers, toBroker, toRunner,
                   late, lost, deferrals>>

\* broker:taskcancel: a task without settings is over, a running one is aborted.
TaskCancelled(o) ==
    /\ Receives(toRunner, o, "cancel")
    /\ toRunner' = [toRunner EXCEPT ![o] = Tail(@)]
    /\ \/ /\ runningTasks[o] = "waitingForSettings"
          /\ FinishTask(o, toBroker)
       \/ /\ runningTasks[o] # "waitingForSettings"
          /\ runningTasks' = [runningTasks EXCEPT ![o] =
                                IF @ = "running" THEN "aborting:cancelled" ELSE @]
          /\ UNCHANGED <<openOffers, toBroker, late>>
    /\ UNCHANGED <<broker, requester, connected, lost, deferrals>>

\* The runner's own timeout.
TaskTimedOut(o) ==
    /\ \/ /\ runningTasks[o] = "waitingForSettings"
          /\ FinishTask(o, Send(toBroker, o, "error"))
       \/ /\ runningTasks[o] = "running"
          /\ runningTasks' = [runningTasks EXCEPT ![o] = "aborting:timeout"]
          /\ UNCHANGED <<openOffers, toBroker, late>>
    /\ UNCHANGED <<broker, requester, connected, toRunner, lost, deferrals>>

\* The execution of the task resolves or rejects.
ExecutionEnds(o, result) ==
    /\ \/ /\ runningTasks[o] \in {"running", "aborting:timeout"}
          /\ FinishTask(o, Send(toBroker, o, result))
       \/ /\ runningTasks[o] = "aborting:cancelled"
          /\ FinishTask(o, toBroker)
    /\ UNCHANGED <<broker, requester, connected, toRunner, lost, deferrals>>

\* The connection is lost, or the runner's process ends.
ConnectionLost(w) ==
    /\ w \in connected /\ lost < MaxLost
    /\ lost' = lost + 1
    /\ connected' = connected \ {w}
    /\ openOffers' = openOffers \ OffersOf(w)
    /\ runningTasks' = [o \in Offers |-> IF RunnerOf(o) = w THEN "none" ELSE runningTasks[o]]
    /\ toBroker' = [o \in Offers |-> IF RunnerOf(o) = w THEN << >> ELSE toBroker[o]]
    /\ toRunner' = [o \in Offers |-> IF RunnerOf(o) = w THEN << >> ELSE toRunner[o]]
    /\ UNCHANGED <<broker, requester, late, deferrals>>

\* External: a launcher offers to start a runner, with no limit of time ...
LauncherOffers(w, o) ==
    /\ w \in connected \cap Launchers /\ o \in OffersOf(w)
    /\ Fresh(o) /\ Lowest({o}, {p \in OffersOf(w) : Fresh(p)})
    /\ deferrals < MaxDeferrals
    /\ deferrals' = deferrals + 1
    /\ toBroker' = Send(toBroker, o, "offer")
    /\ UNCHANGED <<broker, requester, runner, toRunner, late, lost>>

\* ... and defers the task it is offered to the runner it starts.
LauncherDefers(o) ==
    /\ RunnerOf(o) \in Launchers /\ Receives(toRunner, o, "accept")
    /\ toRunner' = [toRunner EXCEPT ![o] = Tail(@)]
    /\ toBroker' = Send(toBroker, o, "deferred")
    /\ UNCHANGED <<broker, requester, runner, late, lost, deferrals>>

-----------------------------------------------------------------------------
Handle(o) ==
    \/ TaskOffered(o) \/ HandleRunnerAccept(o) \/ HandleRunnerReject(o)
    \/ HandleRunnerDeferred(o) \/ TaskEnds(o, "done") \/ TaskEnds(o, "error")

RunnerHandle(o) ==
    OfferAccepted(o) \/ ReceivedSettings(o) \/ TaskCancelled(o) \/ LauncherDefers(o)

Next ==
    \/ \E q \in Requests : StartTask(q)
    \/ \E o \in Offers :
          \/ Handle(o) \/ AcceptTimesOut(o) \/ HandleTaskTimeout(o)
          \/ RunnerHandle(o) \/ TaskTimedOut(o)
          \/ ExecutionEnds(o, "done") \/ ExecutionEnds(o, "error")
    \/ \E w \in Runners :
          \/ RegisterRunner(w) \/ DeregisterRunner(w) \/ OfferInterval(w) \/ ConnectionLost(w)
          \/ \E o \in Offers : LauncherOffers(w, o)

Spec == Init /\ [][Next]_vars

\* Both processes get round to their messages and timers; tasks end; a runner that is
\* gone is noticed by the broker and started again.
Fairness ==
    /\ \A o \in Offers :
          /\ WF_vars(Handle(o)) /\ WF_vars(RunnerHandle(o)) /\ WF_vars(AcceptTimesOut(o))
          /\ WF_vars(TaskTimedOut(o))
          /\ WF_vars(ExecutionEnds(o, "done") \/ ExecutionEnds(o, "error"))
    /\ \A w \in Runners :
          WF_vars(RegisterRunner(w)) /\ WF_vars(DeregisterRunner(w)) /\ WF_vars(OfferInterval(w))

FairSpec == Spec /\ Fairness

-----------------------------------------------------------------------------
(* Properties *)

TaskStatuses == {"none", "waitingForSettings", "running", "aborting:cancelled", "aborting:timeout"}

\* Type invariant of the broker, the requester, the runners and their connections.
BrokerTypeOK ==
    /\ knownRunners \subseteq Runners /\ connected \subseteq knownRunners
    /\ pendingTaskOffers \subseteq Offers /\ openOffers \subseteq Offers
    /\ pendingTaskRequests \in Seq(Requests) /\ acceptInProgress \subseteq Requests
    /\ runnerAccepts \in [Offers -> Requests \cup {NoRequest}]
    /\ tasks \in [Offers -> Requests \cup {NoRequest}]
    /\ taskAccepts \in [Offers -> Requests \cup {NoRequest}]
    /\ caller \in [Requests -> {"idle", "asked", "started", "done", "error"}]
    /\ runningTasks \in [Offers -> TaskStatuses]
    /\ toBroker \in [Offers -> Seq({"offer", "accepted", "rejected", "deferred", "done", "error"})]
    /\ toRunner \in [Offers -> Seq({"accept", "settings", "cancel"})]
    /\ late \in Nat /\ lost \in Nat /\ deferrals \in Nat

\* "Failed to find task request after a task was accepted. This shouldn't happen":
\* a request whose acceptance is awaited is in the queue, through timeouts, late
\* answers, deferrals and lost connections.
AcceptFindsRequest ==
    \A o \in Offers : runnerAccepts[o] # NoRequest =>
        /\ runnerAccepts[o] \in Pending(pendingTaskRequests)
        /\ caller[runnerAccepts[o]] = "asked"

\* A request is given to one task at a time: no two runners are asked for it at once,
\* none is asked once it has become a task, and it becomes one task only.
OneTaskPerRequest ==
    \A o, p \in Offers :
        /\ runnerAccepts[o] = runnerAccepts[p] /\ runnerAccepts[o] # NoRequest => o = p
        /\ tasks[o] = tasks[p] /\ tasks[o] # NoRequest => o = p
        /\ runnerAccepts[o] = tasks[p] => tasks[p] = NoRequest

\* No call hangs: one that asks is in the queue, and if it is flagged as being accepted
\* a timer is running for it; one that has a task awaits a task the broker knows.
NobodyForgotten ==
    \A q \in Requests :
        /\ caller[q] = "asked" =>
              /\ q \in Pending(pendingTaskRequests)
              /\ q \in acceptInProgress => \E o \in Offers : runnerAccepts[o] = q
        /\ caller[q] = "started" => \E o \in Offers : tasks[o] = q /\ taskAccepts[o] = q

\* The runner never promises more slots than it has, whatever has become of the
\* offers and tasks the broker has given up.
WithinCapacity ==
    \A w \in Runners \ Launchers :
        Cardinality(openOffers \cap OffersOf(w)) + Cardinality(Running(w, runningTasks))
            <= MaxConcurrency

\* "These states should never happen": settings only reach a task that waits for them
\* or is over.
SettingsExpected ==
    \A o \in Offers : Receives(toRunner, o, "settings") =>
        runningTasks[o] \in {"none", "waitingForSettings"}

\* Every call is answered, with a result or an error.
RequestAnswered ==
    \A q \in Requests : (caller[q] = "asked") ~> (caller[q] \in {"done", "error"})

=============================================================================
