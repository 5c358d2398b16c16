# The execution back end of n8n, specified and checked

n8n runs workflows. A *main* process keeps workflows active, serves their
webhooks and the editor, creates an *execution* for every event that starts a
workflow, and runs it in its own event loop (regular mode) or puts it into a
Redis queue for worker processes (queue mode). Code nodes may run in a further
process, a *task runner*, which a *task broker* inside the main process feeds
over WebSockets.

The protocols of that back end are what this project specifies: who may run,
when a place is given back, what a row in the database may say while callbacks,
timers and requests race, what a restart makes of what it finds, and who is
answered when messages and timers cross, which of several mains leads and what it does
because it leads, who hears of a job in the queue, in which order the engine
runs the nodes of a workflow, and what of an old result a user who executes one
node gets again. The specifications are translated from the source
and model-checked with TLC on small instances; the limiter, the life of executions,
the broker, the election with what depends on it, queue mode, the insights buffer and the engine
are proved correct with TLAPS for every value of their constants.

Paths below are relative to `src/packages/`; `PROJECT.json` maps every
definition that models code to the lines it stands for.

## Contents

1. [The system](#1-the-system): components, state, operations, hazards
2. [The modules, and what comes next](#2-the-modules-and-what-comes-next)
3. [ConcurrencyControl](#3-concurrencycontrol-and-concurrencygate)
4. [ExecutionLifecycle](#4-executionlifecycle)
5. [TaskBroker](#5-taskbroker)
6. [MultiMainSetup and LeaderServices](#6-multimainsetup-and-leaderservices)
7. [ScalingQueue](#7-scalingqueue)
8. [InsightsCollection](#8-insightscollection)
9. [WorkflowEngine and PartialExecution](#9-workflowengine-and-partialexecution)
10. [What is proved](#10-what-is-proved)
11. [Where code and documentation disagree](#11-where-code-and-documentation-disagree)
12. [Observed behaviours](#12-observed-behaviours)
13. [Not modelled](#13-not-modelled)
14. [Running the checks](#14-running-the-checks)

## 1. The system

### 1.1 Components in the model

**Concurrency control** (`cli/src/concurrency/`). State: `isEnabled`; per
type (production, evaluation) a `ConcurrencyQueue` with a counter `capacity`
and a list of `{ executionId, resolve }`. Operations: `throttle` (awaited by a
run before it registers), `release` (when the promise of a run settles),
`remove` (a user stops a queued execution), `removeAll`/`disable` (shutdown).
Hard: the counter is stepped by three callers that know nothing of each other,
and goes below zero to count those who wait; nothing but a later `release` wakes
a waiting run. Correct when every place is accounted for, nobody waits in front
of a free place, and runs go in in the order they came.

**Active executions** (`cli/src/active-executions.ts`). State: a map from
execution id to an entry (status, `postExecutePromise`, `responsePromise`, the
engine's cancellable promise). Operations: `add` (row, throttle, entry),
`attachWorkflowExecution`, `attachResponsePromise`, `stopExecution`,
`finalizeExecution`, `shutdown`. Hard: the place of a run is released by
whatever settles the promise of the entry found *under its id* at that time,
which a later run of the same execution may have replaced.

**Workflow runner** (`cli/src/workflow-runner.ts`). One call of `run` per start
of an execution: `add`, credentials check, response promise, engine, timeout,
`finalizeExecution`. Hard: an await between any two of these, at each of which
a stop, a timeout, a second run or a shutdown may come in.

**Wait tracker and waiting webhooks** (`cli/src/wait-tracker.ts`,
`cli/src/webhooks/waiting-webhooks.ts`). State: a timer per execution that will
be due within the next minutes. Operations: poll of the database, timer, start
of the execution, stop. Hard: the row is read, then awaited upon, then used;
the webhook of an execution may resume it while its timer is set.

**Execution service** (`cli/src/executions/execution.service.ts`): `stop`, which
chooses between the queue, the entry and the timer, then writes the row.

**Execution lifecycle hooks** (`cli/src/execution-lifecycle/`): the writes of the
row at the start and end of an engine, each of which races the others.

**Startup, shutdown, recovery** (`cli/src/commands/start.ts`,
`cli/src/eventbus/message-event-bus/`, `cli/src/executions/execution-recovery.service.ts`).
State that survives: the rows and the event log. Hard: what a restart sees may
have been cut at any point, and what it sees as unfinished may be waiting,
canceled or new.

**Task broker** (`cli/src/task-runners/task-broker/`). State: known runners,
pending offers, pending requests with a flag `acceptInProgress`, accept/reject
callbacks per offer, tasks with their timeouts. Operations: register and
deregister a runner, offer, request, settle, accept, reject, defer, result,
timeouts. Hard: accepting is an asynchronous exchange with a timer of two
seconds, during which the request stays in the queue.

**Task requester** (`cli/src/task-runners/task-managers/`). State: the calls
that wait for acceptance and the calls that wait for a result.

**Task runner** (`@n8n/task-runner/src/task-runner.ts`). State: open offers with
a validity, running tasks with a status. Operations: offering free slots every
250 ms, accepting, settings, cancel, timeout, end. Hard: its clock and the
broker's decide separately which offers and tasks still exist.

**Task broker WebSocket server** (`cli/src/task-runners/task-broker/task-broker-ws-server.ts`):
connections, which lose what is in flight when they go.

**Multi-main setup** (`cli/src/scaling/multi-main-setup.ee.ts`). State: a key in
Redis with a time to live, the role each main takes itself to have. Operations:
`init`, `checkLeader` at an interval, `tryBecomeLeader`, `shutdown`. Hard: every
command is a message, and its answer may be old when it is acted upon; the key
may run out, be cleared or change hands in between.

**Leader services** (`WaitTracker`, `ExecutionsPruningService`). State: a timer
each, the entries of the tracker. They start and stop at startup, by the events
of the election and at shutdown. Hard: the role may change before, between or
after the set-up of the services.

**Scaling** (`cli/src/scaling/scaling.service.ts`, `job-processor.ts`,
`WorkflowRunner.enqueueExecution`). State: Bull's queue (external), a worker's
running jobs, the promise of the main that waits for a job, the recovery of the
leader. Hard: row and job are made one after the other and by different
processes; a stop races a job that starts; recovery compares two lists read at
different times.

**Insights** (`cli/src/modules/insights/`). State: a buffer of events, the
flushes in progress, a timer. Hard: flushes overlap, fail, and race the shutdown.

**Workflow engine** (`core/src/execution-engine/workflow-execute.ts`). State: the
stack, the nodes that wait for input, the data of all runs of nodes, `waitTill`.
Hard: which node runs next, with which of the data it has received, depends on
everything that ran before, and it is saved, resumed and retried half way.

**Partial execution** (`runPartialWorkflow2` in the same file and
`core/src/execution-engine/partial-execution-utils/`). A user executes one node
of a workflow that has been executed before. State: the run data of the earlier
execution, which the editor sends along. Operations: the subgraph that leads to
the node, the nodes to start from, cycles, cleaning of old data, a stack and
waiting entries put together from the rest. Hard: each step has its own notion
of what is reachable and what has run, and the engine that goes on from there
has a third.

### 1.2 How they interact

```
 webhook, trigger, editor              WaitTracker / waiting webhook     startup
        |                                       |                           |
        +------------------ WorkflowRunner.run -+---------------------------+
                                  |
                       ActiveExecutions.add --- throttle ---> ConcurrencyControl
                                  |  <---- resolve (later) -------'   ^
                       engine (PCancelable)                           | release, when the
                                  |                                   | entry's promise settles
        ExecutionService.stop --> stopExecution / finalizeExecution --'
                                  |
                        rows (database), event log  <---- recovery after a restart

   Code node -> TaskRequester <-- calls --> TaskBroker <-- WebSocket --> TaskRunner

   main: enqueueExecution --job--> Bull/Redis --> worker: processJob --> engine
        ^ row, promise                |  abort message (pub/sub)          |
        +---- end of the job ---------+---- row, progress <---------------+
   leader: queue recovery, wait tracker, pruning <-- events -- MultiMainSetup <--> Redis key
```

Within one process everything shares memory and the event loop: a handler runs
without interruption to its next `await`. Between the main process and a runner
there are messages, in order per connection and lost with it.


### 1.3 Hazards

`PROJECT.json` lists every component under `components`, and under `hazards` the
places in the code where something can go wrong that a test would hardly reach,
each with the properties that would notice. Where code does something that a
property must except, the hazard says so, and
[chapter 12](#12-observed-behaviours) describes it.

## 2. The modules, and what comes next

| module | composes | specification it implements | proofs |
|---|---|---|---|
| ConcurrencyControl | | ConcurrencyGate | ConcurrencyControlProofs |
| ExecutionLifecycle | extends ConcurrencyControl | | ExecutionLifecycleProofs |
| TaskBroker (broker, requester, runner, connections) | | | TaskBrokerProofs |
| MultiMainSetup | | | LeaderServicesProofs |
| LeaderServices | extends MultiMainSetup | | LeaderServicesProofs |
| ScalingQueue (main, user, queue, workers, recovery) | | | ScalingQueueProofs |
| InsightsCollection | | | InsightsProofs |
| WorkflowEngine | | | WorkflowEngineProofs |
| PartialExecution | extends WorkflowEngine | | PartialExecutionProofs |

The MC modules give the constants their values. What is left, in the order of
what it would add:

1. The engine's `BatchesKept`, `PairedInOrder` and `NoLateData` for the executions
   that `ExecuteNode` starts, by proof.
2. A run, and not only the theorems, of recovery with executions that wait; and the
   independent orders of a graph's nodes, links and names in PartialExecution.
3. ScalingQueue and LeaderServices as one specification, with a leader that
   changes while it recovers the queue.
4. The active workflow manager: activations, their retries and the leader.
5. The task runner process: restarts, and a connection that is replaced under
   the same id while `removeConnection` awaits the disconnect analyser
   (`task-broker-ws-server.ts:160`).

## 3. ConcurrencyControl and ConcurrencyGate

`ConcurrencyControl.tla` is the service and its queues; state and operations are
those of the code:

| model | code |
|---|---|
| `isEnabled`, `capacity[t]`, `queue[t]` | fields of the service and of `ConcurrencyQueue` |
| `holders[t]` | the runs whose `enqueue` promise has settled and whose `release` is to come; not a field, but what the counter stands for |
| `Enqueue`, `Dequeue`, `RemoveFrom`, `ResolveNext` | `enqueue`, `dequeue`, `remove`, `resolveNext` |
| `Throttle`, `Release`, `Remove`, `Has`, `Disable` | the methods of the service; `Unlimited` is their early return |
| `Limit`, `Queues`, `QueueOf` | the normalisation of limits in the constructor, the queues it makes, the switch on the mode |

A call is made by a *run*, not by an execution: an execution that is resumed
asks again under its own id, so an id may be in the queue twice and `remove`
takes the first. Modes that are never limited are one value, "none".

`ConcurrencyGate.tla` is what the limiter promises, without the counter: an
arrival waits if and only if as many are inside as there are places, who leaves
lets the longest-waiting in. It permits what `remove` does (`GiveUp` may let
another in); that this exceeds the limit is an observed behaviour, chapter 12.

The run `concurrency_control` asks `WorkConserving` and `ImplementsGate`, and
both hold for every order of calls. First come first served, and that no other
call than `remove` exceeds the limit, are part of the gate (`Leave`, `Join`,
`GiveUp`). `CapacityAccounting` is proved, and run where two resumptions of an
execution put it to the test (`lifecycle_waits`).

*Bounds.* Five runs of four executions: two share the production queue with
limit 1, one is in the evaluation queue with limit 2, one is never limited.
Five runs are enough for a queue of four behind one place, a removal at the
front, in the middle and at the end, and two entries of one execution in one
queue; the runs are symmetric. No counter is bounded: the number of runs bounds
them all.

## 4. ExecutionLifecycle

One module for active executions, runner, hooks, stop, wait tracker, webhooks,
shutdown and startup: what matters about them is how they interleave, and each
is small. It EXTENDS ConcurrencyControl; every throttle, release, remove and
disable in it is the limiter's own action.

### State

| model | code |
|---|---|
| `db[e]` | status, `waitTill` (set or not) and `finished` of the row |
| `run[r]` | one call of `WorkflowRunner.run`: its program counter, its entry in `activeExecutions` (status, promise settled, response promise, engine) and its engine (cancelled, its outcome, its hook still to write) |
| `active[e]` | which run's entry is under id `e` |
| `timers`, `polled` | `waitingExecutions`; rows of a query in flight |
| `stop[e]` | what a request to stop has still to write after its await |
| `phase`, `bootList`, `recovering`, `crashes` | the process: startup, serving, shutdown, down |
| `recoveryFile` | the flag file of a recovery that has begun; it survives a crash |
| `amended` | the execution that `recoverFromLogs` is at, how far it is, and the row it has read |
| `log[e]` | events since the last end: the start of the workflow, a node |

### Actions

A run goes through `Create` (row inserted as `new`), `ThrottleNew`, `Register`
(row `running`, entry put), `PassCredentials` or `DenyCredentials`,
`StartEngine`, `EngineEnds`/`EngineWaits`/`EngineStops`, `EngineSaves`,
`Finalize`; each is the code between two awaits. `RunExisting` is the same
start under an existing id, called by a timer (`TimerFires`), a webhook
(`WebhookResumes`) or startup (`BootRuns`). `StopEntry` is
`ActiveExecutions.stopExecution`, used by a user's stop (`StopRunning`) and the
timeout (`TimeOut`); `StopQueued` is the branch for a queued execution, and
`StopWrites` the write that follows either. `BeginShutdown`, `Shutdown`, `Exit`,
`ForceExit`, `Crash` take the process down, `Boot`, `RecoverRunning`,
`MarkAllCrashed` (after a recovery that did not end), `RecoveryDone`, `BootReads`,
`BootRuns` bring it up.

Recovery takes the executions one after the other, and each in up to four steps, since
everything it does is awaited and the process serves webhooks and timers meanwhile:
`Recover` decides by the log (leave it, mark the row as crashed, or read the row),
`AmendReads` reads a row that was marked, `AmendSaves` writes the row as it was read,
and `AmendHook` is `workflowExecuteAfter`, which determines the final status anew
(`determineFinalExecutionStatus`): an execution with a time to wait for is `waiting`
again, any other keeps what it was marked with.

### Abstractions

- Every execution is saved (the settings that drop successful or manual ones
  delete rows and add no step), and the database does not fail.
- Time: a timer may fire at any moment at which it is set, and a poll may find
  any row that waits. That a poll only looks seventy seconds ahead is thereby
  covered.
- The event log is kept since its last end of the workflow. Startup reads the
  log of the last two lives of the process (`logHistory` is 1), so leaving its
  rotation out is exact as long as there are no more than two restarts.
- A Wait node that ends the engine sets the status of the entry and ends the
  last node in one step.
- The identity of a run is used again when nothing refers to it (`Free`); that
  bounds memory, not the number of runs.

### Runs

| run | instance | asks | shows |
|---|---|---|---|
| `lifecycle_stops` | three executions and runs; `a` (its caller waits for a response) and `b` (has a timeout) share one place and may be stopped, `c` is not limited | `NoSlotLeak`, `EnqueuedNotForgotten`, `NoZombieRow` | hold at every point at which a stop or timeout may come (399,629 states) |
| `lifecycle_waits` | one execution that may wait and be stopped, two runs of it at a time | `CapacityAccounting`, `WaitingIsResumed`, `SuccessIsFinal` | double resumption releases no place twice; no waiting execution is lost; a success stays one unless another run of the execution was under way (344,935 states) |
| `lifecycle_restarts` | two executions that share one place, two runs, up to two crashes or shutdowns | `ConcurrencyRespected`, `NoZombieRow`, `EnqueuedIsStarted` | limit and rows survive a restart, and a restart between any two steps of recovery (305,299 states) |
| `lifecycle_shutdown_queue` | two executions whose callers wait for a response, one place | `QueuedRespondersRemoved` | violated: finding 1 |

Three of the properties name their exceptions, all of them behaviour of the code
(chapter 12), and the runs are chosen so that none of these weakens what they ask:
`NoZombieRow` excepts a response attached after another run has taken the entry
away, for which a second run must be possible, and in the runs that ask it nobody
both answers a caller and can be run twice; `ConcurrencyRespected` is about the
queues that are `Undisturbed`, which in `lifecycle_restarts` are all;
`SuccessIsFinal` speaks of executions that are `AtRest`, as every one is that has
succeeded once its runs, its stop and startup's list are done with it, and the event
log and recovery as well. The last two matter after a crash only: what recovery has
read before is written over a success, and a success that is reached before the relay
logs leaves the log as it was.

*Bounds.* `Runs` bounds how many runs exist at a time: two runs of one
execution are what a double resumption needs, three runs are what a limit of one
needs to have a run inside, one waiting and one unlimited or starting, and two
are one inside and one in the queue. `MaxCrashes` bounds crashes and shutdowns:
after one, the state is that of a fresh process with old rows, all combinations
of which one crash can leave behind; `lifecycle_restarts` has two, since the
second can hit recovery itself and leave its flag file. Stops, waits and restarts
are checked by separate runs, because their product is out of reach. So no run
recovers an execution that waits; the theorems `NoRowIsForgottenAsRunning`,
`NothingRunsAgainAfterSuccess`, `LimitHoldsForTheEngines` and `PlacesAreCounted` are
about those too, with any number of crashes.

`CHECK_DEADLOCK FALSE`: all executions may be over and no crash be left.

*Fairness* (`Fairness`, used by the runs with liveness properties). The event
loop runs each handler that is due, so each step of a run is weakly fair; a
workflow's nodes end; a poll comes every minute and its timers fire; shutdown
and startup go on and a process that is down is started again. Not fair: users
(create, stop, call a webhook), a failed credentials check, the timeout, a
crash. Weak fairness is enough, and `WaitingIsResumed` and
`EnqueuedIsStarted` hold whatever the users do.

`WaitingIsResumed` says "handed to the limiter": that a queued run is then let
through is `EnqueuedIsStarted`, which is checked where no execution waits, since
a place can be lost when a waiting execution is stopped (chapter 12).

## 5. TaskBroker

### State and actions

Broker: `knownRunners`, `pendingTaskOffers`, `pendingTaskRequests` (a sequence:
a deferred request is queued twice), `acceptInProgress`, `runnerAccepts[o]`
(the callbacks `runnerAcceptRejects` with the request they close over),
`tasks[o]`. Requester: `caller[q]`, `taskAccepts[o]`. Runner: `connected`,
`openOffers`, `runningTasks[o]`. Connections: `toBroker[o]`, `toRunner[o]`, the
messages of one task or offer in order.

| model | code |
|---|---|
| `Settle`, `Matchings`, `Idle` | `settleTasks`, `expireTasks`, the synchronous part of `acceptOffer` |
| `StartTask`, `TaskOffered` | `startTask` with `taskRequested`, `taskOffered` |
| `HandleRunnerAccept`, `HandleRunnerReject`, `HandleRunnerDeferred`, `AcceptTimesOut` | the handlers, with the continuation of `acceptOffer` after its promise settles, which runs before any other message |
| `TaskEnds`, `HandleTaskTimeout`, `Answer` | `taskDoneHandler`, `taskErrorHandler`, `handleTaskTimeout`, and what the requester does in turn |
| `RegisterRunner`, `DeregisterRunner`, `ConnectionLost` | the WebSocket server and the broker's part of it |
| `SendOffers`, `OfferInterval`, `OfferAccepted`, `ReceivedSettings`, `TaskCancelled`, `TaskTimedOut`, `ExecutionEnds` | the runner's methods of these names |
| `LauncherOffers`, `LauncherDefers` | external: the launcher, known from the broker's handling of `runner:taskdeferred` and of offers without a limit of time |

### Abstractions

- One type of task: types only partition requests and offers. Which offer a
  request is given is left open (any will do), so every order of offers is
  covered; which requests are served first is not.
- A task is named by the offer it came from; ids are unique in the code, and an
  identity is used again only when nothing refers to it (`Fresh`).
- A connection's messages are in order in the code; the model keeps order per
  task, which permits more.
- A lost connection may be noticed by the broker at any later time
  (`DeregisterRunner`), which stands for the closing of the socket as well as
  for the heartbeat.
- Data, node-type and RPC messages of a running task change no state of the
  protocol and are left out.

### Runs

| run | instance | asks | shows |
|---|---|---|---|
| `task_broker` | two requests, a runner with two slots, a launcher | `AcceptFindsRequest`, `OneTaskPerRequest`, `NobodyForgotten`, `WithinCapacity`, `SettingsExpected` | all hold |
| `task_broker_answers` | two requests, one runner with one slot, lost up to twice, under fairness | `RequestAnswered` | every call is answered with a result or an error |

*Bounds.* `MaxOffers` bounds the offers of a runner that are known at a time;
three are more than its slots, so that stale offers and tasks coexist with new
ones. `MaxLate` bounds how often a timer runs out although an answer is on its
way (the two seconds of the broker, its task timeout, the validity of offers):
each is an event of a slow connection, and one is enough to have each race
once. `MaxLost` bounds lost connections, `MaxDeferrals` the launcher's offers.
`task_broker` combines one of each with two slots. `CHECK_DEADLOCK FALSE`: all
calls may be answered and no runner be connected.

*Fairness.* Both processes handle their messages and timers; a runner's task
ends or times out; a runner whose connection is lost is noticed (heartbeat) and
started again (the restart of the runner process); a free slot is offered every
250 ms. Not fair: calls, lost connections, timers that run out early. The answer
depends on the bound of early timers and losses, and that is inherent: a call
waits for ever if every acceptance comes too late.

## 6. MultiMainSetup and LeaderServices

### State and actions

| model | code |
|---|---|
| `key` | the name under the leader key in Redis; `Gone` when it names a process that is no more |
| `instanceRole[m]` | `InstanceSettings.instanceRole` |
| `phase[m]` | how far `Start.init` and `run`, or `stopProcess`, have come: `joining` (first try), `starting` (before `WaitTracker.init`), `loading` (before `registerEventHandlers`), `serving` (before pruning is initialized), `up`, `stopping`, `leaving`, `clearing`, `draining`, `down` |
| `sent[m]`, `replies[m]` | a main's connection to Redis: commands not carried out and answers not acted upon, both in order |
| `CheckLeader`, `LeaderIsThisInstance`, `LeaderIsOther`, `LeadershipVacant`, `TriedToBecomeLeader` | `checkLeader` and `tryBecomeLeader`, cut at their awaits |
| `Serve`, `Expire`, `Lapse` | Redis: a command is carried out; the key of a process that no longer extends it runs out; a key is lost although somebody extends it |
| `mainTimer`, `softDeletion` | the interval of a service: the field's timer, and timers that were overwritten while they ran (`stray`) and that nothing can clear any more |
| `waitingExecutions`, `found`, `resumed` | the entries of the wait tracker, the result of a query under way, the executions resumed |
| `Elect` | a reply is handled together with the handlers of the event it makes the code emit |
| `StartTracking`, `StopTracking`, `StartPruning`, `StopPruning` | the methods of these names, with their questions about the role |
| `InitTracking`, `RegisterEventHandlers`, `InitPruning`, `StopServices`, `StopTrackingFirst`, `Ends` | the places in startup and shutdown at which a service starts, begins to listen, or stops |

`setExpiration`, which extends the life of the key, is not a command of its own:
whether the key may run out is decided by `Renewed`, from the processes that have
set or extended it since they were started (`renewing`). Time is left out but
for that. The timer of hard deletion goes with that of soft deletion. `refused`
and `untimely` are for the properties.

### Run

`leader_services` (737,560 states): two mains, an execution that is due, one
fault (a crash, a shutdown or a lapse). The name of `a` survives its restart
(`InDocker`), and two of its checks may be under way at a time; `b` gets a new
name and has one check at a time. It asks `LeaderHoldsKey`, `HolderLeads`,
`AloneAtWork`, `LeaderAtWork`, `OneLeaderInTheEnd`,
`WaitersAreResumedUnlessKept`; all hold. `HolderLeads`, `OneLeaderInTheEnd` and
`WaitersAreResumedUnlessKept` name one exception, a main that holds the key as a
follower because its own name refused it (`refused`; chapter 12).

*Bounds.* Two mains are all that a lost key, a take-over and a return of the old
leader need; the invariants are proved for any number of mains, faults and
overlapping checks, and hold in the instance with a stop and a lapse too (6.9
million states, too many for the liveness properties). `CHECK_DEADLOCK FALSE`:
with no stop left and nothing due, a main that is down need not start.

*Fairness.* Redis answers; intervals, timers and the steps of startup and
shutdown go on; a key nobody extends runs out. Nothing makes a process start or
stop, and lapses are free. Weak fairness is enough: a check is possible again as
soon as the one before is over, and nothing but the check's own steps disables
it.

## 7. ScalingQueue

### State and actions

One module for the whole life of an execution in queue mode, since every
property spans three processes.

| model | code |
|---|---|
| `row[e]` | the status in the database |
| `caller[e]`, `promise[e]` | how far `WorkflowRunner.run` and `enqueueExecution` are in the main; the entry of `ActiveExecutions` and what its promise became |
| `Create`, `AddJob`, `Attach` | `add`, `addJob`, the hook and `attachWorkflowExecution` |
| `AnswerFromRow`, `JudgeFailure`, `EnqueueFails`, `SaveFailure` | the end of the job, and `processError`, which looks at the row before it believes the failure, finalizes the entry and then saves the row |
| `startedAt`, `clock` | when a row was last set running, in order of time |
| `StopHere`, `StopElsewhere`, `WriteStop` | `stopInScalingMode` at the main with the entry or another, and `stopDuringRun` |
| `StopJob`, `RemoveJob`, `FailJob` | `ScalingService.stopJob`: the question whether the job is active and what follows, as separate calls |
| `job`, `holder`, `stalls`, `Stall` | Bull: a job's state, the worker with its lock, how often it stalled (once is forgiven) |
| `work`, `step`, `TakeJob`, `SetRunning`, `EndRun`, `Complete`, `JobThrows`, `HandleAbort` | `JobProcessor.processJob` and `stopJob` of a worker |
| `recovery`, `Batches`, `ReadRows`, `ReadJobs`, `MarkAsCrashed` | `recoverFromQueue`, cut at its awaits: a batch of the rows in progress, the latest start first, then the queue, then the write. Where a start that is null is sorted depends on the database: `UnstartedFirst` |
| `MainCrashes`, `WorkerCrashes` | the end of a process |

Executions do not wait for one another here (concurrency is the worker's
number of jobs), webhook responses and progress messages change no state, and
waiting executions are enqueued again like new ones.

### Run

`scaling_queue` (607,970 states): `e` may be stopped and hit by a fault, `f` never
ends by itself; two workers, one leader that reads one row at a time, one fault.
`AnsweredIsOver`, `StoppedRunEnds`, `SuccessIsKept`, `EveryRunIsAnswered`,
`AbandonedIsRecovered` hold, with the exceptions they name: a stalled job is at two
workers, a hook that fails after the job was added leaves the job behind
(`workflow-runner.ts:391`), a stop can pass a job by on its way to a worker, a failure
is answered before it is saved, and an abandoned row is not recovered as long as a
batch of later ones, or an empty queue, keeps the check from it.

*Bounds.* One fault is one of: a main or worker that ends, a call to Redis or
the database that fails, a lock that is lost. An endless execution takes a
worker for good, so the second worker is what makes the first one's stall, and
the queue behind it, visible. `f` needs no faults of its own: rows and jobs of
different executions only meet in the queue's emptiness and in recovery. A batch of
one is full as soon as two rows are in progress.

*Fairness.* Processes go on with what they have begun, and so does a run that is
not endless; the queue gives jobs away and notices workers that are gone; the
leader checks again. Stops and faults are free.

## 8. InsightsCollection

`bufferedInsights`, `timer`, `isAsynchronouslySavingInsights` and
`flushing` (the flushes in progress with their events) are the service's fields;
`insightsRaw` is the table. `TimerFires`, `FlushEvents`, `FlushSucceeds`,
`FlushFails`, `WorkflowEnds`, `WorkflowEndsLate` and `HandlerEnds`, `Shutdown` and
`ShutdownEnds` are `scheduleFlushing`, `flushEvents` up to its await and its two
ends, `handleWorkflowExecuteAfter` before and after shutdown has begun, and
`shutdown`. `FlushThrows` is a flush that contains an event of a workflow without an
owner, which throws every time (`insights-collection.service.ts:217`). `Exit` is the end
of `ActiveExecutions.shutdown`, which waits for the executions that have an entry: an
execution in `Released` (one that ran in the queue, failed or was stopped) has lost its
entry before the hook that flushes its events, so the exit does not wait for it.
`Killed` is a crash, or the end of a shutdown that took too long; it may come at any
time. An event is an execution with its outcome or another type of event; the upsert
of metadata is part of a flush, which succeeds or fails as a whole.

`insights` (381,923 states): three executions with one optional event each, one of them
without an owner, two of them released, a buffer of three, three flushes at a time, two
failures. `EachEventOnce`, `NoEventLost`, `BufferIsScheduled`, `StoredAtExit` and
`CollectedIsStored` hold. `StoredAtExit` is about the ordinary exit and excepts what a
flush refused after the shutdown had begun, and what a released execution is still
flushing; `CollectedIsStored` excepts everything from the moment on that an event
without an owner is there, since it takes down every flush it is part of. Three
executions fill the buffer twice over, before and after the shutdown begins; three
flushes are the timer's, the full buffer's and a late handler's.
Fairness: the timer fires, flushes end (with success once the database's failures are
used up, unless one has an event without an owner), handlers and the shutdown go on.
Neither exit is fair. `CHECK_DEADLOCK FALSE`: the process exits.

## 9. WorkflowEngine and PartialExecution

### WorkflowEngine: state and actions

| model | code |
|---|---|
| `workflow` | its links (node and output to node and input), the inputs a node type requires, whether progress is saved, and what a node may do |
| `run` | `runExecutionData`: `stack`, `waiting` with the `order` of its keys, `runData`, `last` (`lastNodeExecuted`), `waitTill`, `destination` and `filter` (`startData`); and how the run stands |
| `row` | the same in the database; `stored` says whether it has the engine's data yet |
| `Init` | `run`: started by a trigger, or by a user, with a destination where the workflow gives a choice |
| `NodeSucceeds`, `NodeReturnsNothing`, `NodeFails`, `NodeWaits` | one turn of the loop in `processRunExecutionData`, by what the node does |
| `DestinationSucceeds`, `PassOver` | the turn of the destination, whose output goes nowhere, and of a node outside `runNodeFilter` |
| `NodesToAdd`, `HandOn`, `AddNodeToBeExecuted`, `WaitingNodeIndex`, `RemoveEntry` | who receives what was output, in which order, and `addNodeToBeExecuted` |
| `RunWaiting`, `CanRun`, `Fill` | what happens when the stack has run empty |
| `Progress` | `saveExecutionProgress`, before the waiting nodes are looked at |
| `Finish` | `processSuccessExecution` and the hook that saves the run |
| `Crash` | the end of the process, and the row marked by the next one |
| `ResumeByTimer`, `ResumeByWebhook`, `Restart` | `WaitTracker.startExecution`, `getWebhookExecutionData` and the beginning of `processRunExecutionData` |
| `object`, `Sharing`, `Disable` | an item's `node` is the workflow's node object, which all items share that one engine has made; `disabled` is set on it. Items that were read from a row share the objects of that row (the `flatted` format keeps identity) and none with what is made later (`Read`) |
| the domain of an entry | the inputs that were ever set: the engine makes entries of full length with null for what is missing, a partial execution short or sparse ones, and what the check for completeness looks for is null |
| `Retry`, `WithoutError` | `ExecutionService.retry` |

Items are abstracted to *batches*: what one run of a node sent to one output,
named by exactly that. The code names them the same way, in `source`. What a node
does is a choice: any set of its outputs receives items, which covers retries on
failure, `continueOnFail`, error outputs and pinned data, all of which end in
some output. The order is `v1`; Rank stands for the positions on the canvas.

The records have a few fields that the code does not have, for the properties:
`silent` (what was taken by runs that returned null, which leave no run data),
`waited`, `misplaced`, `unchecked`, `marred`, `kept`.

### PartialExecution: state and actions

There is no state of its own: `ExecuteNode` takes the run data of the row of an
execution that has ended, does all that `runPartialWorkflow2` does in one step
(the code awaits nothing), and leaves a run that the engine's actions carry on.

| model | code |
|---|---|
| `LinksBack`, `Subgraph` | `findSubgraph` |
| `Below`, `CleanRunData` | `getChildren`, `cleanRunData` |
| `IsDirty`, `LoopIsOpen`, `FirstStops`, `FindStartNodes` | `findStartNodes` |
| `Search`, `FollowNode`, `Components`, `VisitNode`, `FirstOf`, `StartOf`, `HandleCycles` | `getStronglyConnectedComponents`, `depthFirstSearch`, `handleCycles` |
| `SourceGroups`, `Batch`, `AddGroup`, `RecreateStack` | `getSourceDataGroups`, `getIncomingDataFromAnyRun`, `recreateNodeExecutionStack` |
| `ExecuteNode` | `runPartialWorkflow2` |
| `edited` | the nodes the user has changed since, `dirtyNodeNames` |

Which nodes are looked at first depends on the order in which the graph was put
together and, among sources of one input, on their names. `Orders` stands for
both: the results must not depend on it. That is one order at a time for what in the
code are several independent ones (nodes, links, names, start nodes): combinations
in which these differ are not in the model, and the theorems do not cover them either. Two of the algorithms walk the graph and
keep track of nothing but where they have been; they are given by what they find
(`LinksBack`, `FirstStops`, with `Reach` for the nodes that can be reached). The
walks of the code are in `MCWorkflowEngine` as recursive operators (`BranchesBack`,
`BranchesDown`), and TLC compares what both find on every graph of four nodes (three
for the second) and on the workflows of the run (`BackIsFound`, `StartsAreFound`).
The others are recursive functions in the shape of the code, Tarjan's with its low
links included, because what they find on unusual graphs is what matters.
`PartialAssumption` says of the constants that an order gives different nodes
different places and that no link leads to the trigger, which has no inputs.

### Runs

`engine` (355,381 states from 28 workflows): two branches that meet; a meeting
that another depends on; two meetings side by side; three branches into one
input and one into the other; a loop whose body meets itself; a loop beside a
meeting, so that entries pile up; two meetings that wait for each other; a node that
is sent to twice by one node and again by another, so that several of its items are on
the stack when it waits. Nodes
fail, wait, or return null, one crash may come anywhere, and every failed or
crashed execution may be retried. In eight of the workflows (the first two of
these, the first with saved progress, three branches that meet, a branch that can be skipped, a loop node with a body of two, two cycles
that share a node, a node that is reached at once and again by way of another) a user starts the execution with or without a destination,
changes nodes, and executes another node upon the result, twice.

- `BatchesKept`: what was handed on is in one place, on the stack, in a waiting
  entry or with the run that took it; none is lost, none taken twice, through
  failures, waits, crashes and retries.
- `PairedInOrder`: batches of different rounds of a loop are not mixed.
- `NothingIsLeftWaiting`: a success leaves nothing waiting but for an input that
  is required.
- `NoLateData`: a node that was run short of an input is sent nothing later.
- `OnlyWaitersArePassedOver`: resuming passes over the node that waited, with the
  items it waited with, or with others that had the same node object: more of its items
  that one engine had put on the stack together.
- `NoStaleMix`: a node whose old data a partial execution keeps is not run again,
  and neither is any node its data came from. What is thrown away is decided on
  the subgraph, what runs by the engine on the whole workflow.
- `DestinationIsReached`: when the engine has nothing more to do, the chosen node
  has run, or waits for input, or the items did not get there: not even when the
  recreated stack is empty (chapter 12) is it forgotten.

`engine_overwrite` is finding 2.

*Bounds.* `MaxRuns` ends loops: a node that has run three times outputs nothing;
three rounds are enough for an entry to be overtaken by two. `MaxCrashes` is one:
a retry starts from the row alone, and rows do not remember crashes. `MaxRepeats`
is two: the second partial execution is the first that meets data of two ages.
`Orders` has one order and its reverse, with the trigger first in both: nodes have
at most two successors or two sources for an input but in one shape, so two
orders put every such pair both ways.
`CHECK_DEADLOCK FALSE`: a success is an end. There is no liveness here: a
workflow whose nodes end runs until its stack is empty, and loops may be endless.

## 10. What is proved

TLAPS checks the proofs in `ConcurrencyControlProofs.tla`,
`ExecutionLifecycleProofs.tla`, `TaskBrokerProofs.tla`, `LeaderServicesProofs.tla`,
`ScalingQueueProofs.tla`, `InsightsProofs.tla`, `WorkflowEngineProofs.tla` and
`PartialExecutionProofs.tla`, for all values of the constants. Type invariants are
proved for these components and therefore asked of TLC in no run.

**The limiter**, from `LimitAssumption` (a configured limit is a nonzero
integer: the constructor throws on 0). Inductive invariant `IInv`: `TypeOK`,
`CapacityAccounting`, `WorkConserving`, and `InOnePlace`: no run is twice in a
queue, none both waits and is inside, the runs inside are finitely many.
`CapacityAccounting` is not inductive without `InOnePlace`: letting a run in
that is inside already would step the counter and leave the set as it is. One
lemma per operation (`EnqueueKeepsIInv`, `DequeueKeepsIInv`,
`RemoveFromKeepsIInv`), all from `ResolveNextKeeps`, the one about handing a
place on.

- `TypeCorrect`, `Accounting`, `NobodyWaitsForAFreePlace`: `Spec => []TypeOK`,
  `[]CapacityAccounting`, `[]WorkConserving`.
- `Refinement`: `Spec => ImplementsGate`, the safety refinement of
  `ConcurrencyGate`. Its heart is `CounterTellsWhoIsInside`: under the
  invariant, `capacity - 1 < 0` exactly when the places are taken, which needs
  work conservation for the case that runs wait.

**The lifecycle**, from the same assumption and those that name its constants,
for any number of runs, executions, limits and crashes. `LifeInv` joins the
limiter's `IInv`, under the real callers this time, with

- `QueuesAgree`: an entry in a queue is that of the run which waits there.
- `PlacesAgree`: who holds a place has called and has not been answered, and who
  has called and does not wait holds its place, if it is counted.
- `EntriesAgree`: the entry under an id belongs to a run of that execution that
  has been let through; as long as its promise is pending, it has its place.
- `RunsAgree`, `RowsExist`, `NewAgrees`: where a run stands before it is
  registered; no run without a row; a `new` row has no run that was let through.
- `NothingResumes`, `OneRunEach`: before the first crash, an execution without a
  Wait node has one run, and the entry of that run stays until it gives its
  place back.

`CapacityAccounting` is not inductive here without `EntriesAgree`: places are
released by whoever settles the promise of an entry, `finalizeExecution`, a stop
or the shutdown, and what keeps two of them from releasing one place is that the
promise is pending just as long as the place is held. `NoSlotLeak` rests on the
last two: a run that ends finds its own entry, unless a stop has dropped it or
another run of the same execution has overwritten it
([chapter 12](#12-observed-behaviours)), which takes a Wait node or a restart.
One lemma for each action (`CreateKeeps`, ...); `RunsStay` and `RunGoesOn` are what most
of them have in common, `FinalizeSettles` and `StopRejects` are the two
ends of a promise.

Two more invariants stand on it. `RowInv` is about the rows:

- `RunningIsCovered`: from the recovery of a start on, a row that is `running` has
  a run of which something is still to come (`Covers`), a stop that is about to write
  it, a recovery that has yet to come to it or is at it, or one of the two excuses. `NoZombieRow` is what is left of this
  when all runs are over, and is not inductive: it does not say that a run which is
  at work still has the save before it, while a cancelled one, which has not, has
  its hook instead.
- `EntryStays`: in the first life of the process, a run without a Wait node that has
  lost its entry has been stopped, and the stop writes the row. Without it
  `PassCredentials`, which throws when the entry is gone, could leave the row behind.
- `NotCancelledYet`, `RespondersAgree`, `FinishedAgrees`, `RecoveryIsOver`: who can be
  cancelled, who attaches a response, which rows are finished, and that only recovery
  has rows to recover.

`SuccessIsFinal` needs no invariant about timers and polls: `NextRest` shows, action
by action, that whatever they resume first looks at `finished`, and that everybody
else who could write has nothing of this execution left to write. Recovery is among
these: `AmendedAgrees` says that it is at an execution only in the phase of recovery,
with a row that is not that of an execution which is still to be started.

`PlaceInv` is about the limit. `Inside(t)` are the runs that were let through and have
not been cancelled. They are *not* the holders of the places: where an execution is
resumed before its last run has been finalized, the end of that run releases the
place of the new one, whose entry is under the id. What holds is that they are as
many at most (`Placed`), and that is inductive together with `NotOverdrawn` (the
counter never falls below the number of those who wait), `CancelsAgree` (in an
undisturbed queue a timeout finds the entry of its own run, and cancels its own
engine) and `EnginesAgree`. `ThrottlePlaces`, `ReleasePlaces` and `StopEntryPlaces`
say what becomes of the count when a run is let in, ends, and is cut off.

- `LifeIsTyped`, `PlacesAreCounted`, `NoPlaceIsLost`,
  `NobodyIsForgottenInTheQueue`: `LifeSpec => []LifeTypeOK` and
  `[]CapacityAccounting`, `[]NoSlotLeak`, `[]EnqueuedNotForgotten`.
- `NoRowIsForgottenAsRunning`, `NothingRunsAgainAfterSuccess`,
  `LimitHoldsForTheEngines`: `[]NoZombieRow`, `SuccessIsFinal` and
  `[]ConcurrencyRespected`. The runs ask these without second runs, stops or
  timeouts where their product is out of reach; the proofs have no such limits.

**The broker**, from `BrokerAssumption` (launchers are runners, `NoRequest` is no
request, there are finitely many runners, positive bounds). `BrokerInv`
strengthens `AcceptFindsRequest`, `OneTaskPerRequest` and `NobodyForgotten` by

- `FlagsAgree`: a request whose acceptance is awaited is flagged, a queued one
  that is not flagged has a caller that asks. The flag outlives acceptance in
  the code, and this is why that is harmless: the second copy of a deferred
  request is never idle again once a task has been made of it.
- `TasksAgree`: broker and requester know the same tasks.
- `OffersOnce`: an offer on its way or with the broker belongs to no task yet.

Without the last two, a settled offer could overwrite a pending acceptance, and
a late answer meet a request that is somebody else's by now. `SettleKeeps` is
the main lemma (every step that matches), `HandleRunnerAcceptKeeps` and
`GiveUpKeeps` the two ends of an acceptance, `RunnerStepKeeps` covers steps that
only send messages.

- `BrokerIsTyped`, `AcceptAlwaysFindsRequest`, `RequestsAreGivenOnce`,
  `NobodyIsForgotten`: `Spec => []BrokerTypeOK` and the three properties.

The proofs hold whatever the bounds on losses, late timers, slots and offers
are, which is what TLC cannot say.

**The runner**, from the same assumption. `RunnerInv` joins `BrokerInv` with

- `WithinCapacity`, which is inductive once it is known how many slots each step
  takes: `SlotPassesOn` (an accepted offer leaves its slot to the task),
  `SendOffersCounts` (what `sendOffers` adds fits beside what is open and runs),
  `NoMoreSlots` for the other steps.
- `InStep`: what comes of an offer is in one place at a time. It is open with
  the broker or on its way there, then its acceptance is on its way to the runner,
  then the runner's answer on its way back, then the settings, each once; as long
  as the settings or the answer are on their way, the runner's task waits or is
  over.

`SettingsExpected` looks at the head of a channel only, and is not inductive: a
second copy of the settings, or an answer that arrives when the task runs, would
bring them to a running task. `BrokerInv` is needed for the broker's reply: the
acceptance finds its request, so that settings and not a cancellation follow
it, and an offer on its way is not with the broker as well, so that it is taken
once.

- `RunnerStaysWithinCapacity`, `SettingsAreExpected`.

**The election and the leader's services**, from `MainsAssumption`. Four
invariants, each resting on the one before:

- `KeyInv`: types, `Tidy` (a main that is down, or has left, has nothing under
  way; the key is deleted once, at the end) and `Claims`: as long as no key has
  been lost while it was extended, a main that leads, that is deleting the key, or
  that has an answer on its way which will make it lead, is the one the key names. `LeaderHoldsKey` alone
  is not inductive: the answer to a SET makes a leader of a main long after the
  key was set.
- `HolderInv`: a main that the key names, and that its own name has not refused,
  knows it (`Knows`): a try of its own, or the vacancy that will make it try, is
  still on the way; or the answer that makes it lead is, with no other bad news
  after it (`Wins`); or it leads and will hear nothing else (`Only`). The order of
  the answers matters: two checks at a time may hear of a vacancy before and after
  one of them has filled it.
- `WorkInv`: a leader whose services are set up has their timers running
  (`AtWork`), from the types of the timers alone.
- `AloneInv`: as long as no key is lost, the tracker has one timer at most and
  only the holder of the key has it (`Tracking`; a main whose own name refuses it
  goes on tracking as a follower), and a main hears of its success once, before it
  has the timer (`Settled`), so that it does not arm it a second time.

The theorems are `LeadersHoldTheKey`, `KeyHoldersLead`, `ServicesAreTyped`,
`LeadersWork` and `OneMainTracks`; none bounds the checks that overlap, the
faults or the names that survive.

**Queue mode**, from the assumptions that name its constants. `ScalingInv` joins
the safety properties with the four facts that they rest on:

- `CallersAgree`: how far the main process is with an execution, and its job.
  There is no job and no stop before it is added; who has been answered has been
  so at the end of a job or after a refusal; a job is cancelled or removed only
  for a promise that has been rejected.
- `Alone`: a job that has not stalled is at one worker, which holds its lock until
  a stop takes it. Two workers write the same row only after a stall.
- `RowsAgree`: the row of a job that has not stalled is final once it has been
  saved, and no success before.
- `StopsReach`: after a stop has told the workers, or found the job with none, no
  worker runs it, or the message is on its way to the one that does.

`AnsweredIsOver` is not inductive without all four: the answer to a caller is
sent long after the worker wrote the row, and another worker, a stop or the
recovery may come in between. An answer that is a failure is sent before the row is
saved; that no worker makes the row a success in between is again what `Alone` and
`RowsAgree` say of a job that has failed.

- `ScalingIsTyped`, `AnswersAreFinal`, `StopsEndRuns`, `SuccessStays`: types,
  `AnsweredIsOver`, `StoppedRunEnds` and `SuccessIsKept`.

**Insights**, from `InsightsAssumption`. The inductive invariant joins the four
safety properties and the types with `NoneAhead` (no event exists before its
execution has ended) and `LateEventsAwaited`: after the shutdown has begun, what
is in the buffer has been refused, and what is in a flush is awaited by the shutdown,
or event by event by the handler of its own execution, or has been refused. Without
the second, `StoredAtExit` says nothing about the flush that is still under way when
the process exits: the exit waits for handlers, and not for those of `Released`. The
theorems are `InsightsAreTyped`, `NoEventTwice`, `EventsAreKept`,
`BufferIsAlwaysScheduled`, `ExitIsClean`.

**The engine**, from `EngineAssumption`: finitely many nodes in different places
on the canvas, finitely many links, and markers that are no batches. Nothing is
assumed of the shape of the graph, of the runs a node may have (`MaxRuns`) or of
the number of crashes. The theorems of `WorkflowEngineProofs` are about
`WorkflowEngine`'s `Spec`; for partial executions see below. `IInv` has two halves.

`StandInv` says how the run and its row stand, whatever they hold: their types
(entries lack something, `order` names the nodes that have some, each once),
`WaitIsOnTop` (a wait is of the node on top of the stack, whatever shares its object
has been noted as waiting, and its run is the last of the last node),
`DisabledHasWaited`, and `Agree`, what the
process and the row have in common. A row whose progress is saved is in step with
the run except in the case that `OutOfStep` names: the row still has a wait that
the run has left behind, or the run one that the row has not heard of, or they
differ in the destination. A crash at that moment sets `marred`. From this half
alone follow `NothingIsLeftWaiting` and `OnlyWaitersArePassedOver`.

`HoldInv` says what they hold. `Contents` looks at stack, waiting entries,
successful runs and silent runs as one set, each element with its place, so that a
step of the engine takes an element out, puts one in or moves one:

- `EachOnce`: exactly one element has a batch that was handed on.
  `BatchesKept` counts places and is what `EachOnce` comes to, but is not
  inductive: it says nothing of a batch that has not been handed on being nowhere
  (`Sourced`: what is held has been output by a run that succeeded), nor of what the
  row holds, from which every retry goes on.
- `InOrder`: two elements of a node are `Paired`, and one that does not wait is
  `Before` one that does, input by input. `PairedInOrder` alone is lost when the
  next batch goes to the first entry that lacks it; what keeps it is that entries
  are in order among themselves and that a later one lacks what an earlier lacks. This
  half has entries of full length (`FullLength`), as the engine itself makes them.
- `NothingAbove`: in a graph without cycles, no ancestor of a node that was run
  without some of its input is on the stack or waits. `NoLateData` is about steps,
  and follows from this: who hands on is on the stack.

The row may be behind the run, and `HandedOn(row) \subseteq HandedOn(run)` says so.
There is one lemma for each action and half (`NodeWaitsStand`, `NodeWaitsHold`,
...). The heart of the second half is `HandOnHolds`: while the outputs of a run are
handed on link by link, each batch is either still to hand on and nowhere, or in
one place. `AddedHolds` says what one batch does to the contents,
`AddKeepsOrder`, `AddKeepsOnce` and `AddKeepsSteady` that the three parts survive
it, `RunOfSteady` that they survive a node which is run short. That the links of a
run have an order in which they can be handed on, which `NodesToAdd` chooses, is
`LinksHandedOn`.

- `StandingAlways`, `IInvAlways`: `Spec => []Standing` and `[]IInv`.
- `BatchesKeptAlways`, `PairedInOrderAlways`, `NothingIsLeftWaitingAlways`,
  `OnlyWaitersArePassedOverAlways`, `NoLateDataAlways`: the five properties.

**Partial execution**, from `PartialAssumption` and `EngineAssumption`, about
`RepeatSpec`: any number of partial executions, upon each other's results, in any
order with retries, waits and crashes.

First, that `ExecuteNode` leaves what the engine can work with. `SubgraphFacts`,
`CleanFacts`, `SourceGroups` and the lemmas about the recreated stack say what each
algorithm gives for every workflow; those about the recursive functions show first
that there is a function that satisfies the recursion. It follows that the new
execution satisfies `StandInv`, and with one lemma per action of the engine,
`RepeatStanding`: `RepeatSpec => []Standing`. `NothingIsLeftWaiting` and
`OnlyWaitersArePassedOver` follow as before
(`RepeatLeavesNothingWaiting`, `RepeatPassesOverOnlyWaiters`).

Second, `NoStaleMix` (`NoStaleMixAlways`). It is not inductive: that no kept node
runs in the next step depends on what is on the stack and waits now, and on where
that leads. The invariant is `Insulation`: there is a set B of nodes, those that
come after the start nodes, of which nothing is kept; all other nodes have exactly
the data that was kept; whatever is on the stack, waits or was the last to run is in
B unless the filter drops it; and a link that leaves B with items ends in B or
outside of the filter. At the start this is what cleaning on the *subgraph*
achieves, and the step to the engine, which follows the links of the *whole
workflow*, is `BegunInsulated`: a link to a node of the filter from a node that
leads to it is a link of the subgraph. The row is either insulated by the same B, or
has kept nothing at all. `GoesOnIn` and the lemmas `AddGoesTo`, `HandOnGoesTo`,
`RunWaitingGoesTo` bound where one step of the engine can put anything.

Third, `DestinationIsReached` (`DestinationIsReachedAlways`), in four parts.

- *What the search for cycles finds.* `getStronglyConnectedComponents` misses some
  cycles (chapter 12), so that nothing may rest on its finding them all. What the
  proof needs holds for every graph: what it does find is a cycle
  (`ComponentsAreCycles`). The recursion carries a stack, low links and the
  components found; that there is a function which satisfies it (`Recursion`) is
  shown from the number of nodes not yet visited, and each call keeps that a low
  link is the number of a node which can be reached (`Good`, `Follows`).
- *Where the execution starts.* A start node is replaced by a node of its own cycle,
  so that everything `findStartNodes` stopped at still comes after a start node, and
  is cleaned with it (`StartsCover`). If items of what is kept nevertheless lead to
  the destination, the search has come there, and the destination is its own start
  node with input (`KeptToDestination`); a start node with input comes onto the stack
  or among the waiting entries, and stays there when others are added (`RecreateKeeps`).
- *What the engine keeps.* The invariant is `IsServed`: only nodes of the filter have
  data, and when the destination is `Due`, because kept items lead to it or new
  ones were handed to it, it is on the stack, waits, has run, or had nothing to work
  on. The row satisfies the same unless a crash has left it out of step with a wait.
  There is one lemma for each action (`NodeSucceedsServed`, ...).
- *Why this is enough.* With nothing on the stack, a way of items from the trigger
  to the destination consists of kept links, or has a last link with new items,
  and then the destination is due (`ReachedIsDue`). Here `Insulation` is needed
  again: new items lead only to nodes that are run again, or out of the filter.

**Only model-checked**: `BatchesKept`, `PairedInOrder` and `NoLateData` of the
executions that `ExecuteNode` starts (proved of all others). The recreated stack and
waiting entries hold batches that were handed on in an earlier execution, often of
several rounds side by side, and are not in the order `InOrder` asks for, so that the
engine's invariant does not hold of them; they may be short, too; liveness
(`EnqueuedIsStarted`, `WaitingIsResumed`, `RequestAnswered`,
`OneLeaderInTheEnd`, `WaitersAreResumedUnlessKept`, `EveryRunIsAnswered`,
`AbandonedIsRecovered`, `CollectedIsStored`), which the installed provers cannot
do.

## 11. Where code and documentation disagree

Each is shown by a run whose property states the quoted sentence.

1. `lifecycle_shutdown_queue`. `ActiveExecutions.shutdown` disables the limiter
   and then asks it to empty its queue, which a disabled limiter does not do
   (`active-executions.ts:258`), so that a queued execution whose caller waits is
   neither canceled nor removed.
2. `engine_overwrite`. A new waiting entry is given as its index the number of
   entries (`workflow-execute.ts:660`). With entry 0 gone and entry 1 there,
   that is entry 1 again, and its data is overwritten, where the comment speaks
   of a new entry. Four nodes before a Merge are enough: A, B and D into its
   first input, C into its second, executed in the order A, B, C, D.

## 12. Observed behaviours

What the models do because the code does, and what a property therefore excepts. A few
of these disagree with a comment of the code: `multi-main-setup.ee.ts:13-17` on pruning,
`directed-graph.ts:313` on components, `handle-cycles.ts:26` on those of one node, and
`scaling.service.ts:480` on which rows recovery marks. They are named where they belong
and not among the findings of chapter 11, each of which has a run of its own.

*Limiter and lifecycle.*

- `ConcurrencyQueue.remove` lets the next run in although the removed one held
  no place (`concurrency-queue.ts:53`): one more than the limit runs until the
  queue has drained.
- `WaitTracker.startExecution` checks `finished` and then awaits
  (`wait-tracker.ts:105`): of two resumptions, the second can run an execution
  again that has succeeded.
- An execution that goes to wait while `ActiveExecutions.shutdown` loops holds
  the shutdown up until it is cut short (`active-executions.ts:269`).
- A stop between the Wait node and the end of its engine drops an entry whose
  promise is pending (`active-executions.ts:165`): the place is never given back.
- Two resumptions of one execution that are let in together (a limit of two or
  more) both put their entry under its id; the first one's is gone, its promise
  never settles, and its place is never given back (`active-executions.ts:112`).
  The same comes of an execution that a webhook has just created when startup,
  reading the enqueued rows, runs it as well.
- The log has no end for a waiting execution, so recovery takes it for unfinished. It
  is saved as crashed (`execution-recovery.service.ts:44`), and the hook that follows,
  which is handed its `waitTill` (`:202`), makes it `waiting` again
  (`shared-hook-functions.ts:24`), to be resumed by the next poll. So is any execution
  whose row still has a time to wait for.
- Recovery reads a row, then writes all of it as it was read, then once more through
  the hook, and `finished` becomes false (`execution-recovery.service.ts:70`, `:44`,
  `:200`). What a webhook's resumption of the execution does in between is written
  over, a success included. Recovery also marks executions that webhooks started before
  the event bus was ready, and amends one that succeeded before the relay logged.
- A database error after `throttle` has let a run in keeps the place
  (`active-executions.ts:73`); database errors are not in the model.
- A webhook may resume an execution between the save of its last run and that run's
  `finalizeExecution`, which then removes the new run's entry; so may any second run
  where the limit lets two in. If the caller waits for a response,
  `attachResponsePromise` throws (`workflow-runner.ts:163`, `active-executions.ts:139`)
  and the row stays `running` with nothing at work on it.
- A stop between `add` and the start of the engine rejects the promise and gives the
  place back, and the engine starts all the same, without an entry or a place
  (`workflow-runner.ts:305`). So it is with a timeout that finds the entry of another
  run of its execution. The limit is then exceeded until that engine ends.
- An execution that is created while startup reads the enqueued rows can succeed and
  be run again by startup (`start.ts:376`). A crash during that second run leaves a
  row that is finished and says `running`.
- `stopBeforeRun` leaves `waitTill` on the row of a resumed execution that it
  cancels in the queue, and the poll resumes it (`execution.repository.ts:592`).

*Leader.*

- `stopPruning` returns unless the main leads, but the role is given up before
  the event is emitted (`executions-pruning.service.ts:80`,
  `multi-main-setup.ee.ts:102`): a follower's timers go on, and the next
  take-over starts a second set. The comment at `multi-main-setup.ee.ts:13-17`
  says that services stop pruning in response to the event.
- `tryBecomeLeader` takes a key that has the main's own name for that of another
  main (`multi-main-setup.ee.ts:114-128`): the main becomes a follower, later
  checks find its own name and only extend the key (`:75-80`), and nobody leads
  until the key is lost. Two ways lead there (`refused`). A container whose leader
  crashes and is back within the life of its key meets the key of the process
  before (`instance-settings.ts:64`). And the interval does not wait for the check
  before (`:56`): two checks that both find a vacancy try one after the other, and
  the second try is refused by the first; such a main does not even emit
  `leader-stepdown`, so that its services go on.
- A role that changes between `WaitTracker.init` and `registerEventHandlers` is
  heard by nobody, and a take-over during shutdown, after the tracker has been
  stopped, starts it again (`untimely`).
- `stopTracking` leaves entries without timers (`wait-tracker.ts:142`); a main
  that leads again takes these executions for scheduled.
- Reading the key and extending its life are two commands
  (`multi-main-setup.ee.ts:78`): a key that changed hands in between is extended
  for its new owner. A queue recovery that is under way at a step-down schedules
  itself again.

*Queue mode.*

- A hook that fails after the job was added refuses the caller and leaves the job
  (`workflow-runner.ts:391`): a worker runs it all the same.
- `stopJob` asks whether the job is active and acts on the answer in a second
  call; a worker may take the job in between. A stop at another main only writes
  the row.
- Recovery marks rows as crashed whatever they say by then: an execution that
  has just ended, or whose job is just being added, may be among them
  (`scaling.service.ts:493`).
- Recovery reads one batch of rows, the latest start first (`scaling.service.ts:484`,
  `execution.repository.ts:1098`), and begins at the same rows every time: behind a
  full batch of executions that are in progress, an abandoned one is never looked at
  (`CrowdedOut`). The comment at `scaling.service.ts:480` knows no such limit. Nor does
  an empty queue lead to recovery.
- A failure is answered before it is saved: `processError` finalizes the entry
  (`workflow-runner.ts:126`) and then runs the hook that writes the row (`:128`). In
  between the caller can find the row `new` or `running`, and it stays so if the main
  crashes there.

*Insights.*

- A flush that fails during the shutdown is not tried again, a flush that ends after it
  sets the timer anew, and a crash loses the buffer.
- The exit waits for executions that have an entry, and some lose it before the hook
  that flushes their events has ended: those that ran in the queue
  (`workflow-runner.ts:469`, `:473`), failed (`:126`, `:128`) or were stopped. The
  process can exit in the ordinary way while their flush is under way (`Released`). A
  shutdown that takes too long exits whatever is flushing (`base-command.ts:299`).
- An event of a workflow for which no owner is found makes the flush throw that it is
  part of (`insights-collection.service.ts:217`, "not supposed to happen") and goes back
  into the buffer with all others, from where it makes the next one throw: from then on
  nothing is stored.

*Engine.*

- Where an execution is resumed, `disabled` is set on the node of the stack's first
  item (`workflow-execute.ts:1393`, `waiting-webhooks.ts:52`), an object that all items
  share that the engine has put on the stack for this node (`:723`, `:994`, `:2059`).
  A second batch for the same Wait node is then passed over (`:1106`) without having
  waited.
- Progress is saved without `waitTill` while the row of an execution that a timer
  resumed still has it. After a crash, the retry of such an execution passes the
  *next* node over and takes the last run's data away, or fails on an empty stack
  (`workflow-execute.ts:1391`). A webhook clears the row first. `BatchesKept` and
  its companions except these executions (`marred`).
- The hook of a node that waits runs before the node is put back on the stack
  (`workflow-execute.ts:1804`): a crash between the two loses what it had taken.
- Progress is saved before the waiting nodes are looked at: a retry of what was
  saved with an empty stack ends as a success with nodes left waiting. So does an
  execution whose last node returns null, which skips that look
  (`workflow-execute.ts:1667`; `unchecked`).
- In a cycle two nodes may wait for each other, and the execution is a success.
- After the destination, and after a node that the filter drops, the loop
  continues without a look at the waiting nodes (`workflow-execute.ts:1524`,
  `:1830`). When the dropped node comes last, a Merge that could run without the
  rest is left waiting, and the destination behind it is not reached.
- The progress that is saved of a manual execution has an empty `startData`
  (`save-execution-progress.ts`): its retry after a crash runs without destination
  and filter. From then on run and row differ in what has been handed on, so that
  `marred` covers this crash as well.
- The first of these also makes the chosen node's own run disappear: it had run, its
  run is taken away with the wait, and when another node is passed over in its
  place nothing runs it again. `DestinationIsReached` excepts `marred` for this, and
  the last of the workflows (`Around`) is one where it happens.

*Partial execution.* An execution whose recreated stack is empty runs nothing and
ends as a success. That happens

- when a start node has a source that has not run: what there is of its input
  becomes a waiting entry (`recreate-node-execution-stack.ts:168`), and nothing on
  the stack ever leads the engine to look at it. A Merge behind a branch that was
  not taken cannot be executed alone;
- when a node upstream has failed or sent nothing: `isDirty` does not look at
  errors (`find-start-nodes.ts:29`, "not implemented yet"), only outputs with
  items are followed, and there is no start node;
- when a cycle is not recognised. `getStronglyConnectedComponents`, which "returns
  all strongly connected components" (`directed-graph.ts:313`), takes only the
  nodes off its stack that have the low link of the root
  (`directed-graph.ts:392`); with A to B, B to C, and back from C to B and from B
  to A, and C visited before A, C has another one and the component is not found.
  The start node stays where it is in the cycle, and the cleaning removes the data
  of its own source.

Also, when a start node's sources have all run but one sent nothing to that
output, the data of the later inputs moves to the lower ones
(`recreate-node-execution-stack.ts:150`), and a second group that begins at a later
input starts at the first; of a source that ran several times only the first
batch with items is used. `handleCycles` keeps components of one node, which its
comment says it filters out (`handle-cycles.ts:26`); replacing such a node by
itself changes nothing.

The arrays of a waiting entry are as long as the highest input with data
(`recreate-node-execution-stack.ts:32`), and completeness is judged by the nulls in it
(`workflow-execute.ts:700-716`). A node with three inputs whose first is there is
therefore run as soon as the second comes, without the third, which starts an entry of
its own when it comes. No property is about this; `NoLateData` looks for inputs that
the engine has filled in as empty, and here none is.

## 13. Not modelled

The map covers a small part of the repository's lines, and will: of its million
lines most are integrations (`nodes-base`, `nodes-langchain`), the editor,
entities, migrations and controllers: input and output, or pure functions of
large data, without a protocol of their own. The modules are about the code that
decides who runs, when and with what. Of that code the following is left out:

- The active workflow manager with triggers, pollers and pub/sub commands; the
  runner process and its restart loop; the evaluation test runner; the chat
  server: see `components` in `PROJECT.json`.
- Engine: cancellation, the legacy execution order, required inputs given as a number,
  data that recovery makes up, and the order of more than ten waiting entries
  (their indexes are sorted as strings).
- Partial execution: disabled nodes and pinned data, tools and the rewiring for
  them, connections other than main, the choice among several triggers, the older
  flow (`runPartialWorkflow`). A node whose only run a retry has taken away has an
  empty list of runs, which the code takes for data and the model for none.
- Lifecycle: errors of the database within a step, the settings that do not save
  an execution, the resumption of a parent when its child ends, streaming.
  `removeAll` of an enabled limiter: its only caller disables the limiter first.
- Broker: data, node-type and RPC messages, the runner's idle timer and orderly
  stop, the sandboxes; the identity of a connection apart from its runner's
  (`task-broker-ws-server.ts:160`: `removeConnection` awaits the disconnect
  analyser before it deregisters a runner that may be back by then); the
  heartbeat loop (`task-broker-ws-server.ts:65`); the promise that
  `getRunnerOrFailTask` rejects when data arrives after the end of a task
  (`task-broker.service.ts:338`).
- Leader: activation of workflows and hard deletion; queue recovery as a service
  of the leader (its check is in `ScalingQueue`).
- Third-party services and libraries: Redis and Bull are modelled as external, as
  far as the code relies on them.

## 14. Running the checks

`tlc -config <name>.cfg <module>` with the module and configuration of a run in
`PROJECT.json`; the MC modules give the constants their values. `tlapm` with one
of the eight proof modules checks its proofs.

Beside an operation a module may define the same operation with a plausible
slip in it (`DeregisterKeepsTasks`, `LatestWaitingNodeIndex`...). No specification
uses these: put in the place of the real one, each makes the property listed
with it under `mutants` fail, which shows that the property depends on the
code's doing what it does.
