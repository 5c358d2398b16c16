---------------------------- MODULE WorkflowEngine ----------------------------
(***************************************************************************)
(* One execution of a workflow in WorkflowExecute.processRunExecutionData,  *)
(* execution order v1.  A step of the engine is one turn of the loop: the   *)
(* node on top of the stack runs, what it outputs is handed to the nodes it *)
(* is connected to, and when the stack has run empty a node that still      *)
(* lacks input may be run without it.  A node with several inputs is kept   *)
(* in waitingExecution until each of them has data.                         *)
(*                                                                         *)
(* The process may end between any two steps.  The row holds what the hooks *)
(* have saved: the end of a run and, where the workflow asks for it, every  *)
(* node's.  A waiting execution is resumed by a timer or a webhook, and one *)
(* that failed or crashed is retried, from the row.                         *)
(*                                                                         *)
(* The items that an output carries are one batch, named by the node, its   *)
(* run and the output, which is what the code records as their source.     *)
(***************************************************************************)
EXTENDS Naturals, FiniteSets, Sequences, SequencesExt

CONSTANTS
    Nodes, Start,
    Rank,              \* Rank[n]: the place of n on the canvas, top-left first
    Workflows,         \* links, required inputs, what nodes may do, saveProgress, the
                       \* destinations a user may choose and what else is special about it
    NoNode,
    Given,             \* the items the execution is started with
    Missing, Empty,    \* an input without data (null), and with no items ([])
    MaxRuns,           \* bound: a node that has run so often outputs nothing
    MaxCrashes

\* What a node has output in one of its runs on one of its outputs.
AllBatches == Nodes \X Nat \X Nat
Links == [from : Nodes, output : Nat, to : Nodes, input : Nat]

ASSUME EngineAssumption ==
    /\ IsFiniteSet(Nodes) /\ Start \in Nodes /\ NoNode \notin Nodes
    /\ Rank \in [Nodes -> Nat] /\ IsInjective(Rank)
    /\ \A w \in Workflows :
          /\ w.links \subseteq Links /\ IsFiniteSet(w.links)
          /\ w.destinations \subseteq Nodes
    /\ Missing # Empty /\ Given \notin {Missing, Empty}
    /\ Given \notin AllBatches /\ Missing \notin AllBatches /\ Empty \notin AllBatches

VARIABLES
    workflow,
    run,               \* runExecutionData in the process and how the run stands
    row,               \* the same in the database
    crashes
vars == <<workflow, run, row, crashes>>

(* stack, waiting (waitingExecution: the entries of a node by their index), *)
(* order (of its keys), runData, last (lastNodeExecuted), waitTill,         *)
(* destination and filter (runNodeFilter) are the code's; stored says that  *)
(* the row has the engine's data.  For the properties: kept, how many runs  *)
(* of a node are from the execution before; silent, what was taken by runs  *)
(* that returned null and have no runData; waited, what has put the         *)
(* execution to wait and what shared its node's object; misplaced, nodes    *)
(* whose entries were numbered over one another; unchecked, nothing has     *)
(* looked at the waiting nodes since; marred, the process ended when the    *)
(* row was not in step with a wait or did not know the destination.         *)

\* An item has a node's object, which it shares with the node's other items that the same
\* engine has made: 0 is the running engine's, higher are those that came with the row.
\* `disabled` is the object's.
Item(n, data) == [node |-> n, data |-> data, disabled |-> FALSE, object |-> 0]
Task(status, data, outs) == [status |-> status, data |-> data, outs |-> outs]

Blank ==
    [stack |-> <<>>, waiting |-> [n \in Nodes |-> <<>>], order |-> <<>>,
     runData |-> [n \in Nodes |-> <<>>], last |-> NoNode, waitTill |-> FALSE,
     destination |-> NoNode, filter |-> Nodes, stored |-> FALSE, status |-> "running",
     kept |-> [n \in Nodes |-> 0], silent |-> {}, waited |-> {}, misplaced |-> {},
     unchecked |-> TRUE, marred |-> FALSE, repeats |-> 0]

-----------------------------------------------------------------------------
(* The workflow's graph *)

LinksTo(n) == {l \in workflow.links : l.to = n}
Outputs(n) == {l.output : l \in {k \in workflow.links : k.from = n}}
Inputs(n) == 0..Max({l.input : l \in LinksTo(n)} \cup {0})
\* The nodes above n: what every set has that has n's sources and, with a node, the node's.
Closed == {ns \in SUBSET Nodes : \A l \in workflow.links : l.to \in ns => l.from \in ns}
Ancestors(n) ==
    LET closed == {ns \in Closed : \A l \in LinksTo(n) : l.from \in ns}
    IN  {m \in Nodes : \A ns \in closed : m \in ns}
Acyclic == \A n \in Nodes : n \notin Ancestors(n)
May(n, what) == what \in workflow.may[n]

\* The row has the data of an execution that a trigger starts, and none of one that a user
\* starts; a user may choose a destination.
Init ==
    LET started == [Blank EXCEPT !.stack = <<Item(Start, [i \in {0} |-> Given])>>]
    IN  /\ workflow \in Workflows
        /\ crashes = 0
        /\ \/ /\ run = [started EXCEPT !.stored = TRUE]
              /\ row = run
           \/ \E d \in workflow.destinations :
                 /\ run = [started EXCEPT !.destination = d, !.filter = Ancestors(d) \cup {d}]
                 /\ row = Blank

-----------------------------------------------------------------------------
(* Handing on what a node has output *)

\* The nodes further down are added first, so that those above end on top of the stack.
AddedBefore(k, l) ==
    \/ Rank[k.to] > Rank[l.to]
    \/ k.to = l.to /\ k.output < l.output
    \/ k.to = l.to /\ k.output = l.output /\ k.input < l.input
NodesToAdd(n, outs) ==
    CHOOSE s \in SetToSeqs({l \in workflow.links : l.from = n /\ l.output \in outs}) :
        \A i, j \in DOMAIN s : i < j => AddedBefore(s[i], s[j])

\* The inputs of an entry that are not in its domain have never been set (undefined): the
\* engine makes entries of full length, with null for what is missing.
HasInput(entry, input) == input \in DOMAIN entry /\ entry[input] # Missing
LackingIn(entries, input) == {k \in DOMAIN entries : ~HasInput(entries[k], input)}

\* A slip: the last that lacks it.
LatestWaitingNodeIndex(entries, input) ==
    LET lacking == LackingIn(entries, input)
    IN  IF lacking # {} THEN Max(lacking) ELSE Cardinality(DOMAIN entries)

\* The entry that a batch for an input goes to: the first that lacks it, or a new one
\* whose index is the number of entries there are.
WaitingNodeIndex(entries, input) ==
    LET lacking == LackingIn(entries, input)
    IN  IF lacking # {} THEN Min(lacking) ELSE Cardinality(DOMAIN entries)

\* A slip: the entry that has gone to the stack stays.
KeepEntry(r, n, k) == r

RemoveEntry(r, n, k) ==
    LET left == [i \in DOMAIN r.waiting[n] \ {k} |-> r.waiting[n][i]]
    IN  [r EXCEPT !.waiting[n] = left,
                  !.order = IF DOMAIN left = {} THEN RemoveFirst(@, n) ELSE @]

\* An entry is complete when no input is null.
AddNodeToBeExecuted(r, link, batch) ==
    LET n == link.to
        entries == r.waiting[n]
        k == WaitingNodeIndex(entries, link.input)
        new == LackingIn(entries, link.input) = {}
        old == IF new THEN [i \in Inputs(n) |-> Missing] ELSE entries[k]
        entry == [i \in DOMAIN old \cup {link.input} |->
                     IF i = link.input THEN batch ELSE old[i]]
        all == [j \in DOMAIN entries \cup {k} |-> IF j = k THEN entry ELSE entries[j]]
        placed == [r EXCEPT !.misplaced =
                      IF new /\ DOMAIN entries # 0..(k - 1) THEN @ \cup {n} ELSE @]
    IN  IF Missing \notin Range(entry)
        THEN [RemoveEntry(placed, n, k) EXCEPT !.stack = <<Item(n, entry)>> \o @]
        ELSE [placed EXCEPT !.waiting[n] = all,
                            !.order = IF DOMAIN entries = {} THEN Append(@, n) ELSE @]

\* What run `index` of the node has output, link by link.
HandOn(r, n, index, links) ==
    LET Add(q, l) == AddNodeToBeExecuted(q, l, <<n, index, l.output>>)
    IN  FoldLeft(Add, r, links)

\* A slip: nodes it depends on are not looked at.
CanRunAnyway(r, n) ==
    LET first == r.waiting[n][Min(DOMAIN r.waiting[n])]
    IN  /\ workflow.required[n] # Inputs(n)
        /\ \A i \in workflow.required[n] : HasInput(first, i)

\* Whether a waiting node may run without the data that is missing: not if all its inputs
\* are required, or one that is missing, or if a node it depends on waits too.
CanRun(r, n) ==
    LET first == r.waiting[n][Min(DOMAIN r.waiting[n])]
    IN  /\ workflow.required[n] # Inputs(n)
        /\ Ancestors(n) \cap Range(r.order) \subseteq {n}
        /\ \A i \in workflow.required[n] : HasInput(first, i)

Fill(n, entry) == [i \in Inputs(n) |-> IF HasInput(entry, i) THEN entry[i] ELSE Empty]

\* A slip: a waiting node that cannot run ends the search.
RunFirstWaiting(r) ==
    IF r.stack # <<>> \/ r.order = <<>> THEN r
    ELSE LET n == Head(r.order)
             k == Min(DOMAIN r.waiting[n])
         IN  IF ~CanRun(r, n) THEN r
             ELSE [RemoveEntry(r, n, k) EXCEPT !.stack = <<Item(n, Fill(n, r.waiting[n][k]))>>]

\* When the stack has run empty: the first waiting node that can run.
RunWaiting(r) ==
    LET ready == {k \in DOMAIN r.order : CanRun(r, r.order[k])}
        n == r.order[Min(ready)]
        k == Min(DOMAIN r.waiting[n])
    IN  IF r.stack # <<>> \/ ready = {} THEN r
        ELSE [RemoveEntry(r, n, k) EXCEPT !.stack = <<Item(n, Fill(n, r.waiting[n][k]))>>]

-----------------------------------------------------------------------------
(* One turn of the loop *)

Top == Head(run.stack)
Turn ==
    /\ run.status = "running" /\ run.stack # <<>> /\ Top.node \in run.filter
    /\ UNCHANGED <<workflow, crashes>>
HasItems(item) == \E i \in DOMAIN item.data : item.data[i] \notin {Missing, Empty}
Ran(r, n, task) == [r EXCEPT !.runData[n] = Append(@, task), !.last = n]

\* saveExecutionProgress: the row gets the engine's data and one more run of the node; what
\* else it has stays, or is empty when it had no data.
Progress(r, n, task) ==
    IF ~workflow.saveProgress THEN row
    ELSE [r EXCEPT !.runData = [row.runData EXCEPT ![n] = Append(@, task)],
                   !.waitTill = row.waitTill, !.stored = TRUE, !.kept = row.kept,
                   !.destination = row.destination, !.filter = row.filter]

\* A disabled node passes its first input on; without one the branch ends.
Outcomes(item) ==
    IF item.disabled /\ ~HasInput(item.data, 0) THEN {}
    ELSE IF item.disabled
    THEN {IF item.data[0] = Empty THEN {} ELSE {0} \cap Outputs(item.node)}
    ELSE IF Len(run.runData[item.node]) >= MaxRuns THEN {{}}
    ELSE SUBSET Outputs(item.node)

NodeSucceeds(outs) ==
    LET n == Top.node
        index == Len(run.runData[n])
        task == Task("success", Top.data, outs)
        ran == Ran([run EXCEPT !.stack = Tail(@), !.unchecked = FALSE], n, task)
        added == HandOn(ran, n, index, NodesToAdd(n, outs))
    IN  /\ Turn /\ HasItems(Top) /\ outs \in Outcomes(Top)
        /\ n # run.destination
        /\ run' = RunWaiting(added)
        /\ row' = Progress([added EXCEPT !.unchecked = TRUE], n, task)

\* What the destination outputs is handed to nobody, and the loop is continued at once.
DestinationSucceeds(outs) ==
    LET n == Top.node
        task == Task("success", Top.data, outs)
        ran == Ran([run EXCEPT !.stack = Tail(@), !.unchecked = TRUE], n, task)
    IN  /\ Turn /\ HasItems(Top) /\ outs \in Outcomes(Top)
        /\ n = run.destination
        /\ run' = ran
        /\ row' = Progress(ran, n, task)

\* runNodeFilter: a node that the destination does not need is dropped.
PassOver ==
    /\ run.status = "running" /\ run.stack # <<>> /\ Top.node \notin run.filter
    /\ run' = [run EXCEPT !.stack = Tail(@), !.unchecked = TRUE]
    /\ UNCHANGED <<workflow, row, crashes>>

\* The node returns null, or has nothing to work on: the branch ends, and the loop is
\* continued at once.
NodeReturnsNothing ==
    /\ Turn
    /\ IF Top.disabled THEN ~HasInput(Top.data, 0) ELSE May(Top.node, "end") \/ ~HasItems(Top)
    /\ \E last \in {run.last, Top.node} :
          run' = [run EXCEPT !.stack = Tail(@), !.silent = @ \cup {Top}, !.last = last,
                             !.unchecked = TRUE]
    /\ UNCHANGED row

\* The node goes back on the stack, from where it can be retried.
NodeFails ==
    LET task == Task("error", Top.data, {})
        failed == [Ran(run, Top.node, task) EXCEPT !.status = "error"]
    IN  /\ Turn /\ May(Top.node, "fail") /\ HasItems(Top) /\ ~Top.disabled
        /\ run' = failed
        /\ row' = Progress([failed EXCEPT !.status = "running"], Top.node, task)

\* The items that have the node's object in common with x.
Sharing(s, x) == {y \in Range(s) : y.node = x.node /\ y.object = x.object}

\* The hook runs before the node is put back on the stack.
NodeWaits ==
    LET task == Task("waiting", Top.data, {})
        beside == {<<x.node, x.data>> : x \in Sharing(run.stack, Top)}
        ran == Ran([run EXCEPT !.waited = @ \cup beside], Top.node, task)
    IN  /\ Turn /\ May(Top.node, "wait") /\ HasItems(Top) /\ ~Top.disabled
        /\ run' = [ran EXCEPT !.waitTill = TRUE, !.status = "waiting"]
        /\ row' = Progress([ran EXCEPT !.stack = Tail(@)], Top.node, task)

-----------------------------------------------------------------------------
(* The ends of a run and what is started again from the row *)

\* workflowExecuteAfter saves the run.
Finish ==
    LET end == IF run.status = "running" THEN "success" ELSE run.status
    IN  /\ run.status \in {"running", "waiting", "error"}
        /\ run.status = "running" => run.stack = <<>>
        /\ row' = [run EXCEPT !.status = end, !.stored = TRUE]
        /\ run' = [run EXCEPT !.status = "none"]
        /\ UNCHANGED <<workflow, crashes>>

\* The process ends; the next one marks the row.
Crash ==
    /\ run.status # "none" /\ crashes < MaxCrashes
    /\ crashes' = crashes + 1
    /\ run' = [run EXCEPT !.status = "none"]
    /\ row' = [row EXCEPT !.status = "crashed",
                          !.marred = @ \/ (/\ workflow.saveProgress
                                          /\ \/ run.status = "waiting" \/ row.waitTill
                                             \/ row.destination # run.destination)]
    /\ UNCHANGED workflow

\* What is read from the row: no object is the new engine's own, and what was skipped in
\* an entry has become null.
ReadStack(s) ==
    LET own == \E i \in DOMAIN s : s[i].object = 0
    IN  [i \in DOMAIN s |-> [s[i] EXCEPT !.object = IF own THEN @ + 1 ELSE @]]
ReadEntry(entry) ==
    [i \in 0..Max(DOMAIN entry) |-> IF i \in DOMAIN entry THEN entry[i] ELSE Missing]
Read(r) ==
    [r EXCEPT !.stack = ReadStack(@),
              !.waiting = [n \in Nodes |-> [k \in DOMAIN @[n] |-> ReadEntry(@[n][k])]]]

\* The object of the node on top is marked, which passes over all that shares it.
Disable(s) ==
    [i \in DOMAIN s |-> [s[i] EXCEPT !.disabled = @ \/ s[i] \in Sharing(s, s[1])]]

\* A slip: the wait is not taken from the data.
RestartStillWaiting(r) ==
    IF r.waitTill
    THEN [Read(r) EXCEPT !.stack = Disable(@), !.runData[r.last] = Front(@)]
    ELSE Read(r)

\* processRunExecutionData: where the data has waitTill, the node on top is passed over
\* and the last run of the last node is taken away.
Restart(r) ==
    IF r.waitTill
    THEN [Read(r) EXCEPT !.stack = Disable(@), !.waitTill = FALSE, !.runData[r.last] = Front(@)]
    ELSE Read(r)

\* The timer hands the row's data to the engine as it is, and the row keeps it.
ResumeByTimer ==
    /\ run.status = "none" /\ row.status = "waiting"
    /\ row' = [row EXCEPT !.status = "running"]
    /\ run' = [Restart(row) EXCEPT !.status = "running", !.unchecked = TRUE]
    /\ UNCHANGED <<workflow, crashes>>

\* The webhook does the engine's work first, and the row keeps the result.
ResumeByWebhook ==
    /\ run.status = "none" /\ row.status = "waiting"
    /\ run' = [Restart(row) EXCEPT !.status = "running", !.unchecked = TRUE]
    /\ row' = run'
    /\ UNCHANGED <<workflow, crashes>>

\* ExecutionService.retry: an error at the end of the last node's runs is taken away.
WithoutError(r) ==
    IF r.last # NoNode /\ r.runData[r.last] # <<>> /\ Last(r.runData[r.last]).status = "error"
    THEN [r EXCEPT !.runData[r.last] = Front(@)] ELSE r

\* A new execution with the data of the row; without a node to pass over it fails at once.
Retry ==
    LET data == [WithoutError(row) EXCEPT !.status = "running", !.unchecked = TRUE]
    IN  /\ run.status = "none" /\ row.status \in {"error", "crashed"} /\ row.stored
        /\ data.waitTill => data.stack # <<>>
        /\ run' = Restart(data)
        /\ row' = data
        /\ UNCHANGED <<workflow, crashes>>

Next ==
    \/ run.stack # <<>> /\ \E outs \in SUBSET Outputs(Top.node) :
          NodeSucceeds(outs) \/ DestinationSucceeds(outs)
    \/ PassOver
    \/ NodeReturnsNothing
    \/ NodeFails
    \/ NodeWaits
    \/ Finish
    \/ Crash
    \/ ResumeByTimer
    \/ ResumeByWebhook
    \/ Retry

Spec == Init /\ [][Next]_vars

-----------------------------------------------------------------------------
(* Properties *)

\* What the runs of this execution have handed on, by link, and in how many places a batch is.
Followed(r) == {l \in workflow.links : l.from # r.destination /\ l.to \in r.filter}
HandedOn(r) ==
    UNION {{<<l, <<l.from, k - 1, l.output>> >> :
               k \in {j \in DOMAIN r.runData[l.from] :
                         j > r.kept[l.from] /\ l.output \in r.runData[l.from][j].outs}} :
               l \in Followed(r)}
Carries(data, input, b) == input \in DOMAIN data /\ data[input] = b
Succeeded(r, n) == {k \in DOMAIN r.runData[n] : r.runData[n][k].status = "success"}
Entries(r, n) == {r.waiting[n][k] : k \in DOMAIN r.waiting[n]}
PlacesOf(r, l, b) ==
    LET n == l.to
    IN  Cardinality({i \in DOMAIN r.stack : r.stack[i].node = n /\ Carries(r.stack[i].data, l.input, b)})
      + Cardinality({k \in DOMAIN r.waiting[n] : Carries(r.waiting[n][k], l.input, b)})
      + Cardinality({k \in Succeeded(r, n) : Carries(r.runData[n][k].data, l.input, b)})
      + Cardinality({x \in r.silent : x.node = n /\ Carries(x.data, l.input, b)})

\* Every batch that a node has handed on is in one place: on the stack, in a waiting
\* entry, or with the run that took it - none is lost and none is processed twice,
\* across failures, waits, crashes and retries.  It does not hold for a node whose entries
\* have been numbered over one another (see EveryBatchKept), nor after a crash that left the
\* row out of step with a wait, so that the retry passes the next node over, or without the
\* destination (README).
BatchesKept ==
    \A h \in HandedOn(run) :
        h[1].to \notin run.misplaced /\ ~run.marred => PlacesOf(run, h[1], h[2]) = 1

\* "There is currently no node waiting that does not already have data for the given input,
\* so create a new entry" (workflow-execute.ts:666): the new entry is beside those that
\* are there, and what they hold is kept.
EveryBatchKept ==
    \A h \in HandedOn(run) : PlacesOf(run, h[1], h[2]) = 1

\* What a node with several inputs receives from one round of a loop is not mixed with what
\* it receives from another: of two runs, one does not have the earlier batch of one
\* source and the later batch of another.
PairedInOrder ==
    \A n \in Nodes \ run.misplaced : ~run.marred =>
        \A x, y \in Entries(run, n) \cup {run.runData[n][k].data : k \in Succeeded(run, n)} :
        \A i, j \in DOMAIN x \cap DOMAIN y :
            LET both(k) == {x[k], y[k]} \cap {Given, Missing, Empty} = {}
                           /\ x[k][1] = y[k][1] /\ x[k][3] = y[k][3]
            IN  both(i) /\ both(j) /\ x[i][2] < y[i][2] => x[j][2] <= y[j][2]

\* A run that ends with success, and that looked at the waiting nodes when its stack had
\* run empty, leaves a node waiting only for an input that the node, or one it depends on,
\* requires.  (In a cycle nodes may wait for each other.)
NothingIsLeftWaiting ==
    row.status = "success" /\ ~row.unchecked /\ Acyclic =>
        \A n \in Range(row.order) : \E m \in (Ancestors(n) \cup {n}) \cap Range(row.order) :
            LET first == row.waiting[m][Min(DOMAIN row.waiting[m])]
            IN  \/ workflow.required[m] = Inputs(m)
                \/ \E i \in workflow.required[m] : ~HasInput(first, i)

\* Once a node has been run without some of its input, nothing more is sent to it: the
\* engine did not give up too early on what was still to come.  (An entry that a partial
\* execution has put together may be too short to show what it lacks, and a node of three
\* inputs be run with it: that is not counted here.)
RanShort(r) ==
    {n \in Nodes : \E k \in Succeeded(r, n) : Empty \in Range(r.runData[n][k].data)}
NoLateData ==
    [][\A n \in RanShort(run) \cap RanShort(run') :
          Acyclic /\ ~run'.marred =>
              \A h \in HandedOn(run') \ HandedOn(run) : h[1].to # n]_vars

\* A node that is passed over has put the execution to wait, with these items or with others
\* that shared its object: more of its items that the same engine had put on the stack.
OnlyWaitersArePassedOver ==
    \A i \in DOMAIN run.stack :
        run.stack[i].disabled /\ ~run.marred => <<run.stack[i].node, run.stack[i].data>> \in run.waited

=============================================================================
