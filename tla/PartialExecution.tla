--------------------------- MODULE PartialExecution ---------------------------
(***************************************************************************)
(* A user executes one node of a workflow that has been executed before     *)
(* (runPartialWorkflow2).  What that execution has left is used as far as   *)
(* possible: the nodes that have to run again are found, the data of all    *)
(* that depends on them is thrown away, and stack and waiting entries are   *)
(* put together as if the engine had just come to the nodes to start from.  *)
(* From there on it is the engine of WorkflowEngine.                        *)
(*                                                                         *)
(* Nodes have one trigger, Start, and only main inputs; none is disabled or *)
(* pinned.  The order in which a graph keeps its nodes and connections      *)
(* depends on how it was put together: Orders says which ones are looked    *)
(* at.  `repeats` counts the partial executions.                            *)
(***************************************************************************)
EXTENDS WorkflowEngine

CONSTANTS
    Orders,         \* injective functions from nodes to numbers
    MaxRepeats      \* bound: partial executions, one upon the other

\* A trigger has no inputs.
ASSUME PartialAssumption ==
    /\ \A rank \in Orders : rank \in [Nodes -> Nat] /\ IsInjective(rank)
    /\ \A w \in Workflows : \A l \in w.links : l.to # Start

-----------------------------------------------------------------------------
(* The part of the workflow that leads from the trigger to the destination *)

\* The nodes and what can be reached from them along the links.
Reach(links, ns) ==
    LET reached[k \in Nat] ==
            IF k = 0 THEN ns
            ELSE LET before == reached[k - 1]
                 IN  before \cup {l.to : l \in {m \in links : m.from \in before}}
    IN  reached[Cardinality(Nodes)]

\* The links of the branches that lead back from d to the trigger, or round a cycle that d
\* is not on: a source is followed if it is the trigger or again has such a source.
LinksBack(links, d) ==
    LET followed == UNION {ns \in SUBSET (Nodes \ {Start, d}) :
                       \A n \in ns : \E l \in links : l.to = n /\ l.from \in ns \cup {Start}}
        back == {l \in links : l.from \in followed \cup {Start} /\ l.to # Start}
        above == Reach({[from |-> l.to, to |-> l.from] : l \in back}, {d} \ {Start})
    IN  {l \in back : l.to \in above}

Ends(links) == UNION {{l.from, l.to} : l \in links}

\* A slip: the destination is not part of it.
SubgraphBefore(d) ==
    LET links == LinksBack(workflow.links, d)
    IN  [nodes |-> {Start} \cup {l.from : l \in links}, links |-> links]

Subgraph(d) ==
    LET links == LinksBack(workflow.links, d)
    IN  [nodes |-> {Start} \cup Ends(links), links |-> links]

\* The nodes and all that can be reached from them.
Below(graph, ns) == Reach(graph.links, ns)

\* A slip: what comes after the nodes is kept.
CleanNodesOnly(runData, graph, ns) ==
    [n \in Nodes |-> IF n \in ns \/ n \notin graph.nodes THEN <<>> ELSE runData[n]]

\* What is left when the data of the nodes, of what comes after them and of what is not in
\* the graph is thrown away.
CleanRunData(runData, graph, ns) ==
    LET below == Below(graph, ns)
    IN  [n \in Nodes |-> IF n \in below \/ n \notin graph.nodes THEN <<>> ELSE runData[n]]

-----------------------------------------------------------------------------
(* Where to start *)

RunsWithItems(runData, n, output) == {k \in DOMAIN runData[n] : output \in runData[n][k].outs}
IsDirty(runData, n) == runData[n] = <<>>
\* A loop node whose `done` output had no items in the end has not been through.
LoopIsOpen(runData, n) == n \in workflow.loops /\ 0 \notin Last(runData[n]).outs

\* On every branch from the trigger the first node where the search stops.
FirstStops(links, stops) == stops \cap Reach({l \in links : l.from \notin stops}, {Start})

\* On every branch that has items: the first node that has to run.
FindStartNodes(graph, runData, d) ==
    FirstStops({l \in graph.links : RunsWithItems(runData, l.from, l.output) # {}},
               {n \in graph.nodes : IsDirty(runData, n) \/ n = d \/ LoopIsOpen(runData, n)})

\* The members of a set one after the other: in the k-th place is the one k - 1 come before.
Sorted(set, place) ==
    [k \in 1..Cardinality(set) |->
        CHOOSE x \in set : Cardinality({y \in set : place[y] < place[x]}) = k - 1]
Children(graph, rank, n) == Sorted({l.to : l \in {m \in graph.links : m.from = n}}, rank)

\* Tarjan's algorithm: `low` are the low links, from 1 in the order of the first visit, and 0
\* before, `found` the components.
Search == [low : [Nodes -> Nat], stack : Seq(Nodes), found : SUBSET SUBSET Nodes]
Seen(s) == {n \in Nodes : s.low[n] > 0}
Enter(s, n) == [s EXCEPT !.low[n] = Cardinality(Seen(s)) + 1, !.stack = <<n>> \o @]
Lower(s, n, child) ==
    IF child \in Range(s.stack) THEN [s EXCEPT !.low[n] = Min({@, s.low[child]})] ELSE s
\* Only the nodes on top of the stack that have the low link of their root are taken off;
\* those below stay, and a component none of them can be taken from is not found.
Leave(s, n, id) ==
    LET others == {k \in DOMAIN s.stack : s.low[s.stack[k]] # id}
        size == IF others = {} THEN Len(s.stack) ELSE Min(others) - 1
    IN  IF s.low[n] # id \/ size = 0 THEN s
        ELSE [s EXCEPT !.stack = SubSeq(@, size + 1, Len(@)),
                       !.found = @ \cup {Range(SubSeq(s.stack, 1, size))}]

\* followNode, where `follow` says what it makes of the children.
FollowNode(children, follow, s, n) ==
    LET after[k \in 0..Len(children)] ==
            IF k = 0 THEN Enter(s, n)
            ELSE LET r == after[k - 1] IN Lower(follow[<<r, children[k]>>], n, children[k])
    IN  IF s.low[n] > 0 THEN s ELSE Leave(after[Len(children)], n, Cardinality(Seen(s)) + 1)
Components(graph, rank) ==
    LET follow[x \in Search \X Nodes] ==
            FollowNode(Children(graph, rank, x[2]), follow, x[1], x[2])
        inTurn == Sorted(graph.nodes, rank)
        after[k \in 0..Len(inTurn)] ==
            IF k = 0 THEN [low |-> [n \in Nodes |-> 0], stack |-> <<>>, found |-> {}]
            ELSE LET s == after[k - 1] IN follow[<<s, inTurn[k]>>]
    IN  after[Len(inTurn)].found

\* The nodes in the order of a depth-first search; the first that is in the component.
VisitNode(children, visit, visited, n) ==
    LET after[k \in 0..Len(children)] ==
            IF k = 0 THEN Append(visited, n) ELSE LET v == after[k - 1] IN visit[<<v, children[k]>>]
    IN  IF n \in Range(visited) THEN visited ELSE after[Len(children)]
FirstOf(graph, rank, component) ==
    LET visit[x \in Seq(Nodes) \X Nodes] ==
            VisitNode(Children(graph, rank, x[2]), visit, x[1], x[2])
        visited == visit[<< <<>>, Start >>]
    IN  visited[Min({k \in DOMAIN visited : visited[k] \in component})]

\* A start node inside a cycle is replaced by the first node of the cycle.
StartOf(graph, rank, n) ==
    LET around == {c \in Components(graph, rank) : n \in c}
    IN  IF around = {} THEN n ELSE FirstOf(graph, rank, CHOOSE c \in around : TRUE)
HandleCycles(graph, rank, starts) == {StartOf(graph, rank, n) : n \in starts}

-----------------------------------------------------------------------------
(* The stack and the waiting entries *)

\* One link per input, from the lowest on as far as there is one for each; those whose
\* source has run come first.
FirstGroup(links, runData, rank) ==
    LET at(i) == {l \in links : l.input = i}
        inputs == {i \in {l.input : l \in links} :
                      \A j \in Min({l.input : l \in links})..i : at(j) # {}}
        ready(i) == {l \in at(i) : runData[l.from] # <<>>}
        Earlier(k, l) == \/ rank[k.from] < rank[l.from]
                         \/ k.from = l.from /\ k.output < l.output
        Pick(i) == CHOOSE l \in IF ready(i) # {} THEN ready(i) ELSE at(i) :
                      \A k \in IF ready(i) # {} THEN ready(i) ELSE at(i) : k = l \/ Earlier(l, k)
    IN  {Pick(i) : i \in inputs}

\* The links in such groups, until none is left.
SourceGroups(links, runData, rank) ==
    LET left[k \in Nat] == IF k = 0 THEN links
                           ELSE LET rest == left[k - 1]
                                IN  rest \ FirstGroup(rest, runData, rank)
        count == Min({k \in 0..Cardinality(links) : left[k] = {}})
    IN  [k \in 1..count |-> FirstGroup(left[k - 1], runData, rank)]

\* The items of the first run of the source that had any.
HasBatch(runData, l) == RunsWithItems(runData, l.from, l.output) # {}
Batch(runData, l) == <<l.from, Min(RunsWithItems(runData, l.from, l.output)) - 1, l.output>>

\* When all sources of a group have run, what there is of their items becomes the node's
\* input, one after the other; otherwise it waits at its inputs, and those it lacks are not set.
AddGroup(r, n, group) ==
    LET with == {l \in group : HasBatch(r.runData, l)}
        inTurn == Sorted(with, [l \in with |-> l.input])
        data == [k \in 0..(Cardinality(with) - 1) |-> Batch(r.runData, inTurn[k + 1])]
        entry == [i \in {l.input : l \in with} |->
                     Batch(r.runData, CHOOSE l \in with : l.input = i)]
        k == Cardinality(DOMAIN r.waiting[n])
    IN  IF \A l \in group : r.runData[l.from] # <<>>
        THEN [r EXCEPT !.stack = Append(@, Item(n, data))]
        ELSE IF with = {} THEN r
        ELSE [r EXCEPT !.waiting[n] = [j \in DOMAIN @ \cup {k} |-> IF j = k THEN entry ELSE @[j]],
                       !.order = IF k = 0 THEN Append(@, n) ELSE @]

\* A start node that nothing leads to gets an empty item.
AddStart(r, graph, rank, n) ==
    LET links == {l \in graph.links : l.to = n}
        groups == SourceGroups(links, r.runData, rank)
        added[k \in 0..Len(groups)] ==
            IF k = 0 THEN r ELSE LET s == added[k - 1] IN AddGroup(s, n, groups[k])
    IN  IF links = {} THEN [r EXCEPT !.stack = Append(@, Item(n, [i \in {0} |-> Given]))]
        ELSE added[Len(groups)]

RecreateStack(r, graph, rank, starts) ==
    LET inTurn == Sorted(starts, rank)
        started[k \in 0..Len(inTurn)] ==
            IF k = 0 THEN r ELSE LET s == started[k - 1] IN AddStart(s, graph, rank, inTurn[k])
    IN  started[Len(inTurn)]

-----------------------------------------------------------------------------

\* runPartialWorkflow2, on the data of the execution before: a new execution of what the
\* destination d needs.  `edited` are the nodes the user has changed since.
ExecuteNode(d, edited, rank) ==
    /\ run.status = "none" /\ row.status \in {"success", "error"}
    /\ row.repeats < MaxRepeats
    /\ d \in Reach(workflow.links, {Start})
    /\ \E graph \in {Subgraph(d)} :
       \E known \in {CleanRunData(row.runData, graph, edited \cap graph.nodes)} :
       \E starts \in {HandleCycles(graph, rank, FindStartNodes(graph, known, d))} :
          LET data == CleanRunData(known, graph, starts)
              new == [Blank EXCEPT !.runData = data, !.kept = [n \in Nodes |-> Len(data[n])],
                                   !.destination = d, !.filter = graph.nodes,
                                   !.repeats = row.repeats + 1]
          IN  run' = RecreateStack(new, graph, rank, starts)
    /\ row' = [Blank EXCEPT !.repeats = row.repeats + 1]
    /\ UNCHANGED <<workflow, crashes>>

RepeatNext ==
    \/ Next
    \/ \E d \in workflow.destinations, edited \in SUBSET workflow.edited, rank \in Orders :
          ExecuteNode(d, edited, rank)

RepeatSpec == Init /\ [][RepeatNext]_vars

-----------------------------------------------------------------------------
(* Properties *)

Kept(n) == run.kept[n] > 0

\* No old result is mixed with a new one: a node whose data is kept is not run again, and
\* neither is any node that its data comes from.  What is thrown away is decided on the
\* subgraph, what runs by the engine on the whole workflow and the filter.
NoStaleMix ==
    \A n \in Nodes : Kept(n) =>
        /\ Len(run.runData[n]) = run.kept[n]
        /\ \A l \in Followed(run) : l.to = n =>
              Len(run.runData[l.from]) = run.kept[l.from]

\* The nodes the items get to from the trigger, on ways that end with the destination.
Reached(r) ==
    Reach({l \in workflow.links : /\ l.from # r.destination
                                  /\ RunsWithItems(r.runData, l.from, l.output) # {}}, {Start})

\* When the engine has nothing more to do, the destination has run, or waits for input, or
\* the items did not get there: on every way from the trigger there is a node without output
\* for the next.  A crash that left the row out of step with a wait is the exception (README).
DestinationIsReached ==
    LET d == run.destination
    IN  run.status = "running" /\ run.stack = <<>> /\ ~run.marred /\ d \in Reached(run) =>
            \/ Len(run.runData[d]) > run.kept[d] \/ d \in {x.node : x \in run.silent}
            \/ d \in Range(run.order)
=============================================================================
