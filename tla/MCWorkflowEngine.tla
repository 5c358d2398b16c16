--------------------------- MODULE MCWorkflowEngine ---------------------------
(* Instances of WorkflowEngine: small workflows of the shapes that make the engine decide. *)
EXTENDS PartialExecution

CONSTANTS T, A, B, C, D, M, N

RankValue == (T :> 0) @@ (A :> 1) @@ (B :> 2) @@ (C :> 3) @@ (D :> 4) @@ (M :> 5) @@ (N :> 6)

Link(from, output, to, input) == [from |-> from, output |-> output, to |-> to, input |-> input]
\* links, the inputs required by M and N, what nodes may do besides succeeding
Shape(links, required, may, saveProgress) ==
    [links |-> links, required |-> required @@ [n \in Nodes |-> {}],
     may |-> may @@ [n \in Nodes |-> {}], saveProgress |-> saveProgress,
     destinations |-> {}, edited |-> {}, loops |-> {}]
\* a workflow in which single nodes are executed
Edited(links, destinations, edited, loops) ==
    [Shape(links, M :> {}, A :> {"fail"}, FALSE) EXCEPT !.destinations = destinations,
         !.edited = edited, !.loops = loops]

\* Two branches that meet: A and B into M, then C.
Diamond == {Link(T, 0, A, 0), Link(T, 1, B, 0), Link(A, 0, M, 0), Link(B, 0, M, 1), Link(M, 0, C, 0)}
\* A meeting, N, that depends on another and is reached first.
Nested == {Link(T, 0, A, 0), Link(T, 1, B, 0), Link(T, 2, N, 1), Link(A, 0, M, 0), Link(B, 0, M, 1),
           Link(M, 0, N, 0), Link(N, 0, C, 0)}
\* Two meetings side by side.
Apart == {Link(T, 0, M, 0), Link(T, 1, M, 1), Link(T, 2, N, 0), Link(T, 3, N, 1)}
\* Three branches into one input, one into the other.
Crowded == {Link(T, 0, A, 0), Link(T, 0, B, 0), Link(T, 0, C, 0), Link(T, 0, D, 0),
            Link(A, 0, M, 0), Link(B, 0, M, 0), Link(C, 0, M, 1), Link(D, 0, M, 0)}
\* A loop whose body ends in two branches that meet.
Loop == {Link(T, 0, A, 0), Link(A, 0, B, 0), Link(A, 0, C, 0), Link(B, 0, M, 0), Link(C, 0, M, 1),
         Link(M, 0, A, 0), Link(A, 1, D, 0)}
\* A loop that goes round beside the meeting: entries pile up.
Pile == {Link(T, 0, A, 0), Link(A, 0, M, 0), Link(A, 1, A, 0), Link(A, 2, B, 0), Link(B, 0, M, 1)}
\* Two meetings that depend on each other.
Mutual == {Link(T, 0, M, 0), Link(T, 1, N, 0), Link(M, 0, N, 1), Link(N, 0, M, 1)}

\* A node that is sent to twice by one, and again by another beside it.
Twice == {Link(T, 0, A, 0), Link(T, 0, B, 0), Link(T, 1, B, 0), Link(A, 0, B, 0), Link(B, 0, C, 0)}
\* Three branches that meet.
Three == {Link(T, 0, A, 0), Link(T, 1, B, 0), Link(T, 2, C, 0), Link(A, 0, M, 0), Link(B, 0, M, 1),
          Link(C, 0, M, 2)}

\* A branch that a node can be reached without.
Skip == {Link(T, 0, A, 0), Link(A, 0, B, 0), Link(T, 1, B, 0), Link(B, 0, C, 0)}
\* A loop node with two nodes in its body, and one after it.
Batches == {Link(T, 0, A, 0), Link(A, 1, B, 0), Link(B, 0, C, 0), Link(C, 0, A, 0), Link(A, 0, D, 0)}
\* A node that is reached at once and again by way of another.
Around == {Link(T, 0, A, 0), Link(T, 0, B, 0), Link(B, 1, A, 0)}
\* Two cycles that share a node.
Cycles == {Link(T, 0, A, 0), Link(A, 0, B, 0), Link(B, 0, C, 0), Link(C, 0, B, 0), Link(B, 0, A, 0),
           Link(C, 1, D, 0)}

AllMay(what) == [n \in Nodes |-> what]
EngineWorkflows ==
    {Shape(Diamond, r, AllMay({"fail"}), p) : r \in {M :> {}, M :> {0}, M :> {0, 1}}, p \in BOOLEAN}
    \cup {Shape(Diamond, M :> {}, (A :> {"wait"}) @@ (B :> {"end", "wait"}) @@ (C :> {"fail"}), p) : p \in BOOLEAN}
    \cup {Shape(Twice, M :> {}, (A :> {"wait"}) @@ (B :> {"wait", "fail"}), p) : p \in BOOLEAN}
    \cup {Shape(Nested, r, (A :> {"wait"}) @@ (B :> {"end"}) @@ (M :> {"fail"}), TRUE) :
             r \in {M :> {}, M :> {0, 1}, (M :> {1}) @@ (N :> {1})}}
    \cup {Shape(Apart, N :> r, T :> {}, FALSE) : r \in {{}, {0}, {0, 1}}}
    \cup {Edited(Diamond, {M, C}, {A, B}, {}), Edited(Skip, {A, B, C}, {A}, {}),
          Edited(Batches, {C, D}, {B}, {A}), Edited(Cycles, {D}, {}, {}),
          Edited(Nested, {M, N}, {B}, {}), [Edited(Three, {M}, {A, B, C}, {}) EXCEPT !.may[M] = {"wait"}],
          [Edited(Diamond, {B}, {}, {}) EXCEPT !.saveProgress = TRUE],
          [Edited(Around, {A}, {}, {}) EXCEPT !.saveProgress = TRUE, !.may[T] = {"wait"}]}
    \cup {Shape(l, M :> {}, (B :> {"fail", "end"}), FALSE) : l \in {Crowded, Loop, Pile, Mutual}}
BothWays == {Rank, [n \in Nodes |-> IF n = T THEN 0 ELSE Cardinality(Nodes) - Rank[n]]}
CrowdedWorkflow == {Shape(Crowded, M :> {}, A :> {}, FALSE)}

-----------------------------------------------------------------------------
(* The searches of findSubgraph and findStartNodes as the code makes them, branch by branch, *)
(* against what PartialExecution says they find: on every graph of four nodes and on the     *)
(* graphs above.                                                                             *)

RECURSIVE BranchesBack(_, _, _, _)
\* Back from node n to the trigger, or to a node that is on the branch already; a branch that
\* comes back to the destination is dropped.
BranchesBack(links, d, n, branch) ==
    LET visited == {l.to : l \in branch}
    IN  IF n = Start THEN branch
        ELSE IF n \notin visited
        THEN UNION {BranchesBack(links, d, l.from, branch \cup {l}) : l \in {k \in links : k.to = n}}
        ELSE IF n = d THEN {} ELSE branch

RECURSIVE BranchesDown(_, _, _, _)
BranchesDown(links, stops, n, seen) ==
    IF n \in stops THEN {n} ELSE IF n \in seen THEN {}
    ELSE UNION {BranchesDown(links, stops, l.to, seen \cup {n}) : l \in {k \in links : k.from = n}}

Graphs(nodes) == SUBSET [from : nodes, to : nodes \ {T}]
Shapes == {Diamond, Nested, Apart, Crowded, Loop, Pile, Mutual, Skip, Batches, Cycles}
ASSUME BackIsFound ==
    \A g \in Graphs({T, A, B, C}) \cup Shapes : \A d \in UNION {{l.from, l.to} : l \in g} :
        LinksBack(g, d) = BranchesBack(g, d, d, {})
ASSUME StartsAreFound ==
    \A g \in Graphs({T, A, B}) \cup Shapes : \A stops \in SUBSET UNION {{l.from, l.to} : l \in g} :
        FirstStops(g, stops) = BranchesDown(g, stops, T, {})
=============================================================================
