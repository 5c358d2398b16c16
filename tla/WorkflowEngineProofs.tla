------------------------- MODULE WorkflowEngineProofs -------------------------
(***************************************************************************)
(* Theorems about one execution of a workflow: every batch that a node has  *)
(* handed on is in one place, the inputs of a node with several are paired  *)
(* in order, a node runs without some of its input only when nothing can    *)
(* come any more, and a node is passed over only if it has waited - for     *)
(* every workflow, across failures, waits, crashes and retries.             *)
(*                                                                         *)
(* What the stack, the waiting entries, the runs of the nodes and the runs  *)
(* without a result hold is looked at as one set, the contents of an        *)
(* execution: each step takes an element out, puts one in, or moves one.    *)
(***************************************************************************)
EXTENDS WorkflowEngine, FiniteSetTheorems, SequenceTheorems, WellFoundedInduction, TLAPS

-----------------------------------------------------------------------------
(* The invariant *)

Values == AllBatches \cup {Given, Missing, Empty}
Data == UNION {[D -> Values] : D \in SUBSET Nat}
Items == [node : Nodes, data : Data, disabled : BOOLEAN, object : Nat]
Tasks == [status : {"success", "error", "waiting"}, data : Data, outs : SUBSET Nat]

Waitings == [Nodes -> UNION {[D -> Data] : D \in SUBSET Nat}]

Records ==
    [stack : Seq(Items), waiting : Waitings,
     order : Seq(Nodes), runData : [Nodes -> Seq(Tasks)], last : Nodes \cup {NoNode},
     waitTill : BOOLEAN, destination : Nodes \cup {NoNode}, filter : SUBSET Nodes,
     stored : BOOLEAN,
     status : {"running", "waiting", "error", "success", "crashed", "none"},
     kept : [Nodes -> Nat], silent : SUBSET Items, waited : SUBSET (Nodes \X Data),
     misplaced : SUBSET Nodes, unchecked : BOOLEAN, marred : BOOLEAN, repeats : Nat]

\* What the inputs of a node that have been set may hold.
EntryOf(n) == UNION {[D -> AllBatches \cup {Missing}] : D \in (SUBSET Inputs(n)) \ {{}}}

\* Entries have something and lack something; the order names the nodes that have some.
WaitingOK(w, o) ==
    /\ IsInjective(o)
    /\ \A n \in Nodes :
          /\ n \in Range(o) <=> DOMAIN w[n] # {}
          /\ IsFiniteSet(DOMAIN w[n])
          /\ \A k \in DOMAIN w[n] :
                /\ w[n][k] \in EntryOf(n)
                /\ \E i \in Inputs(n) : ~HasInput(w[n][k], i)

\* What an execution holds, and where: each element is in a place of its own.
Held(at, n, data) == [at |-> at, node |-> n, data |-> data]
OnStack(s) == {Held(<<"stack", Len(s) + 1 - i>>, s[i].node, s[i].data) : i \in DOMAIN s}
InWaiting(w) ==
    UNION {{Held(<<"waiting", n, k>>, n, w[n][k]) : k \in DOMAIN w[n]} : n \in Nodes}
InRuns(d) ==
    UNION {{Held(<<"run", n, k>>, n, d[n][k].data) :
               k \in {j \in DOMAIN d[n] : d[n][j].status = "success"}} : n \in Nodes}
InSilent(xs) == {Held(<<"silent", x>>, x.node, x.data) : x \in xs}
Contents(r) == OnStack(r.stack) \cup InWaiting(r.waiting) \cup InRuns(r.runData) \cup InSilent(r.silent)
Waits(c) == c.at[1] = "waiting"

Has(c, l, b) == c.node = l.to /\ Carries(c.data, l.input, b)
Once(r, l, b) == \E c \in Contents(r) : Has(c, l, b) /\ \A d \in Contents(r) : Has(d, l, b) => d = c
Nowhere(r, l, b) == \A c \in Contents(r) : ~Has(c, l, b)

\* Each batch that is somewhere has been output.
Known(r, b) == b[2] + 1 \in DOMAIN r.runData[b[1]] /\ b[3] \in r.runData[b[1]][b[2] + 1].outs
Sourced(r) ==
    /\ \A c \in Contents(r) : \A i \in DOMAIN c.data :
          c.data[i] \in AllBatches => Known(r, c.data[i])
    /\ \A n \in Nodes : \A k \in DOMAIN r.runData[n] :
          r.runData[n][k].outs # {} => r.runData[n][k].status = "success"

EachOnce(r) == \A h \in HandedOn(r) : h[1].to \notin r.misplaced => Once(r, h[1], h[2])

\* x has been put together before y.
SameSource(u, v) == {u, v} \cap {Given, Missing, Empty} = {} /\ u[1] = v[1] /\ u[3] = v[3]
Before(x, y) ==
    \A i \in DOMAIN x \cap DOMAIN y : SameSource(x[i], y[i]) => x[i][2] <= y[i][2]
Paired(x, y) ==
    \A i, j \in DOMAIN x \cap DOMAIN y :
        SameSource(x[i], y[i]) /\ SameSource(x[j], y[j]) /\ x[i][2] < y[i][2] => x[j][2] <= y[j][2]
\* The engine itself makes entries of full length.
FullLength(w) == \A n \in Nodes : \A k \in DOMAIN w[n] : DOMAIN w[n][k] = Inputs(n)
InOrder(r) ==
    /\ FullLength(r.waiting)
    /\ \A c, d \in Contents(r) : c.node = d.node /\ c.node \notin r.misplaced =>
          /\ Paired(c.data, d.data)
          /\ ~Waits(c) /\ Waits(d) => Before(c.data, d.data)
    /\ \A n \in Nodes \ r.misplaced : \A j, k \in DOMAIN r.waiting[n] : j < k =>
          /\ Before(r.waiting[n][j], r.waiting[n][k])
          /\ \A i \in Inputs(n) :
                r.waiting[n][j][i] = Missing => r.waiting[n][k][i] = Missing

\* Nothing above a node that runs without some of its input can run any more.
Short(r) == {c.node : c \in {d \in Contents(r) : ~Waits(d) /\ Empty \in Range(d.data)}}
ToCome(r) == {r.stack[i].node : i \in DOMAIN r.stack} \cup Range(r.order)
NothingAbove(r) == Acyclic => \A n \in Short(r) : Ancestors(n) \cap ToCome(r) = {}

\* A wait is of the node on top of the stack, and its run is the last of the last node.
WaitIsOnTop(r) ==
    r.waitTill =>
        /\ r.stack # <<>>
        /\ \A x \in Sharing(r.stack, r.stack[1]) : <<x.node, x.data>> \in r.waited
        /\ r.last \in Nodes /\ r.runData[r.last] # <<>>
        /\ Last(r.runData[r.last]).status = "waiting"
DisabledHasWaited(r) ==
    \A i \in DOMAIN r.stack : r.stack[i].disabled => <<r.stack[i].node, r.stack[i].data>> \in r.waited

\* When the row of a running execution is not what the run could be taken up from.
OutOfStep(r, w) ==
    /\ workflow.saveProgress /\ w.status = "running"
    /\ r.status = "waiting" \/ w.waitTill \/ w.destination # r.destination

NoneReady(r) == \A k \in DOMAIN r.order : ~CanRun(r, r.order[k])

Agree(r, w) ==
    /\ r.status = "none" <=> w.status # "running"
    /\ r.status # "none" => r.marred = w.marred
    /\ r.status \in {"running", "error"} => ~r.waitTill
    /\ r.status = "waiting" => r.stack # <<>>
    /\ w.status = "waiting" => w.stack # <<>>
    /\ workflow.saveProgress /\ w.status = "running" /\ ~OutOfStep(r, w) =>
          w.runData = r.runData /\ w.kept = r.kept /\ w.filter = r.filter
    /\ r.status = "running" /\ ~r.unchecked /\ r.stack = <<>> => NoneReady(r)
    /\ w.status = "success" /\ ~w.unchecked => NoneReady(w)

TypeOK(r) == r \in Records /\ WaitingOK(r.waiting, r.order)

\* How the run and the row stand, whatever they hold.
StandInv(r, w) ==
    /\ TypeOK(r) /\ TypeOK(w) /\ Agree(r, w)
    /\ ~r.marred => WaitIsOnTop(r) /\ DisabledHasWaited(r)
    /\ ~w.marred /\ ~OutOfStep(r, w) => WaitIsOnTop(w) /\ DisabledHasWaited(w)

\* What they hold.
Sound(r) == Sourced(r) /\ EachOnce(r) /\ InOrder(r) /\ NothingAbove(r)
HoldInv(r, w) ==
    /\ ~r.marred => Sound(r)
    /\ ~w.marred /\ ~OutOfStep(r, w) => Sound(w) /\ HandedOn(w) \subseteq HandedOn(r)

IInv == workflow \in Workflows /\ StandInv(run, row) /\ HoldInv(run, row)

-----------------------------------------------------------------------------
(* Numbers *)

\* A set of numbers has a least one.
LEMMA LeastNumber ==
    ASSUME NEW S \in SUBSET Nat, S # {}
    PROVE  \E n \in S : \A m \in S : n <= m
<1> DEFINE R == OpToRel(<, Nat)
<1>1. \A m, n \in Nat : m < n => <<m, n>> \in R
  BY DEF OpToRel
<1>2. IsWellFoundedOn(R, Nat)
  BY NatLessThanWellFounded
<1> HIDE DEF R
<1>3. PICK n \in S : \A m \in S : <<m, n>> \notin R
  BY <1>2, WFMin
<1>4. \A m \in S : ~(m < n)
  BY <1>1, <1>3
<1> QED
  BY <1>4

\* Induction, for a set of numbers.
LEMMA Induct ==
    ASSUME NEW S, 0 \in S, \A n \in Nat : n \in S => n + 1 \in S
    PROVE  Nat \subseteq S
<1> SUFFICES ASSUME Nat \ S # {} PROVE FALSE
  OBVIOUS
<1>1. PICK n \in Nat \ S : \A m \in Nat \ S : n <= m
  BY LeastNumber
<1>2. n # 0 /\ n - 1 \in Nat /\ n - 1 \in S
  BY <1>1
<1> QED
  BY <1>1, <1>2

\* Min picks a least member.
LEMMA MinIsLeast ==
    ASSUME NEW S \in SUBSET Nat, S # {}
    PROVE  Min(S) \in S /\ \A m \in S : Min(S) <= m
BY LeastNumber DEF Min

\* A finite set of numbers has a bound.
LEMMA FiniteIsBounded ==
    ASSUME NEW S \in SUBSET Nat, IsFiniteSet(S)
    PROVE  \E n \in Nat : \A m \in S : m <= n
<1> DEFINE T == {n \in Nat : \A U \in SUBSET Nat :
                    IsFiniteSet(U) /\ Cardinality(U) = n => \E b \in Nat : \A m \in U : m <= b}
<1>1. 0 \in T
  BY FS_EmptySet
<1>2. ASSUME NEW n \in Nat, n \in T PROVE n + 1 \in T
  <2> SUFFICES ASSUME NEW U \in SUBSET Nat, IsFiniteSet(U), Cardinality(U) = n + 1
               PROVE  \E b \in Nat : \A m \in U : m <= b
    OBVIOUS
  <2>1. PICK x : x \in U
    BY FS_EmptySet
  <2>2. IsFiniteSet(U \ {x}) /\ Cardinality(U \ {x}) = n
    <3> HIDE DEF T
    <3>1. /\ IsFiniteSet(U \ {x})
          /\ Cardinality(U \ {x}) = IF x \in U THEN Cardinality(U) - 1 ELSE Cardinality(U)
      BY FS_RemoveElement
    <3> QED
      BY <2>1, <3>1
  <2>3. PICK b \in Nat : \A m \in U \ {x} : m <= b
    BY <1>2, <2>2
  <2>4. \E c \in Nat : b <= c /\ x <= c
    BY <2>1
  <2> QED
    BY <2>3, <2>4
<1>3. Nat \subseteq T
  <2> HIDE DEF T
  <2> QED BY <1>1, <1>2, Induct
<1> QED
  BY <1>3, FS_CardinalityType

\* Max picks a greatest member.
LEMMA MaxIsGreatest ==
    ASSUME NEW S \in SUBSET Nat, S # {}, NEW b \in Nat, \A m \in S : m <= b
    PROVE  Max(S) \in S /\ \A m \in S : m <= Max(S)
<1> DEFINE D == {d \in Nat : \E m \in S : m + d = b}
<1>1. \A m \in S : b - m \in D
  OBVIOUS
<1>2. PICK d \in D : \A e \in D : d <= e
  <2>1. D \in SUBSET Nat /\ D # {}
    BY <1>1
  <2> QED
    BY <2>1, LeastNumber
<1>3. PICK x \in S : x + d = b
  OBVIOUS
<1>4. \A m \in S : d <= b - m
  BY <1>1, <1>2
<1>5. \A m \in S : x >= m
  BY <1>3, <1>4
<1> QED
  BY <1>3, <1>5 DEF Max

-----------------------------------------------------------------------------
(* The graph and the order in which nodes are added *)

\* The links of a workflow are finitely many.
LEMMA GraphFacts ==
    ASSUME workflow \in Workflows
    PROVE  workflow.links \subseteq Links /\ IsFiniteSet(workflow.links)
BY EngineAssumption

\* What a finite set of links has as outputs or inputs is bounded.
LEMMA PortsAreBounded ==
    ASSUME NEW S \in SUBSET Links, IsFiniteSet(S)
    PROVE  \E b \in Nat : \A l \in S : l.output <= b /\ l.input <= b
<1>1. \E b \in Nat : \A l \in S : l.output <= b
  <2> DEFINE T == {l.output : l \in S}
             f == [l \in S |-> l.output]
  <2>1. f \in Surjection(S, T) /\ T \in SUBSET Nat
    BY DEF Surjection, Links
  <2>2. IsFiniteSet(T)
    <3> HIDE DEF f, T
    <3> QED BY <2>1, FS_Surjection
  <2> QED
    BY <2>1, <2>2, FiniteIsBounded
<1>2. \E b \in Nat : \A l \in S : l.input <= b
  <2> DEFINE T == {l.input : l \in S}
             f == [l \in S |-> l.input]
  <2>1. f \in Surjection(S, T) /\ T \in SUBSET Nat
    BY DEF Surjection, Links
  <2>2. IsFiniteSet(T)
    <3> HIDE DEF f, T
    <3> QED BY <2>1, FS_Surjection
  <2> QED
    BY <2>1, <2>2, FiniteIsBounded
<1>3. PICK b \in Nat, c \in Nat : \A l \in S : l.output <= b /\ l.input <= c
  BY <1>1, <1>2
<1>4. b + c \in Nat /\ \A l \in S : l.output <= b + c /\ l.input <= b + c
  BY <1>3 DEF Links
<1> QED
  BY <1>4

\* The inputs of a node are those from 0 to the last that a link leads to.
LEMMA InputsAre ==
    ASSUME workflow \in Workflows, NEW n
    PROVE  \E m \in Nat : Inputs(n) = 0..m /\ \A l \in workflow.links : l.to = n => l.input <= m
<1> DEFINE S == {l.input : l \in LinksTo(n)} \cup {0}
<1>1. S \in SUBSET Nat /\ S # {} /\ 0 \in S
  BY GraphFacts DEF LinksTo, Links
<1>2. PICK b \in Nat : \A l \in workflow.links : l.input <= b
  BY GraphFacts, PortsAreBounded
<1>3. \A m \in S : m <= b
  BY <1>2 DEF LinksTo
<1>4. Max(S) \in S /\ \A m \in S : m <= Max(S)
  <2> HIDE DEF S
  <2> QED BY <1>1, <1>3, MaxIsGreatest
<1>5. Inputs(n) = 0..Max(S)
  BY DEF Inputs
<1>6. \A l \in workflow.links : l.to = n => l.input \in S
  BY DEF LinksTo
<1> HIDE DEF S
<1> QED
  BY <1>1, <1>4, <1>5, <1>6

\* A node has an input 0 and every one a link leads to.
LEMMA InputsFacts ==
    ASSUME workflow \in Workflows, NEW n
    PROVE  /\ Inputs(n) \subseteq Nat /\ 0 \in Inputs(n)
           /\ \A l \in workflow.links : l.to = n => l.input \in Inputs(n)
<1>1. PICK m \in Nat : Inputs(n) = 0..m /\ \A l \in workflow.links : l.to = n => l.input <= m
  BY InputsAre
<1>2. \A l \in workflow.links : l.input \in Nat
  BY GraphFacts DEF Links
<1> QED
  BY <1>1, <1>2

\* Of the links from a node one is added after all the others.
LEMMA LastToAdd ==
    ASSUME NEW n, NEW S \in SUBSET Links, IsFiniteSet(S), S # {}, \A l \in S : l.from = n
    PROVE  \E x \in S : \A y \in S \ {x} : AddedBefore(y, x)
<1> USE DEF Links
<1>1. PICK b \in Nat : \A l \in S : l.output <= b /\ l.input <= b
  BY PortsAreBounded
<1>2. PICK k \in S : \A l \in S : Rank[k.to] <= Rank[l.to]
  <2> DEFINE T == {Rank[l.to] : l \in S}
  <2>1. T \in SUBSET Nat /\ T # {}
    BY EngineAssumption
  <2>2. PICK t \in T : \A m \in T : t <= m
    BY <2>1, LeastNumber
  <2> QED
    BY <2>2
<1>3. PICK p \in {l \in S : l.to = k.to} : \A l \in S : l.to = k.to => l.output <= p.output
  <2> DEFINE T == {l.output : l \in {m \in S : m.to = k.to}}
  <2>1. T \in SUBSET Nat /\ T # {} /\ \A m \in T : m <= b
    BY <1>1
  <2>2. Max(T) \in T /\ \A m \in T : m <= Max(T)
    BY <2>1, MaxIsGreatest
  <2> QED
    BY <2>2
<1> DEFINE U == {l \in S : l.to = k.to /\ l.output = p.output}
<1>4. PICK x \in U : \A l \in U : l.input <= x.input
  <2> DEFINE T == {l.input : l \in U}
  <2>1. T \in SUBSET Nat /\ T # {} /\ \A m \in T : m <= b
    BY <1>1, <1>3
  <2>2. Max(T) \in T /\ \A m \in T : m <= Max(T)
    BY <2>1, MaxIsGreatest
  <2> QED
    BY <2>2
<1>5. ASSUME NEW y \in S \ {x} PROVE AddedBefore(y, x)
  <2>1. x.to = k.to /\ x.output = p.output /\ x.from = y.from
    BY <1>4
  <2>2. CASE y.to # k.to
    <3>1. Rank[y.to] # Rank[x.to]
      BY <2>1, <2>2, EngineAssumption DEF IsInjective
    <3>2. Rank[x.to] <= Rank[y.to] /\ Rank[x.to] \in Nat /\ Rank[y.to] \in Nat
      BY <1>2, <2>1, EngineAssumption
    <3> QED
      BY <3>1, <3>2 DEF AddedBefore
  <2>3. CASE y.to = k.to /\ y.output # p.output
    <3>1. y.output <= p.output
      BY <1>3, <2>3
    <3> QED
      BY <2>1, <2>3, <3>1 DEF AddedBefore
  <2>4. CASE y.to = k.to /\ y.output = p.output
    <3>1. y.input <= x.input
      BY <1>4, <2>4
    <3>2. y.input # x.input
      BY <2>1, <2>4, <1>5
    <3> QED
      BY <2>1, <2>4, <3>1, <3>2 DEF AddedBefore
  <2> QED
    BY <2>2, <2>3, <2>4
<1> QED
  BY <1>4, <1>5

\* The links from a node can be put in that order.
LEMMA LinksCanBeSorted ==
    ASSUME NEW n, NEW S \in SUBSET Links, IsFiniteSet(S), \A l \in S : l.from = n
    PROVE  \E s \in SetToSeqs(S) : \A i, j \in DOMAIN s : i < j => AddedBefore(s[i], s[j])
<1> DEFINE Sorted(U) == \E s \in SetToSeqs(U) :
                            \A i, j \in DOMAIN s : i < j => AddedBefore(s[i], s[j])
           T == {m \in Nat : \A U \in SUBSET S : Cardinality(U) = m => Sorted(U)}
<1>0. \A U \in SUBSET S : IsFiniteSet(U) /\ Cardinality(U) \in Nat
  BY FS_Subset, FS_CardinalityType
<1>1. 0 \in T
  <2>1. SUFFICES Sorted({})
    BY <1>0, FS_EmptySet
  <2>2. << >> \in SetToSeqs({})
    BY FS_EmptySet DEF SetToSeqs
  <2> QED
    BY <2>2
<1>2. ASSUME NEW m \in Nat, m \in T PROVE m + 1 \in T
  <2> SUFFICES ASSUME NEW U \in SUBSET S, Cardinality(U) = m + 1 PROVE Sorted(U)
    OBVIOUS
  <2>1. U # {}
    BY FS_EmptySet
  <2>2. PICK x \in U : \A y \in U \ {x} : AddedBefore(y, x)
    BY <1>0, <2>1, LastToAdd
  <2>3. IsFiniteSet(U) /\ Cardinality(U \ {x}) = m
    <3>1. Cardinality(U \ {x}) = IF x \in U THEN Cardinality(U) - 1 ELSE Cardinality(U)
      BY <1>0, FS_RemoveElement
    <3> QED
      BY <1>0, <3>1
  <2>4. PICK s \in SetToSeqs(U \ {x}) :
            \A i, j \in DOMAIN s : i < j => AddedBefore(s[i], s[j])
    BY <1>2, <2>3
  <2>5. s \in [1..m -> U \ {x}] /\ \A i, j \in 1..m : i # j => s[i] # s[j]
    BY <2>3, <2>4 DEF SetToSeqs
  <2> DEFINE t == [i \in 1..(m + 1) |-> IF i = m + 1 THEN x ELSE s[i]]
  <2>6. t \in SetToSeqs(U)
    <3>1. t \in [1..(m + 1) -> U]
      BY <2>5
    <3>2. \A i, j \in 1..(m + 1) : i # j => t[i] # t[j]
      BY <2>5
    <3> QED
      BY <3>1, <3>2 DEF SetToSeqs
  <2>7. \A i, j \in DOMAIN t : i < j => AddedBefore(t[i], t[j])
    BY <2>2, <2>4, <2>5
  <2> QED
    BY <2>6, <2>7
<1>3. Nat \subseteq T
  <2> HIDE DEF T
  <2> QED BY <1>1, <1>2, Induct
<1> QED
  BY <1>0, <1>3

\* They are a sequence of them, each once.
LEMMA NodesToAddFacts ==
    ASSUME workflow \in Workflows, NEW n, NEW outs
    PROVE  LET s == NodesToAdd(n, outs)
               S == {l \in workflow.links : l.from = n /\ l.output \in outs}
           IN  /\ s \in Seq(workflow.links) /\ {s[i] : i \in 1..Len(s)} = S
               /\ \A i, j \in 1..Len(s) : i # j => s[i] # s[j]
<1> DEFINE S == {l \in workflow.links : l.from = n /\ l.output \in outs}
           s == NodesToAdd(n, outs)
<1>1. S \in SUBSET Links /\ IsFiniteSet(S) /\ \A l \in S : l.from = n
  BY GraphFacts, FS_Subset
<1>2. s \in SetToSeqs(S)
  <2>1. \E t \in SetToSeqs(S) : \A i, j \in DOMAIN t : i < j => AddedBefore(t[i], t[j])
    <3> HIDE DEF S
    <3> QED BY <1>1, LinksCanBeSorted
  <2> QED
    BY <2>1 DEF NodesToAdd
<1> DEFINE c == Cardinality(S)
<1>3. c \in Nat
  BY <1>1, FS_CardinalityType
<1>4. s \in [1..c -> S] /\ \A i, j \in 1..c : i # j => s[i] # s[j]
  BY <1>2 DEF SetToSeqs
<1>5. \A l \in S : \E i \in 1..c : s[i] = l
  <2>1. s \in Injection(1..c, S)
    BY <1>4 DEF Injection, IsInjective
  <2>2. IsFiniteSet(1..c) /\ Cardinality(1..c) = c
    BY <1>3, FS_Interval
  <2>3. s \in Surjection(1..c, S)
    <3> HIDE DEF s, S
    <3> QED BY <1>1, <2>1, <2>2, FS_Injection
  <2> QED
    BY <2>3 DEF Surjection
<1>6. s \in Seq(workflow.links) /\ Len(s) = c
  <2> HIDE DEF s, c
  <2>1. s \in [1..c -> workflow.links]
    BY <1>4
  <2> QED
    BY <1>3, <2>1
<1>7. {s[i] : i \in 1..Len(s)} = S
  <2> HIDE DEF s, c, S
  <2> QED BY <1>4, <1>5, <1>6
<1> HIDE DEF c
<1> QED
  BY <1>4, <1>6, <1>7

-----------------------------------------------------------------------------
(* Handing on link by link *)

HandOnStep(r, n, index, l) == AddNodeToBeExecuted(r, l, <<n, index, l.output>>)

\* One link after the other: there is a sequence of states from r to the result.
LEMMA HandOnSteps ==
    ASSUME NEW r, NEW n, NEW index, NEW links, NEW len \in Nat, DOMAIN links = 1..len
    PROVE  \E g : /\ g[0] = r /\ HandOn(r, n, index, links) = g[len]
                  /\ \A k \in 1..len : g[k] = HandOnStep(g[k - 1], n, index, links[k])
<1> DEFINE Eq(f, k) ==
               f = [s \in SUBSET (1..k) |->
                      IF s = {} THEN r ELSE HandOnStep(f[s \ {Max(s)}], n, index, links[Max(s)])]
           T == {k \in Nat : \E f : Eq(f, k)}
<1>0. \A k \in Nat : \A s \in SUBSET (1..k) : s # {} => Max(s) \in s /\ \A m \in s : m <= Max(s)
  <2> SUFFICES ASSUME NEW k \in Nat, NEW s \in SUBSET (1..k), s # {}
               PROVE  Max(s) \in s /\ \A m \in s : m <= Max(s)
    OBVIOUS
  <2>1. s \in SUBSET Nat /\ \A m \in s : m <= k
    OBVIOUS
  <2> QED
    BY <2>1, MaxIsGreatest
<1>1. 0 \in T
  <2> DEFINE f == [s \in SUBSET (1..0) |-> r]
  <2>1. Eq(f, 0)
    <3>1. \A s \in SUBSET (1..0) : s = {}
      OBVIOUS
    <3> QED
      BY <3>1
  <2> QED
    BY <2>1
<1>2. ASSUME NEW k \in Nat, k \in T PROVE k + 1 \in T
  <2>1. PICK f : Eq(f, k)
    BY <1>2
  <2> DEFINE g == [s \in SUBSET (1..(k + 1)) |->
                     IF k + 1 \in s
                     THEN HandOnStep(f[s \ {k + 1}], n, index, links[k + 1]) ELSE f[s]]
  <2>2. ASSUME NEW s \in SUBSET (1..(k + 1)), k + 1 \in s
        PROVE  g[s] = HandOnStep(g[s \ {Max(s)}], n, index, links[Max(s)])
    <3>1. Max(s) = k + 1
      <4>1. k + 1 \in Nat /\ s # {}
        BY <2>2
      <4>2. Max(s) \in s /\ k + 1 <= Max(s)
        BY <1>0, <2>2, <4>1
      <4>3. \A m \in 1..(k + 1) : k + 1 <= m => m = k + 1
        OBVIOUS
      <4> QED
        BY <4>2, <4>3
    <3>2. s \ {k + 1} \in SUBSET (1..(k + 1)) /\ k + 1 \notin s \ {k + 1}
      OBVIOUS
    <3>3. g[s \ {k + 1}] = f[s \ {k + 1}]
      BY <3>2
    <3> HIDE DEF HandOnStep
    <3> QED
      BY <2>2, <3>1, <3>3
  <2>3. ASSUME NEW s \in SUBSET (1..(k + 1)), k + 1 \notin s, s # {}
        PROVE  g[s] = HandOnStep(g[s \ {Max(s)}], n, index, links[Max(s)])
    <3>1. s \in SUBSET (1..k) /\ s \ {Max(s)} \in SUBSET (1..k)
      <4>1. \A m \in 1..(k + 1) : m # k + 1 => m \in 1..k
        OBVIOUS
      <4> QED
        BY <2>3, <4>1
    <3>2. s \ {Max(s)} \in SUBSET (1..(k + 1)) /\ k + 1 \notin s \ {Max(s)}
      BY <2>3
    <3>3. g[s \ {Max(s)}] = f[s \ {Max(s)}] /\ g[s] = f[s]
      BY <2>3, <3>2
    <3>4. f[s] = HandOnStep(f[s \ {Max(s)}], n, index, links[Max(s)])
      BY <2>1, <2>3, <3>1
    <3> QED
      BY <3>3, <3>4
  <2>4. g[{}] = r
    <3>1. {} \in SUBSET (1..(k + 1)) /\ {} \in SUBSET (1..k)
      OBVIOUS
    <3>2. f[{}] = r
      BY <2>1, <3>1
    <3> QED
      BY <3>1, <3>2
  <2>5. Eq(g, k + 1)
    <3> HIDE DEF HandOnStep
    <3>1. g = [s \in SUBSET (1..(k + 1)) |-> g[s]]
      OBVIOUS
    <3>2. \A s \in SUBSET (1..(k + 1)) : g[s] =
             IF s = {} THEN r ELSE HandOnStep(g[s \ {Max(s)}], n, index, links[Max(s)])
      BY <2>2, <2>3, <2>4
    <3> HIDE DEF g
    <3> QED
      BY <3>1, <3>2
  <2> HIDE DEF Eq, g
  <2> QED
    BY <2>5
<1>3. PICK f : Eq(f, len)
  <2> HIDE DEF T
  <2>1. Nat \subseteq T
    BY <1>1, <1>2, Induct
  <2> QED
    BY <2>1 DEF T
<1> DEFINE it == CHOOSE e : e = [s \in SUBSET (DOMAIN links) |->
                      IF s = {} THEN r ELSE HandOnStep(e[s \ {Max(s)}], n, index, links[Max(s)])]
<1>4. HandOn(r, n, index, links) = it[DOMAIN links]
  BY DEF HandOn, HandOnStep, FoldLeft, MapThenFoldSet
<1>5. Eq(it, len)
  BY <1>3
<1> DEFINE g == [k \in 0..len |-> it[1..k]]
<1>6. g[0] = r
  <2>1. 1..0 = {} /\ {} \in SUBSET (1..len) /\ 0 \in 0..len
    OBVIOUS
  <2>2. it[{}] = r
    BY <1>5, <2>1
  <2> HIDE DEF it
  <2> QED
    BY <2>1, <2>2
<1>7. ASSUME NEW k \in 1..len PROVE g[k] = HandOnStep(g[k - 1], n, index, links[k])
  <2>1. 1..k \in SUBSET (1..len) /\ 1..k # {} /\ k \in 0..len /\ k - 1 \in 0..len
    <3> HIDE DEF it
    <3>1. k \in 1..k /\ \A m \in 1..k : m \in 1..len
      OBVIOUS
    <3> QED
      BY <3>1
  <2>2. Max(1..k) = k
    <3> HIDE DEF it
    <3>1. Max(1..k) \in 1..k /\ \A m \in 1..k : m <= Max(1..k)
      BY <1>0, <2>1
    <3>2. k \in 1..k
      OBVIOUS
    <3> QED
      BY <3>1, <3>2
  <2>3. (1..k) \ {k} = 1..(k - 1)
    OBVIOUS
  <2>4. it[1..k] = HandOnStep(it[(1..k) \ {Max(1..k)}], n, index, links[Max(1..k)])
    BY <1>5, <2>1
  <2> HIDE DEF it
  <2> QED
    BY <2>1, <2>2, <2>3, <2>4
<1>8. HandOn(r, n, index, links) = g[len]
  <2> HIDE DEF it
  <2> QED BY <1>4
<1> QED
  BY <1>6, <1>7, <1>8

-----------------------------------------------------------------------------
(* What an execution holds *)

\* An item may hold nothing.
LEMMA EmptyData == << >> \in Data
<1>1. DOMAIN << >> = {} /\ << >> = [k \in {} |-> << >>[k]]
  OBVIOUS
<1>2. << >> \in [{} -> Values] /\ {} \in SUBSET Nat
  BY <1>1
<1> QED
  BY <1>2 DEF Data

\* What an item holds: a value for each of some inputs.
LEMMA DataIs ==
    ASSUME NEW d
    PROVE  d \in Data <=> DOMAIN d \subseteq Nat /\ d \in [DOMAIN d -> Values]
BY DEF Data

\* An element is one of a stack, of the waiting entries, of the runs or of the silent runs.
LEMMA OnStackIs ==
    ASSUME NEW c, NEW s
    PROVE  c \in OnStack(s) <=> \E i \in DOMAIN s :
              c = Held(<<"stack", Len(s) + 1 - i>>, s[i].node, s[i].data)
BY DEF OnStack

\* The elements of the waiting entries, and those of the runs: what each comes from.
LEMMA InWaitingIs ==
    ASSUME NEW w
    PROVE  /\ \A c \in InWaiting(w) : \E n \in Nodes : \E k \in DOMAIN w[n] :
                 c = Held(<<"waiting", n, k>>, n, w[n][k])
           /\ \A n \in Nodes : \A k \in DOMAIN w[n] :
                 Held(<<"waiting", n, k>>, n, w[n][k]) \in InWaiting(w)
<1>1. ASSUME NEW n \in Nodes, NEW k \in DOMAIN w[n]
      PROVE  Held(<<"waiting", n, k>>, n, w[n][k]) \in InWaiting(w)
  <2>1. Held(<<"waiting", n, k>>, n, w[n][k])
           \in {Held(<<"waiting", n, j>>, n, w[n][j]) : j \in DOMAIN w[n]}
    OBVIOUS
  <2>2. {Held(<<"waiting", n, j>>, n, w[n][j]) : j \in DOMAIN w[n]} \subseteq InWaiting(w)
    BY DEF InWaiting
  <2> QED
    BY <2>1, <2>2
<1> QED
  BY <1>1 DEF InWaiting

\* The runs that are held are the successful ones.
LEMMA InRunsIs ==
    ASSUME NEW d
    PROVE  /\ \A c \in InRuns(d) : \E n \in Nodes : \E k \in DOMAIN d[n] :
                 d[n][k].status = "success" /\ c = Held(<<"run", n, k>>, n, d[n][k].data)
           /\ \A n \in Nodes : \A k \in DOMAIN d[n] : d[n][k].status = "success" =>
                 Held(<<"run", n, k>>, n, d[n][k].data) \in InRuns(d)
<1>1. ASSUME NEW n \in Nodes, NEW k \in DOMAIN d[n], d[n][k].status = "success"
      PROVE  Held(<<"run", n, k>>, n, d[n][k].data) \in InRuns(d)
  <2> DEFINE S == {Held(<<"run", n, j>>, n, d[n][j].data) :
                      j \in {i \in DOMAIN d[n] : d[n][i].status = "success"}}
  <2>1. Held(<<"run", n, k>>, n, d[n][k].data) \in S
    BY <1>1
  <2>2. S \subseteq InRuns(d)
    BY DEF InRuns
  <2> QED
    BY <2>1, <2>2
<1> QED
  BY <1>1 DEF InRuns

\* Where all successful runs are runs of another execution too, so are what they hold.
LEMMA InRunsWithin ==
    ASSUME NEW d, NEW e,
           \A n \in Nodes : \A k \in DOMAIN d[n] : d[n][k].status = "success" =>
               k \in DOMAIN e[n] /\ e[n][k] = d[n][k]
    PROVE  InRuns(d) \subseteq InRuns(e)
<1> SUFFICES ASSUME NEW c \in InRuns(d) PROVE c \in InRuns(e)
  OBVIOUS
<1>1. PICK n \in Nodes : \E k \in DOMAIN d[n] :
          d[n][k].status = "success" /\ c = Held(<<"run", n, k>>, n, d[n][k].data)
  BY DEF InRuns
<1>2. PICK k \in DOMAIN d[n] :
          d[n][k].status = "success" /\ c = Held(<<"run", n, k>>, n, d[n][k].data)
  BY <1>1
<1>3. k \in DOMAIN e[n] /\ e[n][k] = d[n][k]
  BY <1>2
<1> QED
  BY <1>2, <1>3, InRunsIs

\* A run without a result is held as it stands.
LEMMA InSilentIs ==
    ASSUME NEW c, NEW xs
    PROVE  c \in InSilent(xs) <=> \E x \in xs : c = Held(<<"silent", x>>, x.node, x.data)
BY DEF InSilent

\* The parts do not overlap.
LEMMA PartsApart ==
    /\ \A s : \A c \in OnStack(s) : c.at[1] = "stack"
    /\ \A w : \A c \in InWaiting(w) : c.at[1] = "waiting"
    /\ \A d : \A c \in InRuns(d) : c.at[1] = "run"
    /\ \A xs : \A c \in InSilent(xs) : c.at[1] = "silent"
BY OnStackIs, InWaitingIs, InRunsIs, InSilentIs DEF Held

\* The top is taken from the stack.
LEMMA StackPops ==
    ASSUME NEW s \in Seq(Items), s # << >>
    PROVE  LET top == Held(<<"stack", Len(s)>>, Head(s).node, Head(s).data)
           IN  top \in OnStack(s) /\ OnStack(Tail(s)) = OnStack(s) \ {top}
<1> DEFINE top == Held(<<"stack", Len(s)>>, Head(s).node, Head(s).data)
<1>0. \A len \in Nat : \A i \in 1..(len - 1) : i + 1 \in 1..len /\ len + 1 - (i + 1) = len - i
  OBVIOUS
<1>1. /\ Len(s) \in Nat /\ Len(s) >= 1 /\ DOMAIN s = 1..Len(s) /\ Head(s) = s[1]
      /\ Len(Tail(s)) = Len(s) - 1 /\ DOMAIN Tail(s) = 1..(Len(s) - 1)
      /\ \A i \in 1..(Len(s) - 1) : Tail(s)[i] = s[i + 1]
  OBVIOUS
<1>2. top \in OnStack(s)
  <2>1. 1 \in DOMAIN s /\ Len(s) + 1 - 1 = Len(s)
    BY <1>1
  <2> QED
    BY <1>1, <2>1, OnStackIs
<1>3. ASSUME NEW c \in OnStack(Tail(s)) PROVE c \in OnStack(s) \ {top}
  <2>1. PICK i \in 1..(Len(s) - 1) :
            c = Held(<<"stack", Len(s) - i>>, s[i + 1].node, s[i + 1].data)
    <3>1. PICK i \in DOMAIN Tail(s) : c = Held(<<"stack", Len(Tail(s)) + 1 - i>>, Tail(s)[i].node, Tail(s)[i].data)
      BY OnStackIs
    <3>2. Len(Tail(s)) + 1 - i = Len(s) - i
      BY <1>1
    <3> QED
      BY <1>1, <3>1, <3>2
  <2>2. i + 1 \in 1..Len(s) /\ Len(s) + 1 - (i + 1) = Len(s) - i
    BY <1>0, <1>1, <2>1
  <2>3. c \in OnStack(s)
    <3>1. c = Held(<<"stack", Len(s) + 1 - (i + 1)>>, s[i + 1].node, s[i + 1].data)
      BY <2>1, <2>2
    <3> QED
      BY <1>1, <2>2, <3>1, OnStackIs
  <2>4. c # top
    <3>1. c.at[2] = Len(s) - i /\ top.at[2] = Len(s)
      BY <2>1 DEF Held
    <3> QED
      BY <1>1, <3>1
  <2> QED
    BY <2>3, <2>4
<1>4. ASSUME NEW c \in OnStack(s), c # top PROVE c \in OnStack(Tail(s))
  <2>1. PICK i \in DOMAIN s : c = Held(<<"stack", Len(s) + 1 - i>>, s[i].node, s[i].data)
    BY OnStackIs
  <2>2. i # 1
    BY <1>1, <1>4, <2>1
  <2>3. /\ i - 1 \in DOMAIN Tail(s) /\ Len(Tail(s)) + 1 - (i - 1) = Len(s) + 1 - i
        /\ Tail(s)[i - 1] = s[i]
    BY <1>1, <2>2
  <2>4. c = Held(<<"stack", Len(Tail(s)) + 1 - (i - 1)>>, Tail(s)[i - 1].node, Tail(s)[i - 1].data)
    BY <2>1, <2>3
  <2> QED
    BY <2>3, <2>4, OnStackIs
<1> QED
  BY <1>2, <1>3, <1>4

\* An item is put on top of the stack.
LEMMA StackPushes ==
    ASSUME NEW s \in Seq(Items), NEW x \in Items
    PROVE  LET top == Held(<<"stack", Len(s) + 1>>, x.node, x.data)
           IN  OnStack(<<x>> \o s) = OnStack(s) \cup {top} /\ top \notin OnStack(s)
<1> DEFINE top == Held(<<"stack", Len(s) + 1>>, x.node, x.data)
           t == <<x>> \o s
<1>1. t \in Seq(Items) /\ t # << >> /\ Head(t) = x /\ Tail(t) = s /\ Len(t) = Len(s) + 1
  OBVIOUS
<1>2. top \in OnStack(t) /\ OnStack(s) = OnStack(t) \ {top}
  <2> HIDE DEF t
  <2> QED BY <1>1, StackPops
<1> QED
  BY <1>2

\* The entries of one node change: one goes, or one is put in its place.
Left(w, n, k) == [i \in DOMAIN w[n] \ {k} |-> w[n][i]]
Put(w, n, k, e) == [j \in DOMAIN w[n] \cup {k} |-> IF j = k THEN e ELSE w[n][j]]
LeftIn(w, n, k) == [w EXCEPT ![n] = Left(w, n, k)]
PutIn(w, n, k, e) == [w EXCEPT ![n] = Put(w, n, k, e)]

\* An entry that is put in, or taken out, changes nothing else that waits.
LEMMA WaitingChanges ==
    ASSUME NEW w, NEW n \in Nodes, NEW k, NEW e, DOMAIN w = Nodes
    PROVE  LET old == Held(<<"waiting", n, k>>, n, w[n][k])
               new == Held(<<"waiting", n, k>>, n, e)
           IN  /\ InWaiting(PutIn(w, n, k, e)) = (InWaiting(w) \ {old}) \cup {new}
               /\ InWaiting(LeftIn(w, n, k)) = InWaiting(w) \ {old}
               /\ k \in DOMAIN w[n] => old \in InWaiting(w)
               /\ k \notin DOMAIN w[n] => \A c \in InWaiting(w) : c.at # <<"waiting", n, k>>
<1> DEFINE old == Held(<<"waiting", n, k>>, n, w[n][k])
           new == Held(<<"waiting", n, k>>, n, e)
           put == Put(w, n, k, e)
           left == Left(w, n, k)
           W == [w EXCEPT ![n] = put]
           V == [w EXCEPT ![n] = left]
<1> USE DEF Put, Left, PutIn, LeftIn
<1>1. \A m \in Nodes : \A j \in DOMAIN w[m] :
         Held(<<"waiting", m, j>>, m, w[m][j]).at = <<"waiting", n, k>> => m = n /\ j = k
  BY DEF Held
<1>2. \A m \in Nodes : \A j \in DOMAIN w[m] :
         Held(<<"waiting", m, j>>, m, w[m][j]) = old => m = n /\ j = k
  <2>1. old.at = <<"waiting", n, k>>
    BY DEF Held
  <2> QED
    BY <1>1, <2>1
<1>3. /\ W[n] = put /\ \A m \in Nodes \ {n} : W[m] = w[m]
      /\ V[n] = left /\ \A m \in Nodes \ {n} : V[m] = w[m]
  OBVIOUS
<1>4. InWaiting(W) = (InWaiting(w) \ {old}) \cup {new}
  <2>1. ASSUME NEW c \in InWaiting(W) PROVE c \in (InWaiting(w) \ {old}) \cup {new}
    <3>0. PICK m \in Nodes : \E j \in DOMAIN W[m] : c = Held(<<"waiting", m, j>>, m, W[m][j])
      <4> HIDE DEF W
      <4> QED
        BY InWaitingIs
    <3>1. PICK j \in DOMAIN W[m] : c = Held(<<"waiting", m, j>>, m, W[m][j])
      BY <3>0
    <3>2. CASE m = n /\ j = k
      BY <1>3, <3>1, <3>2
    <3>3. CASE ~(m = n /\ j = k)
      <4>1. j \in DOMAIN w[m] /\ W[m][j] = w[m][j]
        BY <1>3, <3>1, <3>3
      <4>2. c \in InWaiting(w) /\ c # old
        BY <1>2, <3>1, <3>3, <4>1, InWaitingIs
      <4> QED
        BY <4>2
    <3> QED
      BY <3>2, <3>3
  <2>2. new \in InWaiting(W)
    <3>1. k \in DOMAIN W[n] /\ W[n][k] = e
      BY <1>3
    <3> QED
      BY <3>1, InWaitingIs
  <2>3. ASSUME NEW c \in InWaiting(w), c # old PROVE c \in InWaiting(W)
    <3>0. PICK m \in Nodes : \E j \in DOMAIN w[m] : c = Held(<<"waiting", m, j>>, m, w[m][j])
      BY InWaitingIs
    <3>1. PICK j \in DOMAIN w[m] : c = Held(<<"waiting", m, j>>, m, w[m][j])
      BY <3>0
    <3>2. ~(m = n /\ j = k)
      BY <2>3, <3>1
    <3>3. j \in DOMAIN W[m] /\ W[m][j] = w[m][j]
      BY <1>3, <3>1, <3>2
    <3> QED
      BY <3>1, <3>3, InWaitingIs
  <2> QED
    BY <2>1, <2>2, <2>3
<1>5. InWaiting(V) = InWaiting(w) \ {old}
  <2>1. ASSUME NEW c \in InWaiting(V) PROVE c \in InWaiting(w) \ {old}
    <3>0. PICK m \in Nodes : \E j \in DOMAIN V[m] : c = Held(<<"waiting", m, j>>, m, V[m][j])
      <4> HIDE DEF V
      <4> QED
        BY InWaitingIs
    <3>1. PICK j \in DOMAIN V[m] : c = Held(<<"waiting", m, j>>, m, V[m][j])
      BY <3>0
    <3>2. j \in DOMAIN w[m] /\ V[m][j] = w[m][j] /\ ~(m = n /\ j = k)
      BY <1>3, <3>1
    <3> QED
      BY <1>2, <3>1, <3>2, InWaitingIs
  <2>2. ASSUME NEW c \in InWaiting(w), c # old PROVE c \in InWaiting(V)
    <3>0. PICK m \in Nodes : \E j \in DOMAIN w[m] : c = Held(<<"waiting", m, j>>, m, w[m][j])
      BY InWaitingIs
    <3>1. PICK j \in DOMAIN w[m] : c = Held(<<"waiting", m, j>>, m, w[m][j])
      BY <3>0
    <3>2. ~(m = n /\ j = k)
      BY <2>2, <3>1
    <3>3. j \in DOMAIN V[m] /\ V[m][j] = w[m][j]
      BY <1>3, <3>1, <3>2
    <3> QED
      BY <3>1, <3>3, InWaitingIs
  <2> QED
    BY <2>1, <2>2
<1>6. k \in DOMAIN w[n] => old \in InWaiting(w)
  BY InWaitingIs
<1>7. ASSUME k \notin DOMAIN w[n], NEW c \in InWaiting(w) PROVE c.at # <<"waiting", n, k>>
  <2>1. PICK m \in Nodes : \E j \in DOMAIN w[m] : c = Held(<<"waiting", m, j>>, m, w[m][j])
    BY InWaitingIs
  <2> QED
    BY <1>1, <1>7, <2>1
<1> QED
  BY <1>4, <1>5, <1>6, <1>7

\* A run of a node is added or the last is taken away.
OneMore(d, n, task) == [d EXCEPT ![n] = Append(@, task)]
LastTaken(d, n) == [d EXCEPT ![n] = Front(@)]

\* A run of a node is added or, unless it has succeeded, taken away.
LEMMA RunsChange ==
    ASSUME NEW d \in [Nodes -> Seq(Tasks)], NEW n \in Nodes, NEW task \in Tasks
    PROVE  LET new == Held(<<"run", n, Len(d[n]) + 1>>, n, task.data)
               more == InRuns(OneMore(d, n, task))
           IN  /\ task.status = "success" => more = InRuns(d) \cup {new}
               /\ task.status # "success" => more = InRuns(d)
               /\ \A c \in InRuns(d) : c.at # <<"run", n, Len(d[n]) + 1>>
               /\ d[n] # << >> /\ Last(d[n]).status # "success" =>
                     InRuns(LastTaken(d, n)) = InRuns(d)
<1> USE DEF OneMore, LastTaken
<1> DEFINE len == Len(d[n])
           new == Held(<<"run", n, len + 1>>, n, task.data)
           D == [d EXCEPT ![n] = Append(@, task)]
           E == [d EXCEPT ![n] = Front(@)]
<1>1. d[n] \in Seq(Tasks) /\ len \in Nat /\ DOMAIN d[n] = 1..len
  OBVIOUS
<1>2. /\ DOMAIN D[n] = 1..(len + 1) /\ D[n][len + 1] = task
      /\ \A k \in 1..len : D[n][k] = d[n][k]
      /\ \A m \in Nodes \ {n} : D[m] = d[m]
  BY <1>1
<1>3. \A m \in Nodes : \A k \in DOMAIN d[m] : k \in DOMAIN D[m] /\ D[m][k] = d[m][k]
  BY <1>1, <1>2
<1>4. \A m \in Nodes : \A k \in DOMAIN D[m] :
         (k \in DOMAIN d[m] /\ D[m][k] = d[m][k]) \/ (m = n /\ k = len + 1 /\ D[m][k] = task)
  BY <1>1, <1>2
<1>5. InRuns(d) \subseteq InRuns(D)
  <2> HIDE DEF D
  <2> QED BY <1>3, InRunsWithin
<1>6. ASSUME task.status = "success" PROVE InRuns(D) = InRuns(d) \cup {new}
  <2>1. new \in InRuns(D)
    <3>1. len + 1 \in DOMAIN D[n] /\ D[n][len + 1] = task
      BY <1>1, <1>2
    <3> HIDE DEF D
    <3> QED BY <1>6, <3>1, InRunsIs
  <2>2. ASSUME NEW c \in InRuns(D) PROVE c \in InRuns(d) \/ c = new
    <3> HIDE DEF D
    <3>1. PICK m \in Nodes : \E k \in DOMAIN D[m] :
              D[m][k].status = "success" /\ c = Held(<<"run", m, k>>, m, D[m][k].data)
      BY InRunsIs
    <3>2. PICK k \in DOMAIN D[m] :
              D[m][k].status = "success" /\ c = Held(<<"run", m, k>>, m, D[m][k].data)
      BY <3>1
    <3>3. CASE k \in DOMAIN d[m] /\ D[m][k] = d[m][k]
      BY <3>2, <3>3, InRunsIs
    <3>4. CASE m = n /\ k = len + 1 /\ D[m][k] = task
      BY <3>2, <3>4
    <3> QED
      BY <1>4, <3>3, <3>4
  <2> QED
    BY <1>5, <2>1, <2>2
<1>7. ASSUME task.status # "success" PROVE InRuns(D) = InRuns(d)
  <2>1. InRuns(D) \subseteq InRuns(d)
    <3> HIDE DEF D
    <3> QED BY <1>4, <1>7, InRunsWithin
  <2> QED
    BY <1>5, <2>1
<1>8. \A c \in InRuns(d) : c.at # <<"run", n, len + 1>>
  <2> SUFFICES ASSUME NEW c \in InRuns(d), c.at = <<"run", n, len + 1>> PROVE FALSE
    OBVIOUS
  <2>0. PICK m \in Nodes : \E k \in DOMAIN d[m] : c = Held(<<"run", m, k>>, m, d[m][k].data)
    BY InRunsIs
  <2>1. PICK k \in DOMAIN d[m] : c = Held(<<"run", m, k>>, m, d[m][k].data)
    BY <2>0
  <2>2. m = n /\ k = len + 1
    BY <2>1 DEF Held
  <2> QED
    BY <1>1, <2>1, <2>2
<1>9. ASSUME d[n] # << >>, Last(d[n]).status # "success" PROVE InRuns(E) = InRuns(d)
  <2>1. /\ len >= 1 /\ DOMAIN E[n] = 1..(len - 1)
        /\ \A k \in 1..(len - 1) : E[n][k] = d[n][k]
        /\ \A m \in Nodes \ {n} : E[m] = d[m]
    BY <1>1, <1>9 DEF Front
  <2>2. \A m \in Nodes : \A k \in DOMAIN E[m] : k \in DOMAIN d[m] /\ E[m][k] = d[m][k]
    BY <1>1, <2>1
  <2>3. \A m \in Nodes : \A k \in DOMAIN d[m] :
           (k \in DOMAIN E[m] /\ E[m][k] = d[m][k]) \/ d[m][k].status # "success"
    BY <1>1, <1>9, <2>1 DEF Last
  <2> HIDE DEF E
  <2>4. InRuns(E) \subseteq InRuns(d)
    BY <2>2, InRunsWithin
  <2>5. InRuns(d) \subseteq InRuns(E)
    BY <2>3, InRunsWithin
  <2> QED
    BY <2>4, <2>5
<1> QED
  BY <1>6, <1>7, <1>8, <1>9

\* A run returns null.
LEMMA SilentGrows ==
    ASSUME NEW xs, NEW x
    PROVE  InSilent(xs \cup {x}) = InSilent(xs) \cup {Held(<<"silent", x>>, x.node, x.data)}
BY DEF InSilent

-----------------------------------------------------------------------------
(* Steps of the stack, the order and the waiting entries *)

\* The node of a waiting entry that goes leaves the order.
LEMMA RemoveFirstIs ==
    ASSUME NEW s \in Seq(Nodes), IsInjective(s), NEW n
    PROVE  LET t == RemoveFirst(s, n)
           IN  t \in Seq(Nodes) /\ IsInjective(t) /\ Range(t) = Range(s) \ {n}
<1> DEFINE t == RemoveFirst(s, n)
           I == {i \in 1..Len(s) : s[i] = n}
<1>1. Len(s) \in Nat /\ DOMAIN s = 1..Len(s) /\ \A i \in 1..Len(s) : s[i] \in Nodes
  OBVIOUS
<1>2. CASE I = {}
  <2>1. t = s /\ n \notin Range(s)
    BY <1>1, <1>2 DEF RemoveFirst, Range
  <2> QED
    BY <2>1
<1>3. CASE I # {}
  <2> DEFINE m == Min(I)
  <2>1. m \in I
    <3>1. I \in SUBSET Nat
      OBVIOUS
    <3> QED
      BY <1>3, <3>1, MinIsLeast
  <2>2. t = SubSeq(s, 1, m - 1) \o SubSeq(s, m + 1, Len(s))
    BY <1>3 DEF RemoveFirst, RemoveAt, SelectInSeq
  <2>3. m \in 1..Len(s) /\ s[m] = n
    BY <2>1
  <2> HIDE DEF t, m, I
  <2>4. /\ t \in Seq(Nodes) /\ Len(t) = Len(s) - 1
        /\ \A j \in 1..Len(t) : t[j] = IF j < m THEN s[j] ELSE s[j + 1]
    <3>1. /\ SubSeq(s, 1, m - 1) \in Seq(Nodes) /\ Len(SubSeq(s, 1, m - 1)) = m - 1
          /\ \A j \in 1..(m - 1) : SubSeq(s, 1, m - 1)[j] = s[j]
      BY <1>1, <2>3
    <3>2. /\ SubSeq(s, m + 1, Len(s)) \in Seq(Nodes) /\ Len(SubSeq(s, m + 1, Len(s))) = Len(s) - m
          /\ \A j \in 1..(Len(s) - m) : SubSeq(s, m + 1, Len(s))[j] = s[m + j]
      <4>1. m + 1 \in Int /\ Len(s) \in Int /\ \A i \in (m + 1)..Len(s) : s[i] \in Nodes
        BY <1>1, <2>3
      <4>2. /\ SubSeq(s, m + 1, Len(s)) \in Seq(Nodes)
            /\ Len(SubSeq(s, m + 1, Len(s))) = IF m + 1 <= Len(s) THEN Len(s) - (m + 1) + 1 ELSE 0
            /\ \A j \in 1..(Len(s) - (m + 1) + 1) : SubSeq(s, m + 1, Len(s))[j] = s[m + 1 + j - 1]
        BY <4>1, SubSeqProperties
      <4>3. Len(s) - (m + 1) + 1 = Len(s) - m /\ \A j \in 1..(Len(s) - m) : m + 1 + j - 1 = m + j
        BY <1>1, <2>3
      <4>4. (IF m + 1 <= Len(s) THEN Len(s) - (m + 1) + 1 ELSE 0) = Len(s) - m
        <5>1. m \in Nat /\ Len(s) \in Nat /\ m <= Len(s)
          BY <1>1, <2>3
        <5> QED
          BY <5>1
      <4> QED
        BY <4>2, <4>3, <4>4
    <3> DEFINE u == SubSeq(s, 1, m - 1)
               v == SubSeq(s, m + 1, Len(s))
    <3> HIDE DEF u, v
    <3>3. u \in Seq(Nodes) /\ v \in Seq(Nodes) /\ t = u \o v /\ Len(u) = m - 1 /\ Len(v) = Len(s) - m
      BY <2>2, <3>1, <3>2 DEF u, v
    <3>4. t \in Seq(Nodes) /\ Len(t) = Len(s) - 1
      <4>1. t \in Seq(Nodes) /\ Len(t) = Len(u) + Len(v)
        BY <3>3, ConcatProperties
      <4> QED
        BY <1>1, <2>3, <3>3, <4>1
    <3>5. ASSUME NEW j \in 1..Len(t) PROVE t[j] = IF j < m THEN s[j] ELSE s[j + 1]
      <4>1. CASE j < m
        <5>1. j \in 1..(m - 1) /\ t[j] = u[j]
          BY <2>3, <3>3, <4>1
        <5> QED
          BY <3>1, <4>1, <5>1 DEF u
      <4>2. CASE ~(j < m)
        <5>1. /\ j \in Int /\ m \in Int /\ Len(s) \in Int /\ j <= Len(s) - 1 /\ m >= 1
              /\ j \in 1..(Len(u) + Len(v)) /\ ~(j <= Len(u)) /\ Len(u) = m - 1
          BY <1>1, <2>3, <3>3, <3>4, <4>2
        <5>2. t[j] = v[j - Len(u)]
          BY <3>3, <5>1, ConcatProperties
        <5>3. /\ j - Len(u) = j - m + 1 /\ j - m + 1 \in 1..(Len(s) - m)
              /\ m + (j - m + 1) = j + 1
          BY <4>2, <5>1
        <5> QED
          BY <3>2, <4>2, <5>2, <5>3 DEF v
      <4> QED
        BY <4>1, <4>2
    <3> QED
      BY <3>4, <3>5
  <2>5. \A j \in 1..Len(t) : \E i \in 1..Len(s) : i # m /\ t[j] = s[i] /\ (j < m => i = j) /\ (j >= m => i = j + 1)
    <3> SUFFICES ASSUME NEW j \in 1..Len(t)
                 PROVE  \E i \in 1..Len(s) :
                           i # m /\ t[j] = s[i] /\ (j < m => i = j) /\ (j >= m => i = j + 1)
      OBVIOUS
    <3>1. /\ j \in Nat /\ m \in Nat /\ j \in 1..Len(s) /\ j + 1 \in 1..Len(s)
          /\ t[j] = IF j < m THEN s[j] ELSE s[j + 1]
      BY <1>1, <2>3, <2>4
    <3>2. CASE j < m
      <4>1. j # m /\ t[j] = s[j]
        BY <3>1, <3>2
      <4> QED
        BY <3>1, <3>2, <4>1
    <3>3. CASE ~(j < m)
      <4>1. j + 1 # m /\ t[j] = s[j + 1]
        BY <3>1, <3>3
      <4> QED
        BY <3>1, <3>3, <4>1
    <3> QED
      BY <3>2, <3>3
  <2>6. \A i \in 1..Len(s) : i # m => \E j \in 1..Len(t) : t[j] = s[i]
    <3> SUFFICES ASSUME NEW i \in 1..Len(s), i # m PROVE \E j \in 1..Len(t) : t[j] = s[i]
      OBVIOUS
    <3>1. CASE i < m
      BY <1>1, <2>3, <2>4, <3>1
    <3>2. CASE i > m
      <4>1. i - 1 \in 1..Len(t) /\ ~(i - 1 < m) /\ i - 1 + 1 = i
        BY <1>1, <2>3, <2>4, <3>2
      <4> QED
        BY <2>4, <4>1
    <3> QED
      BY <1>1, <2>3, <3>1, <3>2
  <2>7. \A i \in 1..Len(s) : s[i] = n => i = m
    BY <1>1, <2>3 DEF IsInjective
  <2>8. Range(t) = Range(s) \ {n}
    <3>1. DOMAIN t = 1..Len(t)
      BY <2>4
    <3>2. \A x \in Range(t) : x \in Range(s) \ {n}
      BY <1>1, <2>5, <2>7, <3>1 DEF Range
    <3>3. \A x \in Range(s) \ {n} : x \in Range(t)
      BY <1>1, <2>3, <2>6, <3>1 DEF Range
    <3> QED
      BY <3>2, <3>3
  <2>9. IsInjective(t)
    <3>1. DOMAIN t = 1..Len(t)
      BY <2>4
    <3>2. \A i, j \in 1..Len(t) : t[i] = t[j] => i = j
      <4> SUFFICES ASSUME NEW i \in 1..Len(t), NEW j \in 1..Len(t), t[i] = t[j] PROVE i = j
        OBVIOUS
      <4>1. PICK k \in 1..Len(s) : t[i] = s[k] /\ (i < m => k = i) /\ (i >= m => k = i + 1)
        BY <2>5
      <4>2. PICK l \in 1..Len(s) : t[j] = s[l] /\ (j < m => l = j) /\ (j >= m => l = j + 1)
        BY <2>5
      <4>3. k = l
        BY <1>1, <4>1, <4>2 DEF IsInjective
      <4> QED
        BY <2>3, <4>1, <4>2, <4>3
    <3> QED
      BY <3>1, <3>2 DEF IsInjective
  <2> QED
    BY <2>4, <2>8, <2>9 DEF t
<1> QED
  BY <1>2, <1>3

\* The node of a first waiting entry is added to the order.
LEMMA AppendIs ==
    ASSUME NEW s \in Seq(Nodes), IsInjective(s), NEW n \in Nodes, n \notin Range(s)
    PROVE  LET t == Append(s, n)
           IN  t \in Seq(Nodes) /\ IsInjective(t) /\ Range(t) = Range(s) \cup {n}
<1> DEFINE t == Append(s, n)
<1>1. /\ Len(s) \in Nat /\ DOMAIN s = 1..Len(s) /\ t \in Seq(Nodes) /\ DOMAIN t = 1..(Len(s) + 1)
      /\ t[Len(s) + 1] = n /\ \A i \in 1..Len(s) : t[i] = s[i] /\ i \in 1..(Len(s) + 1)
  OBVIOUS
<1>2. \A i \in 1..(Len(s) + 1) : i = Len(s) + 1 \/ i \in 1..Len(s)
  BY <1>1
<1>3. \A i \in 1..Len(s) : s[i] # n
  BY <1>1 DEF Range
<1>4. Len(s) + 1 \in 1..(Len(s) + 1)
  BY <1>1
<1> HIDE DEF t
<1>5. IsInjective(t)
  BY <1>1, <1>2, <1>3 DEF IsInjective
<1>6. Range(t) = Range(s) \cup {n}
  BY <1>1, <1>2, <1>4 DEF Range
<1> QED
  BY <1>1, <1>5, <1>6 DEF t

-----------------------------------------------------------------------------
(* A batch is added *)

\* Where it goes and what is there before and after.
New(r, l) == LackingIn(r.waiting[l.to], l.input) = {}
Slot(r, l) == WaitingNodeIndex(r.waiting[l.to], l.input)
OldData(r, l) ==
    IF New(r, l) THEN [i \in Inputs(l.to) |-> Missing] ELSE r.waiting[l.to][Slot(r, l)]
NewData(r, l, b) ==
    [i \in DOMAIN OldData(r, l) \cup {l.input} |-> IF i = l.input THEN b ELSE OldData(r, l)[i]]
Complete(r, l, b) == Missing \notin Range(NewData(r, l, b))

\* The slot is the first entry that lacks the input, or a new one.
LEMMA SlotFacts ==
    ASSUME NEW r, NEW l, IsFiniteSet(DOMAIN r.waiting[l.to]), DOMAIN r.waiting[l.to] \subseteq Nat
    PROVE  /\ Slot(r, l) \in Nat
           /\ New(r, l) => /\ Slot(r, l) = Cardinality(DOMAIN r.waiting[l.to])
                           /\ \A k \in DOMAIN r.waiting[l.to] : HasInput(r.waiting[l.to][k], l.input)
           /\ ~New(r, l) =>
                 /\ Slot(r, l) \in DOMAIN r.waiting[l.to]
                 /\ ~HasInput(r.waiting[l.to][Slot(r, l)], l.input)
                 /\ \A k \in DOMAIN r.waiting[l.to] :
                       ~HasInput(r.waiting[l.to][k], l.input) => Slot(r, l) <= k
<1> DEFINE entries == r.waiting[l.to]
           lacking == LackingIn(entries, l.input)
<1>1. lacking \in SUBSET Nat
  BY DEF LackingIn
<1>2. CASE New(r, l)
  <2>1. Slot(r, l) = Cardinality(DOMAIN entries)
    BY <1>2 DEF New, Slot, WaitingNodeIndex
  <2> QED
    BY <1>2, <2>1, FS_CardinalityType DEF New, LackingIn
<1>3. CASE ~New(r, l)
  <2>1. Slot(r, l) = Min(lacking) /\ lacking # {}
    BY <1>3 DEF New, Slot, WaitingNodeIndex
  <2>2. Min(lacking) \in lacking /\ \A k \in lacking : Min(lacking) <= k
    BY <1>1, <2>1, MinIsLeast
  <2>3. \A k \in DOMAIN entries : ~HasInput(entries[k], l.input) => k \in lacking
    BY DEF LackingIn
  <2>4. \A k \in lacking : k \in Nat /\ k \in DOMAIN entries /\ ~HasInput(entries[k], l.input)
    BY DEF LackingIn
  <2> QED
    BY <1>3, <2>1, <2>2, <2>3, <2>4
<1> QED
  BY <1>2, <1>3

\* What an entry is: a batch or nothing for each of some inputs.
LEMMA EntryIs ==
    ASSUME NEW n, NEW e
    PROVE  e \in EntryOf(n) <=> /\ DOMAIN e \subseteq Inputs(n) /\ DOMAIN e # {}
                                /\ e \in [DOMAIN e -> AllBatches \cup {Missing}]
BY DEF EntryOf

\* What the row makes of an entry: what has been set stays, and nothing else is added.
LEMMA ReadEntryIs ==
    ASSUME workflow \in Workflows, NEW n, NEW e \in EntryOf(n)
    PROVE  /\ ReadEntry(e) \in EntryOf(n) /\ ReadEntry(e) \in Data
           /\ DOMAIN e \subseteq DOMAIN ReadEntry(e)
           /\ \A i \in DOMAIN e : ReadEntry(e)[i] = e[i]
           /\ \A i \in DOMAIN ReadEntry(e) \ DOMAIN e : ReadEntry(e)[i] = Missing
           /\ DOMAIN e = Inputs(n) => ReadEntry(e) = e
<1> DEFINE D == DOMAIN e
           f == ReadEntry(e)
<1>1. PICK m \in Nat : Inputs(n) = 0..m
  BY InputsAre
<1>2. D \subseteq Inputs(n) /\ D # {} /\ e \in [D -> AllBatches \cup {Missing}]
  BY EntryIs
<1>3. Max(D) \in D /\ \A i \in D : i <= Max(D)
  <2>1. D \in SUBSET Nat /\ \A i \in D : i <= m
    BY <1>1, <1>2
  <2> HIDE DEF D
  <2> QED
    BY <1>2, <2>1, MaxIsGreatest
<1>4. f = [i \in 0..Max(D) |-> IF i \in D THEN e[i] ELSE Missing]
  BY DEF ReadEntry
<1> HIDE DEF f
<1>5. D \subseteq 0..Max(D) /\ 0..Max(D) \subseteq 0..m /\ Max(D) \in Nat
  <2> HIDE DEF D
  <2> QED BY <1>1, <1>2, <1>3
<1>6. DOMAIN f = 0..Max(D)
      /\ \A i \in 0..Max(D) : f[i] = IF i \in D THEN e[i] ELSE Missing
  BY <1>4
<1>7. f \in EntryOf(n)
  <2>1. f \in [0..Max(D) -> AllBatches \cup {Missing}]
    BY <1>2, <1>4
  <2> HIDE DEF D
  <2> QED
    BY <1>1, <1>2, <1>5, <1>6, <2>1, EntryIs
<1>8. f \in Data
  BY <1>7, EntryIs, InputsFacts, DataIs DEF Values
<1>9. D = Inputs(n) => f = e
  <2> SUFFICES ASSUME D = Inputs(n) PROVE f = e
    OBVIOUS
  <2>1. 0..Max(D) = D
    BY <1>1, <1>5
  <2> HIDE DEF D
  <2> QED
    BY <1>2, <1>4, <2>1
<1> QED
  BY <1>5, <1>6, <1>7, <1>8, <1>9 DEF f

\* What is known of a node's entries.
LEMMA EntriesFacts ==
    ASSUME NEW r, TypeOK(r), NEW n \in Nodes
    PROVE  /\ IsFiniteSet(DOMAIN r.waiting[n]) /\ DOMAIN r.waiting[n] \subseteq Nat
           /\ r.waiting[n] \in [DOMAIN r.waiting[n] -> Data]
           /\ n \in Range(r.order) <=> DOMAIN r.waiting[n] # {}
           /\ \A k \in DOMAIN r.waiting[n] :
                 /\ r.waiting[n][k] \in EntryOf(n)
                 /\ \E i \in Inputs(n) : ~HasInput(r.waiting[n][k], i)
<1>1. r.waiting[n] \in UNION {[D -> Data] : D \in SUBSET Nat}
  BY DEF TypeOK, Records, Waitings
<1>2. DOMAIN r.waiting[n] \subseteq Nat /\ r.waiting[n] \in [DOMAIN r.waiting[n] -> Data]
  BY <1>1
<1> QED
  BY <1>2 DEF TypeOK, WaitingOK

\* The entry a batch is put into, and what becomes of it, are entries of the node.
LEMMA NewDataIs ==
    ASSUME workflow \in Workflows, NEW r, TypeOK(r), NEW l \in workflow.links, NEW b \in AllBatches
    PROVE  /\ l.to \in Nodes /\ l.input \in Inputs(l.to) /\ Inputs(l.to) \subseteq Nat
           /\ OldData(r, l) \in EntryOf(l.to) /\ NewData(r, l, b) \in EntryOf(l.to)
           /\ ~HasInput(OldData(r, l), l.input)
           /\ New(r, l) => /\ DOMAIN OldData(r, l) = Inputs(l.to)
                           /\ \A i \in Inputs(l.to) : OldData(r, l)[i] = Missing
           /\ NewData(r, l, b) \in Data
           /\ ~Complete(r, l, b) => \E i \in Inputs(l.to) : ~HasInput(NewData(r, l, b), i)
<1>1. l.to \in Nodes /\ l.input \in Inputs(l.to) /\ Inputs(l.to) \subseteq Nat
  BY GraphFacts, InputsFacts DEF Links
<1>2. /\ OldData(r, l) \in EntryOf(l.to)
      /\ ~HasInput(OldData(r, l), l.input)
      /\ New(r, l) => /\ DOMAIN OldData(r, l) = Inputs(l.to)
                      /\ \A i \in Inputs(l.to) : OldData(r, l)[i] = Missing
  <2>1. CASE New(r, l)
    <3>1. OldData(r, l) = [i \in Inputs(l.to) |-> Missing]
      BY <2>1 DEF OldData
    <3>2. OldData(r, l) \in EntryOf(l.to)
      BY <1>1, <3>1, EntryIs
    <3> QED
      BY <1>1, <3>1, <3>2 DEF HasInput
  <2>2. CASE ~New(r, l)
    <3>1. OldData(r, l) = r.waiting[l.to][Slot(r, l)]
      BY <2>2 DEF OldData
    <3>2. Slot(r, l) \in DOMAIN r.waiting[l.to] /\ ~HasInput(r.waiting[l.to][Slot(r, l)], l.input)
      BY <1>1, <2>2, EntriesFacts, SlotFacts
    <3> QED
      BY <1>1, <2>2, <3>1, <3>2, EntriesFacts
  <2> QED
    BY <2>1, <2>2
<1>3. /\ DOMAIN NewData(r, l, b) = DOMAIN OldData(r, l) \cup {l.input}
      /\ NewData(r, l, b)[l.input] = b
      /\ \A i \in DOMAIN OldData(r, l) : i # l.input => NewData(r, l, b)[i] = OldData(r, l)[i]
  BY DEF NewData
<1>4. NewData(r, l, b) \in EntryOf(l.to)
  <2>1. DOMAIN OldData(r, l) \subseteq Inputs(l.to)
        /\ \A i \in DOMAIN OldData(r, l) : OldData(r, l)[i] \in AllBatches \cup {Missing}
    BY <1>2, EntryIs
  <2>2. NewData(r, l, b) \in [DOMAIN NewData(r, l, b) -> AllBatches \cup {Missing}]
    BY <2>1 DEF NewData
  <2> QED
    BY <1>1, <1>3, <2>1, <2>2, EntryIs
<1>5. NewData(r, l, b) \in Data
  BY <1>1, <1>4, EntryIs, DataIs DEF Values
<1>6. ~Complete(r, l, b) => \E i \in Inputs(l.to) : ~HasInput(NewData(r, l, b), i)
  <2>1. \A i \in DOMAIN NewData(r, l, b) : i \in Inputs(l.to)
    BY <1>4, EntryIs
  <2> QED
    BY <2>1 DEF Complete, Range, HasInput
<1> QED
  BY <1>1, <1>2, <1>3, <1>4, <1>5, <1>6

\* The same where all entries are of full length.
LEMMA FullEntries ==
    ASSUME NEW r, TypeOK(r), FullLength(r.waiting), NEW n \in Nodes
    PROVE  \A k \in DOMAIN r.waiting[n] :
              /\ r.waiting[n][k] \in [Inputs(n) -> AllBatches \cup {Missing}]
              /\ \E i \in Inputs(n) : r.waiting[n][k][i] = Missing
<1> SUFFICES ASSUME NEW k \in DOMAIN r.waiting[n]
             PROVE  /\ r.waiting[n][k] \in [Inputs(n) -> AllBatches \cup {Missing}]
                    /\ \E i \in Inputs(n) : r.waiting[n][k][i] = Missing
  OBVIOUS
<1>1. DOMAIN r.waiting[n][k] = Inputs(n)
  BY DEF FullLength
<1>2. r.waiting[n][k] \in EntryOf(n) /\ \E i \in Inputs(n) : ~HasInput(r.waiting[n][k], i)
  BY EntriesFacts
<1> QED
  BY <1>1, <1>2, EntryIs DEF HasInput

LEMMA FullSlot ==
    ASSUME workflow \in Workflows, NEW r, TypeOK(r), FullLength(r.waiting),
           NEW l \in workflow.links
    PROVE  /\ New(r, l) => \A k \in DOMAIN r.waiting[l.to] : r.waiting[l.to][k][l.input] # Missing
           /\ ~New(r, l) =>
                 /\ r.waiting[l.to][Slot(r, l)][l.input] = Missing
                 /\ \A k \in DOMAIN r.waiting[l.to] :
                       r.waiting[l.to][k][l.input] = Missing => Slot(r, l) <= k
<1>1. l.to \in Nodes /\ l.input \in Inputs(l.to)
  BY GraphFacts, InputsFacts DEF Links
<1>2. IsFiniteSet(DOMAIN r.waiting[l.to]) /\ DOMAIN r.waiting[l.to] \subseteq Nat
  BY <1>1, EntriesFacts
<1>3. \A k \in DOMAIN r.waiting[l.to] :
         HasInput(r.waiting[l.to][k], l.input) <=> r.waiting[l.to][k][l.input] # Missing
  BY <1>1 DEF FullLength, HasInput
<1> QED
  BY <1>2, <1>3, SlotFacts

LEMMA FullNewData ==
    ASSUME workflow \in Workflows, NEW r, TypeOK(r), FullLength(r.waiting),
           NEW l \in workflow.links, NEW b \in AllBatches
    PROVE  /\ l.to \in Nodes /\ l.input \in Inputs(l.to) /\ NewData(r, l, b) \in Data
           /\ DOMAIN OldData(r, l) = Inputs(l.to) /\ DOMAIN NewData(r, l, b) = Inputs(l.to)
           /\ NewData(r, l, b)[l.input] = b
           /\ New(r, l) => \A i \in Inputs(l.to) : OldData(r, l)[i] = Missing
           /\ OldData(r, l) \in [Inputs(l.to) -> AllBatches \cup {Missing}]
           /\ NewData(r, l, b) \in [Inputs(l.to) -> AllBatches \cup {Missing}]
           /\ OldData(r, l)[l.input] = Missing
           /\ \A i \in Inputs(l.to) : i # l.input => NewData(r, l, b)[i] = OldData(r, l)[i]
           /\ ~Complete(r, l, b) => \E i \in Inputs(l.to) : NewData(r, l, b)[i] = Missing
<1>1. /\ l.to \in Nodes /\ l.input \in Inputs(l.to) /\ NewData(r, l, b) \in Data
      /\ OldData(r, l) \in EntryOf(l.to) /\ NewData(r, l, b) \in EntryOf(l.to)
      /\ ~HasInput(OldData(r, l), l.input)
  <2>1. l.to \in Nodes /\ l.input \in Inputs(l.to) /\ NewData(r, l, b) \in Data
    BY NewDataIs
  <2>2. OldData(r, l) \in EntryOf(l.to)
    BY NewDataIs
  <2>3. NewData(r, l, b) \in EntryOf(l.to)
    BY NewDataIs
  <2>4. ~HasInput(OldData(r, l), l.input)
    BY NewDataIs
  <2> QED
    BY <2>1, <2>2, <2>3, <2>4
<1>1a. /\ DOMAIN NewData(r, l, b) = DOMAIN OldData(r, l) \cup {l.input}
       /\ NewData(r, l, b)[l.input] = b
       /\ \A i \in DOMAIN OldData(r, l) : i # l.input => NewData(r, l, b)[i] = OldData(r, l)[i]
  BY DEF NewData
<1>1b. /\ New(r, l) => /\ DOMAIN OldData(r, l) = Inputs(l.to)
                       /\ \A i \in Inputs(l.to) : OldData(r, l)[i] = Missing
       /\ ~Complete(r, l, b) => \E i \in Inputs(l.to) : ~HasInput(NewData(r, l, b), i)
  <2>1. New(r, l) => DOMAIN OldData(r, l) = Inputs(l.to)
    BY NewDataIs
  <2>2. New(r, l) => \A i \in Inputs(l.to) : OldData(r, l)[i] = Missing
    BY NewDataIs
  <2>3. ~Complete(r, l, b) => \E i \in Inputs(l.to) : ~HasInput(NewData(r, l, b), i)
    BY NewDataIs
  <2> QED
    BY <2>1, <2>2, <2>3
<1>2. DOMAIN OldData(r, l) = Inputs(l.to)
  <2>1. CASE New(r, l)
    BY <1>1b, <2>1
  <2>2. CASE ~New(r, l)
    <3>1. Slot(r, l) \in DOMAIN r.waiting[l.to]
      BY <1>1, <2>2, EntriesFacts, SlotFacts
    <3> QED
      BY <1>1, <2>2, <3>1 DEF OldData, FullLength
  <2> QED
    BY <2>1, <2>2
<1>3. DOMAIN NewData(r, l, b) = Inputs(l.to)
  BY <1>1, <1>1a, <1>2
<1>4. /\ OldData(r, l) \in [Inputs(l.to) -> AllBatches \cup {Missing}]
      /\ NewData(r, l, b) \in [Inputs(l.to) -> AllBatches \cup {Missing}]
  BY <1>1, <1>2, <1>3, EntryIs
<1>5. OldData(r, l)[l.input] = Missing
  BY <1>1, <1>2 DEF HasInput
<1>6. \A i \in Inputs(l.to) : i # l.input => NewData(r, l, b)[i] = OldData(r, l)[i]
  BY <1>1a, <1>2
<1>7. ~Complete(r, l, b) => \E i \in Inputs(l.to) : NewData(r, l, b)[i] = Missing
  BY <1>1b, <1>3 DEF HasInput
<1> QED
  BY <1>1, <1>1a, <1>1b, <1>2, <1>3, <1>4, <1>5, <1>6, <1>7

\* What stays of an execution when a batch is added or a node that waits is run.
Rest(r, q) ==
    /\ q.runData = r.runData /\ q.last = r.last /\ q.waitTill = r.waitTill
    /\ q.destination = r.destination /\ q.filter = r.filter /\ q.stored = r.stored
    /\ q.status = r.status /\ q.kept = r.kept /\ q.silent = r.silent /\ q.waited = r.waited
    /\ q.unchecked = r.unchecked /\ q.marred = r.marred

Moved(r, s, w, o, m) == [r EXCEPT !.stack = s, !.waiting = w, !.order = o, !.misplaced = m]

\* An item on the stack that is to be passed over was there before.
NoNewDisabled(r, q) ==
    \A i \in DOMAIN q.stack : q.stack[i].disabled => \E j \in DOMAIN r.stack : q.stack[i] = r.stack[j]

\* Adding changes the stack, the waiting entries, the order and the misplaced nodes.
LEMMA RestFacts ==
    ASSUME NEW r \in Records, NEW s \in Seq(Items), NEW w \in Waitings,
           NEW o \in Seq(Nodes), NEW m \in SUBSET Nodes
    PROVE  LET q == Moved(r, s, w, o, m)
           IN  /\ q \in Records /\ Rest(r, q)
               /\ q.stack = s /\ q.waiting = w /\ q.order = o /\ q.misplaced = m
BY DEF Records, Rest, Moved

\* What adding a batch makes of the fields that change.
AddedMisplaced(r, l) ==
    IF New(r, l) /\ DOMAIN r.waiting[l.to] # 0..(Slot(r, l) - 1)
    THEN r.misplaced \cup {l.to} ELSE r.misplaced
AddedStack(r, l, b) ==
    IF Complete(r, l, b) THEN <<Item(l.to, NewData(r, l, b))>> \o r.stack ELSE r.stack
AddedWaiting(r, l, b) ==
    [r.waiting EXCEPT ![l.to] = IF Complete(r, l, b) THEN Left(r.waiting, l.to, Slot(r, l))
                                ELSE Put(r.waiting, l.to, Slot(r, l), NewData(r, l, b))]
AddedOrder(r, l, b) ==
    IF Complete(r, l, b)
    THEN IF DOMAIN Left(r.waiting, l.to, Slot(r, l)) = {} THEN RemoveFirst(r.order, l.to) ELSE r.order
    ELSE IF DOMAIN r.waiting[l.to] = {} THEN Append(r.order, l.to) ELSE r.order

\* AddNodeToBeExecuted, part by part.
LEMMA AddIs ==
    ASSUME NEW r \in Records, NEW l, NEW b
    PROVE  AddNodeToBeExecuted(r, l, b) = Moved(r, AddedStack(r, l, b), AddedWaiting(r, l, b),
                                                AddedOrder(r, l, b), AddedMisplaced(r, l))
<1> DEFINE n == l.to
           k == Slot(r, l)
           q == AddNodeToBeExecuted(r, l, b)
           put == [j \in DOMAIN r.waiting[n] \cup {k} |->
                      IF j = k THEN NewData(r, l, b) ELSE r.waiting[n][j]]
           placed == [r EXCEPT !.misplaced =
                         IF New(r, l) /\ DOMAIN r.waiting[n] # 0..(k - 1) THEN @ \cup {n} ELSE @]
           left == Left(placed.waiting, n, k)
<1>1. q = IF Complete(r, l, b)
          THEN [RemoveEntry(placed, n, k) EXCEPT !.stack = <<Item(n, NewData(r, l, b))>> \o @]
          ELSE [placed EXCEPT !.waiting[n] = put,
                              !.order = IF DOMAIN r.waiting[n] = {} THEN Append(@, n) ELSE @]
  BY DEF AddNodeToBeExecuted, Complete, NewData, OldData, Slot, New
<1>2. placed = [r EXCEPT !.misplaced = AddedMisplaced(r, l)]
  BY DEF AddedMisplaced, Records
<1>3. RemoveEntry(placed, n, k) =
         [placed EXCEPT !.waiting = [placed.waiting EXCEPT ![n] = left],
                        !.order = IF DOMAIN left = {} THEN RemoveFirst(placed.order, n) ELSE placed.order]
  <2> HIDE DEF placed, k
  <2>1. placed = [r EXCEPT !.misplaced = AddedMisplaced(r, l)]
    BY <1>2
  <2> QED
    BY <2>1 DEF RemoveEntry, Left, Records
<1> HIDE DEF q, placed
<1>4. /\ placed.waiting = r.waiting /\ placed.order = r.order /\ placed.stack = r.stack
  BY <1>2 DEF Records
<1> DEFINE s == AddedStack(r, l, b)
           w == AddedWaiting(r, l, b)
           o == AddedOrder(r, l, b)
           m == AddedMisplaced(r, l)
<1>5. CASE Complete(r, l, b)
  <2>1. /\ s = <<Item(n, NewData(r, l, b))>> \o r.stack
        /\ w = [r.waiting EXCEPT ![n] = left]
        /\ o = IF DOMAIN left = {} THEN RemoveFirst(r.order, n) ELSE r.order
    BY <1>4, <1>5 DEF AddedStack, AddedWaiting, AddedOrder
  <2>2. q = [RemoveEntry(placed, n, k) EXCEPT !.stack = <<Item(n, NewData(r, l, b))>> \o @]
    BY <1>1, <1>5
  <2> HIDE DEF s, w, o, m, left, k
  <2>3. RemoveEntry(placed, n, k) = [placed EXCEPT !.waiting = w, !.order = o]
    BY <1>3, <1>4, <2>1
  <2>4. q = [r EXCEPT !.stack = s, !.waiting = w, !.order = o, !.misplaced = m]
    BY <1>2, <2>1, <2>2, <2>3 DEF Records, m
  <2> QED
    BY <2>4 DEF s, w, o, m, q, Moved
<1>6. CASE ~Complete(r, l, b)
  <2>1. /\ s = r.stack /\ w = [r.waiting EXCEPT ![n] = put]
        /\ o = IF DOMAIN r.waiting[n] = {} THEN Append(r.order, n) ELSE r.order
    BY <1>6 DEF AddedStack, AddedWaiting, AddedOrder, Put
  <2>2. q = [placed EXCEPT !.waiting[n] = put,
                           !.order = IF DOMAIN r.waiting[n] = {} THEN Append(@, n) ELSE @]
    BY <1>1, <1>6
  <2> HIDE DEF s, w, o, m, put
  <2>3. q = [placed EXCEPT !.waiting = w, !.order = o]
    BY <1>4, <2>1, <2>2
  <2>4. q = [r EXCEPT !.stack = s, !.waiting = w, !.order = o, !.misplaced = m]
    BY <1>2, <2>1, <2>3 DEF Records, m
  <2> QED
    BY <2>4 DEF s, w, o, m, q, Moved
<1> QED
  BY <1>5, <1>6

\* A function from numbers to data, and an item, by what they are made of.
LEMMA EntriesAre ==
    ASSUME NEW e, DOMAIN e \subseteq Nat, \A k \in DOMAIN e : e[k] \in Data, e = [k \in DOMAIN e |-> e[k]]
    PROVE  e \in UNION {[D -> Data] : D \in SUBSET Nat}
<1>1. e \in [DOMAIN e -> Data]
  OBVIOUS
<1> QED
  BY <1>1

\* An entry goes, or is put in place of another or as a new one.
LEMMA LeftIs ==
    ASSUME NEW r, TypeOK(r), NEW n \in Nodes, NEW k \in Nat
    PROVE  LET w == [r.waiting EXCEPT ![n] = Left(r.waiting, n, k)]
               o == IF DOMAIN Left(r.waiting, n, k) = {} THEN RemoveFirst(r.order, n) ELSE r.order
           IN  /\ w \in Waitings /\ o \in Seq(Nodes)
               /\ WaitingOK(w, o)
               /\ Range(o) \subseteq Range(r.order)
<1> DEFINE left == Left(r.waiting, n, k)
           w == [r.waiting EXCEPT ![n] = left]
           o == IF DOMAIN left = {} THEN RemoveFirst(r.order, n) ELSE r.order
<1>1. DOMAIN left = DOMAIN r.waiting[n] \ {k} /\ \A j \in DOMAIN left : left[j] = r.waiting[n][j]
  BY DEF Left
<1>2. IsFiniteSet(DOMAIN left)
  BY <1>1, EntriesFacts, FS_Subset
<1>3. left \in UNION {[D -> Data] : D \in SUBSET Nat}
  <2>1. DOMAIN left \subseteq Nat /\ \A j \in DOMAIN left : left[j] \in Data
    BY <1>1, EntriesFacts
  <2>2. left = [j \in DOMAIN left |-> left[j]]
    BY DEF Left
  <2> HIDE DEF left
  <2> QED
    BY <2>1, <2>2, EntriesAre
<1>4. w \in Waitings /\ w[n] = left
      /\ \A m \in Nodes \ {n} : w[m] = r.waiting[m]
  BY <1>3 DEF TypeOK, Records, Waitings
<1>5. r.order \in Seq(Nodes) /\ IsInjective(r.order)
  BY DEF TypeOK, Records, WaitingOK
<1>6. o \in Seq(Nodes) /\ IsInjective(o)
      /\ Range(o) = IF DOMAIN left = {} THEN Range(r.order) \ {n} ELSE Range(r.order)
  BY <1>5, RemoveFirstIs
<1>7. ASSUME NEW m \in Nodes
      PROVE  /\ m \in Range(o) <=> DOMAIN w[m] # {}
             /\ IsFiniteSet(DOMAIN w[m])
             /\ \A j \in DOMAIN w[m] :
                   /\ w[m][j] \in EntryOf(m)
                   /\ \E i \in Inputs(m) : ~HasInput(w[m][j], i)
  <2>1. CASE m = n
    <3>1. n \in Range(r.order) <=> DOMAIN r.waiting[n] # {}
      BY EntriesFacts
    <3>2. m \in Range(o) <=> DOMAIN w[m] # {}
      BY <1>1, <1>4, <1>6, <2>1, <3>1
    <3>3. w[m] = left
      BY <1>4, <2>1
    <3> HIDE DEF left, w, o
    <3> QED
      BY <1>1, <1>2, <2>1, <3>2, <3>3, EntriesFacts
  <2>2. CASE m # n
    <3>1. w[m] = r.waiting[m] /\ (m \in Range(o) <=> m \in Range(r.order))
      BY <1>4, <1>6, <2>2
    <3> HIDE DEF w, o
    <3> QED
      BY <2>2, <3>1, EntriesFacts
  <2> QED
    BY <2>1, <2>2
<1> HIDE DEF w, o, left
<1>8. WaitingOK(w, o)
  BY <1>6, <1>7 DEF WaitingOK
<1> QED
  BY <1>4, <1>6, <1>8 DEF w, o, left

\* An entry that still lacks an input keeps the waiting entries well formed.
LEMMA PutIs ==
    ASSUME NEW r, TypeOK(r), NEW n \in Nodes, NEW k \in Nat, NEW e \in Data,
           e \in EntryOf(n), \E i \in Inputs(n) : ~HasInput(e, i)
    PROVE  LET w == [r.waiting EXCEPT ![n] = Put(r.waiting, n, k, e)]
               o == IF DOMAIN r.waiting[n] = {} THEN Append(r.order, n) ELSE r.order
           IN  /\ w \in Waitings /\ o \in Seq(Nodes)
               /\ WaitingOK(w, o)
               /\ Range(o) \subseteq Range(r.order) \cup {n}
<1> DEFINE put == Put(r.waiting, n, k, e)
           w == [r.waiting EXCEPT ![n] = put]
           o == IF DOMAIN r.waiting[n] = {} THEN Append(r.order, n) ELSE r.order
<1>1. /\ DOMAIN put = DOMAIN r.waiting[n] \cup {k} /\ put[k] = e
      /\ \A j \in DOMAIN put : j # k => put[j] = r.waiting[n][j]
  BY DEF Put
<1>2. IsFiniteSet(DOMAIN put)
  <2>1. IsFiniteSet(DOMAIN r.waiting[n] \cup {k})
    BY EntriesFacts, FS_AddElement
  <2> QED
    BY <1>1, <2>1
<1>3. put \in UNION {[D -> Data] : D \in SUBSET Nat}
  <2>1. DOMAIN put \subseteq Nat /\ \A j \in DOMAIN put : put[j] \in Data
    BY <1>1, EntriesFacts
  <2>2. put = [j \in DOMAIN put |-> put[j]]
    BY DEF Put
  <2> HIDE DEF put
  <2> QED
    BY <2>1, <2>2, EntriesAre
<1>4. w \in Waitings /\ w[n] = put
      /\ \A m \in Nodes \ {n} : w[m] = r.waiting[m]
  BY <1>3 DEF TypeOK, Records, Waitings
<1>5. r.order \in Seq(Nodes) /\ IsInjective(r.order)
  BY DEF TypeOK, Records, WaitingOK
<1>6. o \in Seq(Nodes) /\ IsInjective(o) /\ Range(o) = Range(r.order) \cup {n}
  <2>1. n \in Range(r.order) <=> DOMAIN r.waiting[n] # {}
    BY EntriesFacts
  <2>2. CASE DOMAIN r.waiting[n] = {}
    BY <1>5, <2>1, <2>2, AppendIs
  <2>3. CASE DOMAIN r.waiting[n] # {}
    BY <1>5, <2>1, <2>3
  <2> QED
    BY <2>2, <2>3
<1>7. ASSUME NEW m \in Nodes
      PROVE  /\ m \in Range(o) <=> DOMAIN w[m] # {}
             /\ IsFiniteSet(DOMAIN w[m])
             /\ \A j \in DOMAIN w[m] :
                   /\ w[m][j] \in EntryOf(m)
                   /\ \E i \in Inputs(m) : ~HasInput(w[m][j], i)
  <2>1. CASE m = n
    <3>1. m \in Range(o) /\ w[m] = put /\ DOMAIN put # {}
      BY <1>1, <1>4, <1>6, <2>1
    <3> HIDE DEF put, w, o
    <3>2. ASSUME NEW j \in DOMAIN put
          PROVE  /\ put[j] \in EntryOf(m)
                 /\ \E i \in Inputs(m) : ~HasInput(put[j], i)
      BY <1>1, <2>1, EntriesFacts
    <3> QED
      BY <1>2, <3>1, <3>2
  <2>2. CASE m # n
    <3>1. w[m] = r.waiting[m] /\ (m \in Range(o) <=> m \in Range(r.order))
      BY <1>4, <1>6, <2>2
    <3> HIDE DEF w, o
    <3> QED
      BY <2>2, <3>1, EntriesFacts
  <2> QED
    BY <2>1, <2>2
<1> HIDE DEF w, o, put
<1>8. WaitingOK(w, o)
  BY <1>6, <1>7 DEF WaitingOK
<1> QED
  BY <1>4, <1>6, <1>8 DEF w, o, put

\* An item on top of a stack: the others move down by one.
LEMMA PushedIs ==
    ASSUME NEW s \in Seq(Items), NEW x \in Items
    PROVE  /\ <<x>> \o s \in Seq(Items) /\ <<x>> \o s # <<>> /\ Len(<<x>> \o s) = Len(s) + 1
           /\ \A i \in DOMAIN (<<x>> \o s) :
                 (<<x>> \o s)[i] = x \/ \E j \in DOMAIN s : (<<x>> \o s)[i] = s[j]
           /\ (<<x>> \o s)[1] = x /\ 1 \in DOMAIN (<<x>> \o s)
           /\ \A j \in DOMAIN s : \E i \in DOMAIN (<<x>> \o s) : (<<x>> \o s)[i] = s[j]
<1> DEFINE t == <<x>> \o s
<1>1. /\ t \in Seq(Items) /\ Len(t) = Len(s) + 1 /\ t[1] = x /\ Len(s) \in Nat
      /\ \A i \in 1..Len(s) : t[i + 1] = s[i]
  OBVIOUS
<1>2. DOMAIN t = 1..(Len(s) + 1) /\ DOMAIN s = 1..Len(s)
  OBVIOUS
<1> HIDE DEF t
<1>3. t # << >>
  BY <1>1
<1>4. ASSUME NEW i \in DOMAIN t, i # 1 PROVE \E j \in DOMAIN s : t[i] = s[j]
  <2>1. i - 1 \in 1..Len(s) /\ i - 1 + 1 = i
    BY <1>1, <1>2, <1>4
  <2> QED
    BY <1>1, <1>2, <2>1
<1>5. ASSUME NEW j \in DOMAIN s PROVE \E i \in DOMAIN t : t[i] = s[j]
  <2>1. j \in 1..Len(s) /\ j + 1 \in DOMAIN t
    BY <1>1, <1>2
  <2> QED
    BY <1>1, <2>1
<1>6. 1 \in DOMAIN t
  BY <1>1, <1>2
<1> QED
  BY <1>1, <1>3, <1>4, <1>5, <1>6 DEF t

\* The result is an execution, and what does not change is known.
LEMMA AddFacts ==
    ASSUME workflow \in Workflows, NEW r, TypeOK(r), NEW l \in workflow.links, NEW b \in AllBatches
    PROVE  LET q == AddNodeToBeExecuted(r, l, b)
           IN  /\ TypeOK(q) /\ Rest(r, q)
               /\ q.stack = AddedStack(r, l, b) /\ q.waiting = AddedWaiting(r, l, b)
               /\ q.order = AddedOrder(r, l, b) /\ q.misplaced = AddedMisplaced(r, l)
               /\ Range(q.order) \subseteq Range(r.order) \cup {l.to}
               /\ NoNewDisabled(r, q)
<1> DEFINE n == l.to
           k == Slot(r, l)
           e == NewData(r, l, b)
           s == AddedStack(r, l, b)
           w == AddedWaiting(r, l, b)
           o == AddedOrder(r, l, b)
           m == AddedMisplaced(r, l)
           q == AddNodeToBeExecuted(r, l, b)
<1>1. n \in Nodes /\ e \in Data /\ e \in EntryOf(n)
      /\ (~Complete(r, l, b) => \E i \in Inputs(n) : ~HasInput(e, i))
  BY NewDataIs
<1>2. k \in Nat
  BY <1>1, EntriesFacts, SlotFacts
<1>3. r \in Records
  BY DEF TypeOK
<1>4. s \in Seq(Items)
  <2>1. Item(n, e) \in Items
    BY <1>1 DEF Item, Items
  <2>2. r.stack \in Seq(Items)
    BY <1>3 DEF Records
  <2> HIDE DEF e
  <2> QED
    BY <2>1, <2>2 DEF AddedStack, e
<1>5. m \in SUBSET Nodes
  BY <1>1, <1>3 DEF AddedMisplaced, Records
<1>6. /\ w \in Waitings /\ o \in Seq(Nodes)
      /\ WaitingOK(w, o)
      /\ Range(o) \subseteq Range(r.order) \cup {n}
  <2>1. CASE Complete(r, l, b)
    <3>1. /\ w = [r.waiting EXCEPT ![n] = Left(r.waiting, n, k)]
          /\ o = IF DOMAIN Left(r.waiting, n, k) = {} THEN RemoveFirst(r.order, n) ELSE r.order
      BY <2>1 DEF AddedWaiting, AddedOrder
    <3> HIDE DEF w, o, n, k
    <3> QED
      BY <1>1, <1>2, <3>1, LeftIs
  <2>2. CASE ~Complete(r, l, b)
    <3>1. /\ w = [r.waiting EXCEPT ![n] = Put(r.waiting, n, k, e)]
          /\ o = IF DOMAIN r.waiting[n] = {} THEN Append(r.order, n) ELSE r.order
      BY <2>2 DEF AddedWaiting, AddedOrder
    <3> HIDE DEF w, o, n, k, e
    <3> QED
      BY <1>1, <1>2, <2>2, <3>1, PutIs
  <2> QED
    BY <2>1, <2>2
<1> HIDE DEF s, w, o, m, q
<1>7. q = Moved(r, s, w, o, m)
  BY <1>3, AddIs DEF s, w, o, m, q
<1>8. q \in Records /\ Rest(r, q) /\ q.stack = s /\ q.waiting = w /\ q.order = o /\ q.misplaced = m
  <2>1. w \in Waitings /\ o \in Seq(Nodes)
    BY <1>6
  <2> QED
    BY <1>3, <1>4, <1>5, <1>7, <2>1, RestFacts
<1>9. WaitingOK(q.waiting, q.order)
  BY <1>6, <1>8
<1>10. NoNewDisabled(r, q)
  <2>1. r.stack \in Seq(Items)
    BY <1>3 DEF Records
  <2>2. CASE Complete(r, l, b)
    <3>1. s = <<Item(n, e)>> \o r.stack
      BY <2>2 DEF s, AddedStack
    <3> DEFINE x == Item(n, e)
    <3>2. x \in Items /\ ~x.disabled
      BY <1>1 DEF Item, Items
    <3> HIDE DEF x
    <3>3. \A i \in DOMAIN s : s[i] = x \/ \E j \in DOMAIN r.stack : s[i] = r.stack[j]
      <4>1. s = <<x>> \o r.stack
        BY <3>1 DEF x
      <4> QED
        BY <2>1, <3>2, <4>1, PushedIs
    <3> QED
      BY <1>8, <3>2, <3>3 DEF NoNewDisabled
  <2>3. CASE ~Complete(r, l, b)
    <3>1. s = r.stack
      BY <2>3 DEF s, AddedStack
    <3> QED
      BY <1>8, <3>1 DEF NoNewDisabled
  <2> QED
    BY <2>2, <2>3
<1> QED
  BY <1>6, <1>8, <1>9, <1>10 DEF TypeOK, s, w, o, m, q

\* So is the result of handing on all that a run has output.
LEMMA HandOnFacts ==
    ASSUME workflow \in Workflows, NEW r, TypeOK(r), NEW n \in Nodes, NEW index \in Nat, NEW outs
    PROVE  LET q == HandOn(r, n, index, NodesToAdd(n, outs))
           IN  TypeOK(q) /\ Rest(r, q) /\ NoNewDisabled(r, q)
<1> DEFINE links == NodesToAdd(n, outs)
           len == Len(links)
<1>1. links \in Seq(workflow.links)
  BY NodesToAddFacts
<1> HIDE DEF links
<1>2. len \in Nat /\ DOMAIN links = 1..len /\ \A k \in 1..len : links[k] \in workflow.links
  BY <1>1
<1>3. PICK g : /\ g[0] = r /\ HandOn(r, n, index, links) = g[len]
               /\ \A k \in 1..len : g[k] = HandOnStep(g[k - 1], n, index, links[k])
  BY <1>2, HandOnSteps
<1> HIDE DEF len
<1> DEFINE T == {k \in Nat : k <= len => TypeOK(g[k]) /\ Rest(r, g[k]) /\ NoNewDisabled(r, g[k])}
<1>4. 0 \in T
  BY <1>3 DEF Rest, NoNewDisabled
<1>5. ASSUME NEW k \in Nat, k \in T PROVE k + 1 \in T
  <2> SUFFICES ASSUME k + 1 <= len
               PROVE  TypeOK(g[k + 1]) /\ Rest(r, g[k + 1]) /\ NoNewDisabled(r, g[k + 1])
    OBVIOUS
  <2>0. k + 1 \in 1..len /\ k + 1 - 1 = k
    BY <1>2
  <2> DEFINE l == links[k + 1]
  <2>1. l \in workflow.links /\ g[k + 1] = HandOnStep(g[k], n, index, l)
    BY <1>2, <1>3, <2>0
  <2>2. TypeOK(g[k]) /\ Rest(r, g[k]) /\ NoNewDisabled(r, g[k])
    BY <1>2, <1>5
  <2> HIDE DEF l
  <2>3. <<n, index, l.output>> \in AllBatches
    BY <2>1, GraphFacts DEF Links, AllBatches
  <2>4. g[k + 1] = AddNodeToBeExecuted(g[k], l, <<n, index, l.output>>)
    BY <2>1 DEF HandOnStep
  <2>5. TypeOK(g[k + 1]) /\ Rest(g[k], g[k + 1]) /\ NoNewDisabled(g[k], g[k + 1])
    BY <2>1, <2>2, <2>3, <2>4, AddFacts
  <2>6. Rest(r, g[k + 1])
    BY <2>2, <2>5 DEF Rest
  <2>7. NoNewDisabled(r, g[k + 1])
    BY <2>2, <2>5 DEF NoNewDisabled
  <2> QED
    BY <2>5, <2>6, <2>7
<1>6. len \in T
  <2> HIDE DEF T
  <2> QED BY <1>2, <1>4, <1>5, Induct
<1> QED
  BY <1>2, <1>3, <1>6 DEF links

\* When the stack is empty and a waiting node can run, one of them does, with its first entry.
Filled(r, n) == Fill(n, r.waiting[n][Min(DOMAIN r.waiting[n])])
Ready(r) == {n \in Range(r.order) : CanRun(r, n)}
RunOf(r, n) ==
    LET left == Left(r.waiting, n, Min(DOMAIN r.waiting[n]))
    IN  Moved(r, <<Item(n, Filled(r, n))>>, [r.waiting EXCEPT ![n] = left],
              IF DOMAIN left = {} THEN RemoveFirst(r.order, n) ELSE r.order, r.misplaced)

\* RunWaiting runs a node only when the stack is empty and some node is ready.
LEMMA RunWaitingIs ==
    ASSUME NEW r \in Records
    PROVE  /\ r.stack # << >> => RunWaiting(r) = r
           /\ NoneReady(r) => RunWaiting(r) = r
           /\ r.stack = << >> /\ ~NoneReady(r) => \E n \in Ready(r) : RunWaiting(r) = RunOf(r, n)
<1> DEFINE ready == {k \in DOMAIN r.order : CanRun(r, r.order[k])}
           n == r.order[Min(ready)]
           k == Min(DOMAIN r.waiting[n])
<1>1. RunWaiting(r) = IF r.stack # <<>> \/ ready = {} THEN r
                      ELSE [RemoveEntry(r, n, k) EXCEPT !.stack = <<Item(n, Fill(n, r.waiting[n][k]))>>]
  BY DEF RunWaiting
<1>2. NoneReady(r) <=> ready = {}
  BY DEF NoneReady
<1>3. ASSUME r.stack = << >>, ready # {} PROVE n \in Ready(r) /\ RunWaiting(r) = RunOf(r, n)
  <2>1. Min(ready) \in ready
    <3>1. ready \in SUBSET Nat
      BY DEF Records
    <3> HIDE DEF ready
    <3> QED
      BY <1>3, <3>1, MinIsLeast
  <2>2. n \in Ready(r)
    BY <2>1 DEF Ready, Range
  <2> DEFINE left == Left(r.waiting, n, k)
  <2>3. RemoveEntry(r, n, k) =
           [r EXCEPT !.waiting = [r.waiting EXCEPT ![n] = left],
                     !.order = IF DOMAIN left = {} THEN RemoveFirst(r.order, n) ELSE r.order]
    <3> HIDE DEF k, n
    <3> QED BY SMTT(30) DEF RemoveEntry, Left, Records
  <2>4. RunWaiting(r) = [RemoveEntry(r, n, k) EXCEPT !.stack = <<Item(n, Fill(n, r.waiting[n][k]))>>]
    BY <1>1, <1>3
  <2> DEFINE w == [r.waiting EXCEPT ![n] = left]
             o == IF DOMAIN left = {} THEN RemoveFirst(r.order, n) ELSE r.order
             s == <<Item(n, Fill(n, r.waiting[n][k]))>>
  <2>5. RunOf(r, n) = Moved(r, s, w, o, r.misplaced)
    BY DEF RunOf, Filled
  <2> HIDE DEF left, w, o, s, ready, n, k
  <2>6. RunWaiting(r) = [[r EXCEPT !.waiting = w, !.order = o] EXCEPT !.stack = s]
    BY <2>3, <2>4 DEF w, o, s
  <2>7. RunWaiting(r) = Moved(r, s, w, o, r.misplaced)
    BY <2>6 DEF Moved, Records
  <2> QED
    BY <2>2, <2>5, <2>7
<1> HIDE DEF n, ready
<1> QED
  BY <1>1, <1>2, <1>3

\* A node that is ready has a first entry, and what that lacks is filled with nothing.
LEMMA ReadyFacts ==
    ASSUME workflow \in Workflows, NEW r, TypeOK(r), NEW n \in Ready(r)
    PROVE  LET k == Min(DOMAIN r.waiting[n])
           IN  /\ n \in Nodes /\ k \in Nat /\ k \in DOMAIN r.waiting[n]
               /\ \A j \in DOMAIN r.waiting[n] : k <= j
               /\ Filled(r, n) \in Data
               /\ Filled(r, n) \in [Inputs(n) -> AllBatches \cup {Empty}]
               /\ \A i \in Inputs(n) : Filled(r, n)[i] =
                     IF HasInput(r.waiting[n][k], i) THEN r.waiting[n][k][i] ELSE Empty
<1> DEFINE k == Min(DOMAIN r.waiting[n])
           e == r.waiting[n][k]
<1>1. n \in Nodes /\ n \in Range(r.order)
  BY DEF Ready, TypeOK, Records, Range
<1>2. k \in DOMAIN r.waiting[n] /\ k \in Nat /\ \A j \in DOMAIN r.waiting[n] : k <= j
  <2>1. DOMAIN r.waiting[n] \in SUBSET Nat /\ DOMAIN r.waiting[n] # {}
    BY <1>1, EntriesFacts
  <2> QED
    BY <2>1, MinIsLeast
<1>3. e \in EntryOf(n)
  <2> HIDE DEF k
  <2> QED BY <1>1, <1>2, EntriesFacts
<1> HIDE DEF e
<1>4. Filled(r, n) = [i \in Inputs(n) |-> IF HasInput(e, i) THEN e[i] ELSE Empty]
  BY DEF Filled, Fill, e
<1>5. /\ Filled(r, n) \in [Inputs(n) -> AllBatches \cup {Empty}]
      /\ \A i \in Inputs(n) : Filled(r, n)[i] = IF HasInput(e, i) THEN e[i] ELSE Empty
  <2>1. \A i \in Inputs(n) : HasInput(e, i) => e[i] \in AllBatches
    BY <1>3, EntryIs DEF HasInput
  <2> QED
    BY <1>4, <2>1
<1>6. Filled(r, n) \in Data
  BY <1>5, DataIs, InputsFacts DEF Values
<1> QED
  BY <1>1, <1>2, <1>5, <1>6 DEF e

\* What a waiting node that is run leaves behind.
LEMMA RunOfFacts ==
    ASSUME workflow \in Workflows, NEW r, TypeOK(r), NEW n \in Ready(r)
    PROVE  LET q == RunOf(r, n)
           IN  /\ TypeOK(q) /\ Rest(r, q) /\ q.misplaced = r.misplaced
               /\ q.stack = <<Item(n, Filled(r, n))>>
               /\ q.waiting = [r.waiting EXCEPT ![n] =
                                  Left(r.waiting, n, Min(DOMAIN r.waiting[n]))]
               /\ Range(q.order) \subseteq Range(r.order)
               /\ NoNewDisabled(r, q)
<1> DEFINE k == Min(DOMAIN r.waiting[n])
           left == Left(r.waiting, n, k)
           w == [r.waiting EXCEPT ![n] = left]
           o == IF DOMAIN left = {} THEN RemoveFirst(r.order, n) ELSE r.order
           s == <<Item(n, Filled(r, n))>>
           q == RunOf(r, n)
<1>1. q = Moved(r, s, w, o, r.misplaced)
  BY DEF RunOf
<1>2. n \in Nodes /\ k \in Nat /\ Filled(r, n) \in Data
  BY ReadyFacts
<1>3. s \in Seq(Items)
  <2>1. Item(n, Filled(r, n)) \in Items
    BY <1>2 DEF Item, Items
  <2> QED
    BY <2>1
<1>4. w \in Waitings /\ o \in Seq(Nodes) /\ WaitingOK(w, o) /\ Range(o) \subseteq Range(r.order)
  <2> HIDE DEF k
  <2> QED BY <1>2, LeftIs
<1>5. r \in Records /\ r.misplaced \in SUBSET Nodes
  BY DEF TypeOK, Records
<1> HIDE DEF q, s, w, o
<1>6. q \in Records /\ Rest(r, q) /\ q.stack = s /\ q.waiting = w /\ q.order = o
      /\ q.misplaced = r.misplaced
  BY <1>1, <1>3, <1>4, <1>5, RestFacts
<1>7. \A i \in DOMAIN s : ~s[i].disabled
  BY DEF s, Item
<1>8. NoNewDisabled(r, q)
  BY <1>6, <1>7 DEF NoNewDisabled
<1> QED
  BY <1>4, <1>6, <1>8 DEF TypeOK, q, s, w, o

\* After RunWaiting there is something on the stack, or nothing is ready.
LEMMA RunWaitingFacts ==
    ASSUME workflow \in Workflows, NEW r, TypeOK(r)
    PROVE  LET q == RunWaiting(r)
           IN  TypeOK(q) /\ Rest(r, q) /\ (q.stack = <<>> => NoneReady(q)) /\ NoNewDisabled(r, q)
<1> DEFINE q == RunWaiting(r)
<1> SUFFICES TypeOK(q) /\ Rest(r, q) /\ (q.stack = <<>> => NoneReady(q)) /\ NoNewDisabled(r, q)
  OBVIOUS
<1>1. r \in Records
  BY DEF TypeOK
<1>2. CASE r.stack # << >>
  <2>1. q = r
    BY <1>1, <1>2, RunWaitingIs
  <2> HIDE DEF q
  <2> QED
    BY <1>2, <2>1 DEF Rest, NoNewDisabled
<1>3. CASE NoneReady(r)
  <2>1. q = r
    BY <1>1, <1>3, RunWaitingIs
  <2> HIDE DEF q
  <2> QED
    BY <1>3, <2>1 DEF Rest, NoNewDisabled
<1>4. CASE r.stack = << >> /\ ~NoneReady(r)
  <2>1. PICK n \in Ready(r) : q = RunOf(r, n)
    BY <1>1, <1>4, RunWaitingIs
  <2> HIDE DEF q
  <2> DEFINE p == RunOf(r, n)
  <2>2. TypeOK(p) /\ Rest(r, p) /\ p.stack = <<Item(n, Filled(r, n))>>
        /\ NoNewDisabled(r, p)
    BY RunOfFacts
  <2> HIDE DEF p
  <2>3. p.stack # << >>
    BY <2>2
  <2> QED
    BY <2>1, <2>2, <2>3 DEF p
<1> QED
  BY <1>2, <1>3, <1>4

-----------------------------------------------------------------------------
(* How the run and the row stand: one lemma for each action *)

\* The item on top of the stack.
LEMMA TopFacts ==
    ASSUME NEW r \in Records, r.stack # << >>
    PROVE  /\ Head(r.stack) \in Items /\ Head(r.stack).node \in Nodes
           /\ Head(r.stack).data \in Data /\ Head(r.stack) = r.stack[1] /\ 1 \in DOMAIN r.stack
           /\ Tail(r.stack) \in Seq(Items)
           /\ \A i \in DOMAIN Tail(r.stack) : \E j \in DOMAIN r.stack : Tail(r.stack)[i] = r.stack[j]
<1>1. r.stack \in Seq(Items)
  BY DEF Records
<1>2. Head(r.stack) \in Items /\ Head(r.stack) = r.stack[1] /\ Tail(r.stack) \in Seq(Items)
      /\ 1 \in DOMAIN r.stack
  BY <1>1
<1>3. Head(r.stack).node \in Nodes /\ Head(r.stack).data \in Data
  BY <1>2 DEF Items
<1>4. ASSUME NEW i \in DOMAIN Tail(r.stack) PROVE i + 1 \in DOMAIN r.stack /\ Tail(r.stack)[i] = r.stack[i + 1]
  <2>1. Len(Tail(r.stack)) = Len(r.stack) - 1 /\ Len(r.stack) \in Nat
    BY <1>1
  <2>2. DOMAIN Tail(r.stack) = 1..(Len(r.stack) - 1)
    BY <1>1, <2>1
  <2>3. i + 1 \in 1..Len(r.stack)
    BY <2>1, <2>2
  <2> QED
    BY <1>1, <2>2, <2>3
<1> QED
  BY <1>2, <1>3, <1>4

\* A node's run is added to an execution whose item may be taken from the stack.
RanOn(r, s, u, task) == Ran([r EXCEPT !.stack = s, !.unchecked = u], Head(r.stack).node, task)

RanShape(r, q, n, task) ==
    /\ n \in Nodes /\ q.last = n /\ q.runData = OneMore(r.runData, n, task)
    /\ q.waiting = r.waiting /\ q.order = r.order /\ q.waitTill = r.waitTill
    /\ q.destination = r.destination /\ q.filter = r.filter
    /\ q.status = r.status /\ q.kept = r.kept /\ q.silent = r.silent
    /\ q.waited = r.waited /\ q.misplaced = r.misplaced /\ q.marred = r.marred

\* A run that is recorded keeps the type.
LEMMA RanFacts ==
    ASSUME NEW r, TypeOK(r), r.stack # << >>, NEW task \in Tasks, NEW u \in BOOLEAN,
           NEW s \in Seq(Items)
    PROVE  LET q == RanOn(r, s, u, task)
           IN  TypeOK(q) /\ RanShape(r, q, Head(r.stack).node, task) /\ q.stack = s /\ q.unchecked = u
<1> DEFINE n == Head(r.stack).node
           d == OneMore(r.runData, n, task)
           q == RanOn(r, s, u, task)
<1>1. r \in Records /\ WaitingOK(r.waiting, r.order)
  BY DEF TypeOK
<1>2. n \in Nodes
  BY <1>1, TopFacts
<1>3. r.runData \in [Nodes -> Seq(Tasks)]
  BY <1>1 DEF Records
<1>4. d \in [Nodes -> Seq(Tasks)]
  <2> HIDE DEF n
  <2>1. Append(r.runData[n], task) \in Seq(Tasks)
    BY <1>2, <1>3
  <2> QED
    BY <1>2, <1>3, <2>1 DEF OneMore
<1>5. q = [r EXCEPT !.stack = s, !.unchecked = u, !.runData = d, !.last = n]
  BY <1>1 DEF Records, RanOn, Ran, OneMore
<1> HIDE DEF n, d, q
<1>6. /\ q \in Records /\ q.stack = s /\ q.unchecked = u /\ q.last = n /\ q.runData = d
      /\ q.waiting = r.waiting /\ q.order = r.order /\ q.waitTill = r.waitTill
      /\ q.destination = r.destination /\ q.filter = r.filter
      /\ q.status = r.status /\ q.kept = r.kept /\ q.silent = r.silent
      /\ q.waited = r.waited /\ q.misplaced = r.misplaced /\ q.marred = r.marred
  BY <1>1, <1>2, <1>4, <1>5 DEF Records
<1> QED
  BY <1>1, <1>2, <1>6 DEF TypeOK, RanShape, n, d, q

\* What saveExecutionProgress makes of the row.
SavedShape(q, p, n, task) ==
    /\ p.runData = OneMore(row.runData, n, task)
    /\ p.waitTill = row.waitTill /\ p.stored = TRUE /\ p.kept = row.kept
    /\ p.destination = row.destination /\ p.filter = row.filter
    /\ p.stack = q.stack /\ p.waiting = q.waiting /\ p.order = q.order
    /\ p.last = q.last /\ p.status = q.status /\ p.silent = q.silent
    /\ p.waited = q.waited /\ p.misplaced = q.misplaced
    /\ p.unchecked = q.unchecked /\ p.marred = q.marred

\* What the row of a workflow that saves progress becomes after a node.
LEMMA ProgressIs ==
    ASSUME TypeOK(row), NEW q, TypeOK(q), NEW n \in Nodes, NEW task \in Tasks,
           workflow.saveProgress
    PROVE  LET p == Progress(q, n, task)
           IN  TypeOK(p) /\ SavedShape(q, p, n, task)
<1> DEFINE d == OneMore(row.runData, n, task)
           p == Progress(q, n, task)
<1>1. row \in Records /\ q \in Records /\ WaitingOK(q.waiting, q.order)
  BY DEF TypeOK
<1>2. d \in [Nodes -> Seq(Tasks)]
  <2>1. row.runData \in [Nodes -> Seq(Tasks)]
    BY <1>1 DEF Records
  <2>2. Append(row.runData[n], task) \in Seq(Tasks)
    BY <2>1
  <2> QED
    BY <2>1, <2>2 DEF OneMore
<1>3. p = [q EXCEPT !.runData = d, !.waitTill = row.waitTill, !.stored = TRUE, !.kept = row.kept,
                    !.destination = row.destination, !.filter = row.filter]
  BY DEF Progress, OneMore
<1> HIDE DEF p, d
<1>4. /\ row.waitTill \in BOOLEAN /\ row.kept \in [Nodes -> Nat]
      /\ row.destination \in Nodes \cup {NoNode} /\ row.filter \in SUBSET Nodes
  BY <1>1 DEF Records
<1>5. /\ p \in Records /\ p.runData = d
      /\ p.waitTill = row.waitTill /\ p.stored = TRUE /\ p.kept = row.kept
      /\ p.destination = row.destination /\ p.filter = row.filter
      /\ p.stack = q.stack /\ p.waiting = q.waiting /\ p.order = q.order
      /\ p.last = q.last /\ p.status = q.status /\ p.silent = q.silent
      /\ p.waited = q.waited /\ p.misplaced = q.misplaced
      /\ p.unchecked = q.unchecked /\ p.marred = q.marred
  BY <1>1, <1>2, <1>3, <1>4 DEF Records
<1> QED
  BY <1>1, <1>5 DEF TypeOK, SavedShape, p, d

\* When the run has gone on to p, and the row has been given q's data and the same run.
LEMMA ProgressKeeps ==
    ASSUME StandInv(run, row), run.status = "running",
           NEW n \in Nodes, NEW task \in Tasks,
           NEW q, TypeOK(q), q.status = "running", q.marred = run.marred,
           ~run.marred => DisabledHasWaited(q),
           NEW p, TypeOK(p), p.marred = run.marred, p.destination = run.destination,
           p.kept = run.kept, p.filter = run.filter,
           p.runData = OneMore(run.runData, n, task),
           p.status \in {"running", "error", "waiting"},
           p.status # "waiting" => ~p.waitTill,
           p.status = "waiting" => p.stack # << >>,
           p.status = "running" /\ ~p.unchecked /\ p.stack = << >> => NoneReady(p),
           ~p.marred => WaitIsOnTop(p) /\ DisabledHasWaited(p)
    PROVE  StandInv(p, Progress(q, n, task))
<1> DEFINE w == Progress(q, n, task)
<1>1. TypeOK(row) /\ Agree(run, row) /\ row.status = "running" /\ row.marred = run.marred
  BY DEF StandInv, Agree
<1>2. CASE ~workflow.saveProgress
  <2>1. w = row
    BY <1>2 DEF Progress
  <2>2. ~OutOfStep(run, row) /\ ~OutOfStep(p, row)
    BY <1>2 DEF OutOfStep
  <2> HIDE DEF w
  <2>3. Agree(p, w)
    BY <1>1, <1>2, <2>1 DEF Agree
  <2> QED
    BY <1>1, <2>1, <2>2, <2>3 DEF StandInv, w
<1>3. CASE workflow.saveProgress
  <2>0. TypeOK(w) /\ SavedShape(q, w, n, task)
    BY <1>1, <1>3, ProgressIs
  <2> HIDE DEF w
  <2>1. /\ TypeOK(w) /\ w.runData = OneMore(row.runData, n, task)
        /\ w.waitTill = row.waitTill /\ w.kept = row.kept
        /\ w.destination = row.destination /\ w.filter = row.filter
        /\ w.stack = q.stack /\ w.status = q.status /\ w.waited = q.waited
        /\ w.unchecked = q.unchecked /\ w.marred = q.marred
    BY <2>0 DEF SavedShape
  <2>2. ~OutOfStep(p, w) => ~OutOfStep(run, row)
    BY <1>1, <2>1 DEF OutOfStep
  <2>3. ~OutOfStep(p, w) => w.runData = p.runData /\ w.kept = p.kept /\ w.filter = p.filter
    <3> SUFFICES ASSUME ~OutOfStep(p, w)
                 PROVE  w.runData = p.runData /\ w.kept = p.kept /\ w.filter = p.filter
      OBVIOUS
    <3>1. row.runData = run.runData /\ row.kept = run.kept /\ row.filter = run.filter
      BY <1>1, <1>3, <2>2 DEF Agree
    <3> QED
      BY <2>1, <3>1
  <2>4. Agree(p, w)
    BY <1>1, <2>1, <2>3 DEF Agree
  <2>5. ~w.marred /\ ~OutOfStep(p, w) => WaitIsOnTop(w) /\ DisabledHasWaited(w)
    <3> SUFFICES ASSUME ~w.marred, ~OutOfStep(p, w) PROVE WaitIsOnTop(w) /\ DisabledHasWaited(w)
      OBVIOUS
    <3>1. ~w.waitTill
      BY <1>3, <2>1 DEF OutOfStep
    <3>2. DisabledHasWaited(q)
      BY <2>1
    <3> QED
      BY <2>1, <3>1, <3>2 DEF WaitIsOnTop, DisabledHasWaited
  <2>6. TypeOK(p) /\ TypeOK(w)
    BY <2>1
  <2> QED
    BY <2>4, <2>5, <2>6 DEF StandInv, w
<1> QED
  BY <1>2, <1>3

\* When it is a node's turn, the execution runs and does not wait.
LEMMA TurnFacts ==
    ASSUME workflow \in Workflows, StandInv(run, row), Turn
    PROVE  /\ TypeOK(run) /\ run \in Records /\ run.status = "running" /\ run.stack # << >> /\ ~run.waitTill
           /\ Top \in Items /\ Top.node \in Nodes /\ Top.data \in Data
           /\ run.stack \in Seq(Items) /\ Tail(run.stack) \in Seq(Items)
           /\ \A outs \in Outcomes(Top) : outs \subseteq Outputs(Top.node) /\ Task("success", Top.data, outs) \in Tasks
           /\ Task("error", Top.data, {}) \in Tasks /\ Task("waiting", Top.data, {}) \in Tasks
           /\ Len(run.runData[Top.node]) \in Nat
           /\ workflow' = workflow
<1>1. TypeOK(run) /\ run \in Records /\ run.status = "running" /\ run.stack # << >> /\ ~run.waitTill
  BY DEF Turn, StandInv, TypeOK, Agree
<1>2. /\ Top \in Items /\ Top.node \in Nodes /\ Top.data \in Data
      /\ run.stack \in Seq(Items) /\ Tail(run.stack) \in Seq(Items)
  BY <1>1, TopFacts DEF Top, Records
<1>3. Outputs(Top.node) \subseteq Nat
  BY GraphFacts DEF Outputs, Links
<1>4. ASSUME NEW outs \in Outcomes(Top)
      PROVE  outs \subseteq Outputs(Top.node) /\ Task("success", Top.data, outs) \in Tasks
  <2>1. outs \subseteq Outputs(Top.node)
    BY DEF Outcomes
  <2> QED
    BY <1>2, <1>3, <2>1 DEF Task, Tasks
<1>5. Task("error", Top.data, {}) \in Tasks /\ Task("waiting", Top.data, {}) \in Tasks
  BY <1>2 DEF Task, Tasks
<1>6. Len(run.runData[Top.node]) \in Nat
  BY <1>1, <1>2 DEF Records
<1> QED
  BY <1>1, <1>2, <1>4, <1>5, <1>6 DEF Turn

\* An item to be passed over has waited, also where the stack has become another.
LEMMA StillWaited ==
    ASSUME NEW r, NEW q, DisabledHasWaited(r), NoNewDisabled(r, q), r.waited \subseteq q.waited
    PROVE  DisabledHasWaited(q)
BY DEF DisabledHasWaited, NoNewDisabled

\* What a node's success makes of the execution, before and after the waiting nodes are looked at.
Passed(r, outs) == RanOn(r, Tail(r.stack), FALSE, Task("success", Head(r.stack).data, outs))
Added(r, outs) ==
    LET n == Head(r.stack).node
        index == Len(r.runData[n])
    IN  HandOn(Passed(r, outs), n, index, NodesToAdd(n, outs))
Saved(r) == [r EXCEPT !.unchecked = TRUE]

\* A node that succeeds, as one formula.
LEMMA SuccessIs ==
    ASSUME NEW outs, NodeSucceeds(outs)
    PROVE  /\ run' = RunWaiting(Added(run, outs))
           /\ row' = Progress(Saved(Added(run, outs)), Top.node, Task("success", Top.data, outs))
           /\ Turn /\ HasItems(Top) /\ outs \in Outcomes(Top) /\ Top.node # run.destination
BY DEF NodeSucceeds, Added, Passed, RanOn, Saved, Top

\* What is saved differs from the run only in whether it has been looked at.
LEMMA SavedFacts ==
    ASSUME NEW r, TypeOK(r)
    PROVE  LET q == Saved(r)
           IN  /\ TypeOK(q) /\ q.unchecked = TRUE /\ q.stack = r.stack /\ q.waiting = r.waiting
               /\ q.order = r.order /\ q.runData = r.runData /\ q.last = r.last
               /\ q.waitTill = r.waitTill /\ q.destination = r.destination /\ q.filter = r.filter
               /\ q.status = r.status /\ q.kept = r.kept /\ q.silent = r.silent
               /\ q.waited = r.waited /\ q.misplaced = r.misplaced /\ q.marred = r.marred
BY DEF TypeOK, Records, Saved

\* A node's run and what it hands on keep the type, and disable nothing.
LEMMA AddedFacts ==
    ASSUME workflow \in Workflows, StandInv(run, row), Turn, NEW outs \in Outcomes(Top)
    PROVE  LET q == Added(run, outs)
               ran == Passed(run, outs)
               task == Task("success", Top.data, outs)
           IN  /\ TypeOK(ran) /\ RanShape(run, ran, Top.node, task)
               /\ ran.stack = Tail(run.stack) /\ ran.unchecked = FALSE
               /\ NoNewDisabled(run, ran)
               /\ TypeOK(q) /\ Rest(ran, q) /\ NoNewDisabled(ran, q)
<1> DEFINE q == Added(run, outs)
           ran == Passed(run, outs)
           task == Task("success", Top.data, outs)
           n == Top.node
           index == Len(run.runData[n])
<1>1. TypeOK(run) /\ run.stack # << >> /\ task \in Tasks /\ Tail(run.stack) \in Seq(Items)
      /\ n \in Nodes /\ index \in Nat /\ run \in Records
  BY TurnFacts
<1>2. TypeOK(ran) /\ RanShape(run, ran, n, task) /\ ran.stack = Tail(run.stack) /\ ran.unchecked = FALSE
  BY <1>1, RanFacts DEF Passed, Top
<1>3. NoNewDisabled(run, ran)
  <2> HIDE DEF ran
  <2> QED BY <1>1, <1>2, TopFacts DEF NoNewDisabled
<1>4. q = HandOn(ran, n, index, NodesToAdd(n, outs))
  BY DEF Added, Top
<1>5. TypeOK(q) /\ Rest(ran, q) /\ NoNewDisabled(ran, q)
  <2> HIDE DEF q, ran, n, index
  <2> QED BY <1>1, <1>2, <1>4, HandOnFacts
<1> QED
  BY <1>2, <1>3, <1>5

\* A node that succeeds.
LEMMA NodeSucceedsStand ==
    ASSUME workflow \in Workflows, StandInv(run, row), NEW outs, NodeSucceeds(outs)
    PROVE  StandInv(run', row')
<1> DEFINE added == Added(run, outs)
           ran == Passed(run, outs)
           task == Task("success", Top.data, outs)
           q == Saved(added)
           p == RunWaiting(added)
           n == Top.node
<1>1. Turn /\ outs \in Outcomes(Top) /\ run' = p /\ row' = Progress(q, n, task)
  BY SuccessIs
<1>2. TypeOK(run) /\ run.status = "running" /\ ~run.waitTill /\ n \in Nodes /\ task \in Tasks
  BY <1>1, TurnFacts
<1>3. /\ RanShape(run, ran, n, task) /\ ran.unchecked = FALSE /\ NoNewDisabled(run, ran)
      /\ TypeOK(added) /\ Rest(ran, added) /\ NoNewDisabled(ran, added)
  BY <1>1, AddedFacts
<1> HIDE DEF n, task, ran, added
<1>4. TypeOK(p) /\ Rest(added, p) /\ (p.stack = <<>> => NoneReady(p)) /\ NoNewDisabled(added, p)
  BY <1>3, RunWaitingFacts
<1>5. /\ TypeOK(q) /\ q.unchecked = TRUE /\ q.stack = added.stack /\ q.status = added.status
      /\ q.waited = added.waited /\ q.marred = added.marred
  BY <1>3, SavedFacts
<1> HIDE DEF p, q
<1>6. /\ p.marred = run.marred /\ p.destination = run.destination
      /\ p.kept = run.kept /\ p.filter = run.filter /\ p.runData = OneMore(run.runData, n, task)
      /\ p.status = "running" /\ ~p.waitTill
      /\ added.status = "running" /\ added.marred = run.marred
  BY <1>2, <1>3, <1>4 DEF RanShape, Rest
<1>7. run.waited \subseteq added.waited /\ added.waited \subseteq p.waited
  BY <1>3, <1>4 DEF RanShape, Rest
<1>8. ASSUME ~run.marred PROVE DisabledHasWaited(added) /\ DisabledHasWaited(p)
  <2>1. DisabledHasWaited(run)
    BY <1>8 DEF StandInv
  <2>2. NoNewDisabled(run, added)
    BY <1>3 DEF NoNewDisabled
  <2>3. DisabledHasWaited(added)
    BY <1>7, <2>1, <2>2, StillWaited
  <2> QED
    BY <1>4, <1>7, <2>3, StillWaited
<1>9. ~run.marred => DisabledHasWaited(q)
  BY <1>5, <1>8 DEF DisabledHasWaited
<1>10. WaitIsOnTop(p)
  BY <1>6 DEF WaitIsOnTop
<1>11. StandInv(p, Progress(q, n, task))
  BY <1>2, <1>4, <1>5, <1>6, <1>8, <1>9, <1>10, ProgressKeeps
<1> QED
  BY <1>1, <1>11

\* What the destination's success, an item that is passed over and a run without a result
\* make of the execution.
Ended(r, outs) == RanOn(r, Tail(r.stack), TRUE, Task("success", Head(r.stack).data, outs))
Dropped(r) == [r EXCEPT !.stack = Tail(@), !.unchecked = TRUE]
Silenced(r, last) ==
    [r EXCEPT !.stack = Tail(@), !.silent = @ \cup {Head(r.stack)}, !.last = last, !.unchecked = TRUE]

\* The destination succeeds: what it outputs is handed to nobody.
LEMMA DestinationSucceedsStand ==
    ASSUME workflow \in Workflows, StandInv(run, row), NEW outs, DestinationSucceeds(outs)
    PROVE  StandInv(run', row')
<1> DEFINE q == Ended(run, outs)
           task == Task("success", Top.data, outs)
           n == Top.node
<1>1. Turn /\ outs \in Outcomes(Top) /\ run' = q /\ row' = Progress(q, n, task)
  BY DEF DestinationSucceeds, Ended, RanOn, Top
<1>2. TypeOK(run) /\ run.status = "running" /\ ~run.waitTill /\ n \in Nodes /\ task \in Tasks
      /\ run.stack # << >> /\ Tail(run.stack) \in Seq(Items) /\ run \in Records
  BY <1>1, TurnFacts
<1>3. TypeOK(q) /\ RanShape(run, q, n, task) /\ q.stack = Tail(run.stack) /\ q.unchecked = TRUE
  BY <1>2, RanFacts DEF Ended, Top
<1> HIDE DEF q, n, task
<1>4. /\ q.marred = run.marred /\ q.destination = run.destination /\ q.kept = run.kept
      /\ q.filter = run.filter /\ q.runData = OneMore(run.runData, n, task)
      /\ q.status = "running" /\ ~q.waitTill /\ q.waited = run.waited
  BY <1>2, <1>3 DEF RanShape
<1>5. ~run.marred => DisabledHasWaited(q)
  <2>1. NoNewDisabled(run, q)
    BY <1>2, <1>3, TopFacts DEF NoNewDisabled
  <2> QED
    BY <1>4, <2>1, StillWaited DEF StandInv
<1>6. WaitIsOnTop(q)
  BY <1>4 DEF WaitIsOnTop
<1>7. StandInv(q, Progress(q, n, task))
  BY <1>2, <1>3, <1>4, <1>5, <1>6, ProgressKeeps
<1> QED
  BY <1>1, <1>7

\* The run goes on to p, and the row stays as it is.
LEMMA RowStays ==
    ASSUME StandInv(run, row), run.status = "running",
           NEW p, TypeOK(p), p.status = "running", p.unchecked, ~p.waitTill,
           p.marred = run.marred, p.destination = run.destination,
           p.runData = run.runData, p.kept = run.kept, p.filter = run.filter,
           p.waited = run.waited, NoNewDisabled(run, p)
    PROVE  StandInv(p, row)
<1>1. OutOfStep(p, row) <=> OutOfStep(run, row)
  BY DEF OutOfStep
<1>2. Agree(p, row)
  BY <1>1 DEF StandInv, Agree
<1>3. ~p.marred => WaitIsOnTop(p) /\ DisabledHasWaited(p)
  BY StillWaited DEF StandInv, WaitIsOnTop
<1> QED
  BY <1>1, <1>2, <1>3 DEF StandInv

\* The stack without its top.
LEMMA DroppedFacts ==
    ASSUME NEW r, TypeOK(r), r.stack # << >>
    PROVE  LET q == Dropped(r)
           IN  /\ TypeOK(q) /\ q.stack = Tail(r.stack) /\ q.unchecked = TRUE /\ NoNewDisabled(r, q)
               /\ q.waiting = r.waiting /\ q.order = r.order /\ q.runData = r.runData
               /\ q.last = r.last /\ q.waitTill = r.waitTill /\ q.destination = r.destination
               /\ q.filter = r.filter /\ q.status = r.status /\ q.kept = r.kept
               /\ q.silent = r.silent /\ q.waited = r.waited /\ q.misplaced = r.misplaced
               /\ q.marred = r.marred
<1>1. r \in Records /\ Tail(r.stack) \in Seq(Items)
      /\ \A i \in DOMAIN Tail(r.stack) : \E j \in DOMAIN r.stack : Tail(r.stack)[i] = r.stack[j]
  BY TopFacts DEF TypeOK
<1>2. Dropped(r).stack = Tail(r.stack)
  BY <1>1 DEF Dropped, Records
<1>3. NoNewDisabled(r, Dropped(r))
  BY <1>1, <1>2 DEF NoNewDisabled
<1> QED
  BY <1>1, <1>3 DEF TypeOK, Records, Dropped

\* A node that has waited is passed over.
LEMMA PassOverStand ==
    ASSUME workflow \in Workflows, StandInv(run, row), PassOver
    PROVE  StandInv(run', row')
<1> DEFINE q == Dropped(run)
<1>1. run.status = "running" /\ run.stack # << >> /\ run' = q /\ row' = row
  BY DEF PassOver, Dropped
<1>2. TypeOK(run) /\ ~run.waitTill
  BY <1>1 DEF StandInv, Agree
<1>3. /\ TypeOK(q) /\ q.unchecked = TRUE /\ NoNewDisabled(run, q)
      /\ q.runData = run.runData /\ q.waitTill = run.waitTill
      /\ q.destination = run.destination /\ q.filter = run.filter /\ q.status = run.status
      /\ q.kept = run.kept /\ q.waited = run.waited /\ q.marred = run.marred
  BY <1>1, <1>2, DroppedFacts
<1> HIDE DEF q
<1>4. StandInv(q, row)
  BY <1>1, <1>2, <1>3, RowStays
<1> QED
  BY <1>1, <1>4

\* What becomes of a record when its node returns nothing.
IsSilenced(r, q) == \E last \in {r.last, Head(r.stack).node} : q = Silenced(r, last)

\* What such a record and the one before have to do with each other.
TopGoesSilent(r, q) ==
    /\ q.stack = Tail(r.stack) /\ q.unchecked = TRUE
    /\ q.silent = r.silent \cup {Head(r.stack)}
    /\ q.waiting = r.waiting /\ q.order = r.order /\ q.runData = r.runData
    /\ q.waitTill = r.waitTill /\ q.destination = r.destination
    /\ q.filter = r.filter /\ q.status = r.status /\ q.kept = r.kept
    /\ q.waited = r.waited /\ q.misplaced = r.misplaced /\ q.marred = r.marred

\* A run without a result takes the top off the stack.
LEMMA SilencedFacts ==
    ASSUME NEW r, NEW q, TypeOK(r), r.stack # << >>, IsSilenced(r, q)
    PROVE  TypeOK(q) /\ NoNewDisabled(r, q) /\ TopGoesSilent(r, q)
<1>1. r \in Records /\ Tail(r.stack) \in Seq(Items) /\ Head(r.stack) \in Items
      /\ Head(r.stack).node \in Nodes
      /\ \A i \in DOMAIN Tail(r.stack) : \E j \in DOMAIN r.stack : Tail(r.stack)[i] = r.stack[j]
  BY TopFacts DEF TypeOK
<1> PICK last \in {r.last, Head(r.stack).node} : q = Silenced(r, last)
  BY DEF IsSilenced
<1>2. last \in Nodes \cup {NoNode} /\ r.silent \cup {Head(r.stack)} \in SUBSET Items
  BY <1>1 DEF Records
<1>3. /\ q \in Records /\ q.stack = Tail(r.stack) /\ q.unchecked = TRUE
      /\ q.silent = r.silent \cup {Head(r.stack)}
      /\ q.waiting = r.waiting /\ q.order = r.order /\ q.runData = r.runData
      /\ q.waitTill = r.waitTill /\ q.destination = r.destination
      /\ q.filter = r.filter /\ q.status = r.status /\ q.kept = r.kept
      /\ q.waited = r.waited /\ q.misplaced = r.misplaced /\ q.marred = r.marred
  BY <1>1, <1>2 DEF Records, Silenced
<1>4. NoNewDisabled(r, q)
  BY <1>1, <1>3 DEF NoNewDisabled
<1> QED
  BY <1>3, <1>4 DEF TypeOK, TopGoesSilent

\* A node returns nothing.
LEMMA NodeReturnsNothingStand ==
    ASSUME workflow \in Workflows, StandInv(run, row), NodeReturnsNothing
    PROVE  StandInv(run', row')
<1>1. PICK last \in {run.last, Top.node} : run' = Silenced(run, last)
  BY DEF NodeReturnsNothing, Silenced, Top
<1>2. run.status = "running" /\ run.stack # << >> /\ row' = row
  BY DEF NodeReturnsNothing, Turn
<1>3. TypeOK(run) /\ ~run.waitTill
  BY <1>2 DEF StandInv, Agree
<1> DEFINE q == Silenced(run, last)
<1>6. IsSilenced(run, q)
  BY DEF Top, IsSilenced
<1> HIDE DEF q
<1>4. /\ TypeOK(q) /\ q.unchecked = TRUE /\ NoNewDisabled(run, q)
      /\ q.runData = run.runData /\ q.waitTill = run.waitTill
      /\ q.destination = run.destination /\ q.filter = run.filter /\ q.status = run.status
      /\ q.kept = run.kept /\ q.waited = run.waited /\ q.marred = run.marred
  <2>1. TypeOK(q) /\ NoNewDisabled(run, q) /\ TopGoesSilent(run, q)
    BY <1>2, <1>3, <1>6, SilencedFacts
  <2> QED
    BY <2>1 DEF TopGoesSilent
<1>5. StandInv(q, row)
  BY <1>2, <1>3, <1>4, RowStays
<1> QED
  BY <1>1, <1>2, <1>5 DEF q

\* A failure and a wait leave the item on the stack.
Tried(r, status) == RanOn(r, r.stack, r.unchecked, Task(status, Head(r.stack).data, {}))
Failed(r) == [Tried(r, "error") EXCEPT !.status = "error"]
Pause(r, xs) == [r EXCEPT !.waited = @ \cup xs, !.waitTill = TRUE, !.status = "waiting"]
PauseSave(r, xs, s) == [r EXCEPT !.waited = @ \cup xs, !.stack = s]
Waiter(r) == {<<x.node, x.data>> : x \in Sharing(r.stack, Head(r.stack))}
Paused(r) == Pause(Tried(r, "waiting"), Waiter(r))
PauseSaved(r) == PauseSave(Tried(r, "waiting"), Waiter(r), Tail(r.stack))

\* What has put the execution to wait are items of the stack, the one on top among them.
LEMMA WaiterFacts ==
    ASSUME NEW r, r.stack \in Seq(Items), r.stack # << >>
    PROVE  /\ Waiter(r) \in SUBSET (Nodes \X Data)
           /\ \A x \in Sharing(r.stack, r.stack[1]) : <<x.node, x.data>> \in Waiter(r)
<1>1. \A x \in Range(r.stack) : x.node \in Nodes /\ x.data \in Data
  <2>1. \A i \in DOMAIN r.stack : r.stack[i] \in Items
    OBVIOUS
  <2> QED
    BY <2>1 DEF Range, Items
<1>2. Sharing(r.stack, Head(r.stack)) \subseteq Range(r.stack) /\ Head(r.stack) = r.stack[1]
  BY DEF Sharing
<1> QED
  BY <1>1, <1>2 DEF Waiter

\* A run that fails or waits leaves its node on the stack.
LEMMA TriedFacts ==
    ASSUME workflow \in Workflows, StandInv(run, row), Turn, NEW status \in {"error", "waiting"}
    PROVE  LET q == Tried(run, status)
               task == Task(status, Top.data, {})
           IN  /\ TypeOK(q) /\ RanShape(run, q, Top.node, task)
               /\ q.stack = run.stack /\ q.unchecked = run.unchecked
               /\ Ran(run, Top.node, task) = q
<1> DEFINE task == Task(status, Top.data, {})
<1>1. TypeOK(run) /\ run \in Records /\ run.stack # << >> /\ task \in Tasks
      /\ run.stack \in Seq(Items)
  BY TurnFacts
<1>2. run.unchecked \in BOOLEAN
  BY <1>1 DEF Records
<1> HIDE DEF task
<1>3. LET q == RanOn(run, run.stack, run.unchecked, task)
      IN  TypeOK(q) /\ RanShape(run, q, Head(run.stack).node, task)
          /\ q.stack = run.stack /\ q.unchecked = run.unchecked
  BY <1>1, <1>2, RanFacts
<1>4. [run EXCEPT !.stack = run.stack, !.unchecked = run.unchecked] = run
  BY <1>1 DEF Records
<1>5. Ran(run, Top.node, task) = RanOn(run, run.stack, run.unchecked, task)
  BY <1>4 DEF RanOn, Top
<1> QED
  BY <1>3, <1>5 DEF Tried, task, Top

\* An execution that has failed holds what it held.
LEMMA FailedFacts ==
    ASSUME NEW q, TypeOK(q)
    PROVE  LET p == [q EXCEPT !.status = "error"]
           IN  /\ TypeOK(p) /\ p.status = "error"
               /\ p.stack = q.stack /\ p.waiting = q.waiting /\ p.order = q.order
               /\ p.runData = q.runData /\ p.last = q.last /\ p.waitTill = q.waitTill
               /\ p.destination = q.destination /\ p.filter = q.filter /\ p.kept = q.kept
               /\ p.silent = q.silent /\ p.waited = q.waited /\ p.misplaced = q.misplaced
               /\ p.unchecked = q.unchecked /\ p.marred = q.marred
               /\ q.status = "running" => [p EXCEPT !.status = "running"] = q
BY DEF TypeOK, Records

\* A node fails.
LEMMA NodeFailsStand ==
    ASSUME workflow \in Workflows, StandInv(run, row), NodeFails
    PROVE  StandInv(run', row')
<1> DEFINE q == Tried(run, "error")
           p == Failed(run)
           task == Task("error", Top.data, {})
           n == Top.node
<1>1. Turn
  BY DEF NodeFails
<1>2. run.status = "running" /\ ~run.waitTill /\ n \in Nodes /\ task \in Tasks
  BY <1>1, TurnFacts
<1>3. /\ TypeOK(q) /\ RanShape(run, q, n, task) /\ q.stack = run.stack
      /\ Ran(run, n, task) = q
  BY <1>1, TriedFacts
<1>4. /\ TypeOK(p) /\ p.status = "error" /\ p.stack = q.stack /\ p.runData = q.runData
      /\ p.waitTill = q.waitTill /\ p.destination = q.destination /\ p.filter = q.filter
      /\ p.kept = q.kept /\ p.waited = q.waited /\ p.marred = q.marred
      /\ q.status = "running" => [p EXCEPT !.status = "running"] = q
  BY <1>3, FailedFacts DEF Failed
<1>5. q.status = "running" /\ q.waited = run.waited /\ q.marred = run.marred /\ ~q.waitTill
      /\ q.runData = OneMore(run.runData, n, task) /\ q.destination = run.destination
      /\ q.filter = run.filter /\ q.kept = run.kept
  BY <1>2, <1>3 DEF RanShape
<1>6. run' = p /\ row' = Progress(q, n, task)
  BY <1>3, <1>4, <1>5 DEF NodeFails, Failed
<1> HIDE DEF q, p, n, task
<1>7. ASSUME ~run.marred PROVE DisabledHasWaited(q) /\ DisabledHasWaited(p)
  BY <1>3, <1>4, <1>5, <1>7 DEF StandInv, DisabledHasWaited
<1>8. WaitIsOnTop(p)
  BY <1>4, <1>5 DEF WaitIsOnTop
<1>9. StandInv(p, Progress(q, n, task))
  BY <1>2, <1>3, <1>4, <1>5, <1>7, <1>8, ProgressKeeps
<1> QED
  BY <1>6, <1>9

\* What is appended is last.
LEMMA LastOfAppend ==
    ASSUME NEW s \in Seq(Tasks), NEW x \in Tasks
    PROVE  Append(s, x) # << >> /\ Last(Append(s, x)) = x
<1>1. Append(s, x) # << >> /\ Len(Append(s, x)) = Len(s) + 1 /\ Append(s, x)[Len(s) + 1] = x
  BY AppendProperties
<1> QED
  BY <1>1 DEF Last

PausedShape(q, p, xs) ==
    /\ p.status = "waiting" /\ p.waitTill = TRUE /\ p.waited = q.waited \cup xs
    /\ p.stack = q.stack /\ p.waiting = q.waiting /\ p.order = q.order
    /\ p.runData = q.runData /\ p.last = q.last
    /\ p.destination = q.destination /\ p.filter = q.filter /\ p.kept = q.kept
    /\ p.silent = q.silent /\ p.misplaced = q.misplaced
    /\ p.unchecked = q.unchecked /\ p.marred = q.marred
PauseSavedShape(q, p, xs, s) ==
    /\ p.status = q.status /\ p.stack = s /\ p.waited = q.waited \cup xs /\ p.marred = q.marred

\* A wait that is recorded keeps the type, in the run and in the row.
LEMMA PausedFacts ==
    ASSUME NEW q, TypeOK(q), NEW xs \in SUBSET (Nodes \X Data), NEW s \in Seq(Items)
    PROVE  /\ TypeOK(Pause(q, xs)) /\ PausedShape(q, Pause(q, xs), xs)
           /\ TypeOK(PauseSave(q, xs, s)) /\ PauseSavedShape(q, PauseSave(q, xs, s), xs, s)
BY DEF TypeOK, Records, Pause, PauseSave, PausedShape, PauseSavedShape

\* What a wait makes of the run and of the row.
LEMMA WaitIs ==
    ASSUME workflow \in Workflows, StandInv(run, row), NodeWaits
    PROVE  LET t == Tried(run, "waiting")
               xs == Waiter(run)
               task == Task("waiting", Top.data, {})
           IN  /\ run' = Pause(t, xs) /\ row' = Progress(PauseSave(t, xs, Tail(run.stack)), Top.node, task)
               /\ TypeOK(t) /\ RanShape(run, t, Top.node, task) /\ t.stack = run.stack
<1> DEFINE t == Tried(run, "waiting")
           p == Paused(run)
           q == PauseSaved(run)
           task == Task("waiting", Top.data, {})
           n == Top.node
           xs == Waiter(run)
<1>1. Turn
  BY DEF NodeWaits
<1>2. run \in Records
  BY <1>1, TurnFacts
<1>3. /\ TypeOK(t) /\ RanShape(run, t, n, task) /\ t.stack = run.stack
      /\ Ran(run, n, task) = t
  BY <1>1, TriedFacts
<1>4. Ran([run EXCEPT !.waited = @ \cup xs], n, task) = [t EXCEPT !.waited = @ \cup xs]
  <2> HIDE DEF t, n, task, xs
  <2>1. Ran([run EXCEPT !.waited = @ \cup xs], n, task) = [Ran(run, n, task) EXCEPT !.waited = @ \cup xs]
    BY <1>2 DEF Ran, Records
  <2> QED
    BY <1>3, <2>1
<1>5. run' = p /\ row' = Progress(q, n, task)
  <2> DEFINE u == [t EXCEPT !.waited = @ \cup xs]
  <2>1. run' = [u EXCEPT !.waitTill = TRUE, !.status = "waiting"]
        /\ row' = Progress([u EXCEPT !.stack = Tail(@)], n, task)
    BY <1>4 DEF NodeWaits, Waiter, Top
  <2>2. p = [t EXCEPT !.waited = @ \cup xs, !.waitTill = TRUE, !.status = "waiting"]
        /\ q = [t EXCEPT !.waited = @ \cup xs, !.stack = Tail(run.stack)]
    BY DEF Paused, PauseSaved, Pause, PauseSave
  <2>3. t \in Records
    BY <1>3 DEF TypeOK
  <2> HIDE DEF t, p, q, n, task, xs
  <2>4. run' = p
    BY <2>1, <2>2, <2>3 DEF Records
  <2>5. [u EXCEPT !.stack = Tail(@)] = q
    BY <1>3, <2>2, <2>3 DEF Records
  <2> HIDE DEF u
  <2> QED
    BY <2>1, <2>4, <2>5
<1>6. p = Pause(t, xs) /\ q = PauseSave(t, xs, Tail(run.stack))
  BY DEF Paused, PauseSaved
<1> HIDE DEF t, p, q, task
<1> QED
  BY <1>3, <1>5, <1>6 DEF t, task

\* A node puts the execution to wait.
LEMMA NodeWaitsStand ==
    ASSUME workflow \in Workflows, StandInv(run, row), NodeWaits
    PROVE  StandInv(run', row')
<1> DEFINE t == Tried(run, "waiting")
           task == Task("waiting", Top.data, {})
           n == Top.node
           xs == Waiter(run)
           p == Pause(t, xs)
           q == PauseSave(t, xs, Tail(run.stack))
<1>1. Turn
  BY DEF NodeWaits
<1>2. /\ run.status = "running" /\ ~run.waitTill /\ n \in Nodes /\ task \in Tasks /\ run.stack # << >>
      /\ run \in Records /\ Tail(run.stack) \in Seq(Items) /\ run.stack \in Seq(Items)
      /\ xs \in SUBSET (Nodes \X Data)
  BY <1>1, TurnFacts, WaiterFacts
<1>3. /\ run' = p /\ row' = Progress(q, n, task)
      /\ TypeOK(t) /\ RanShape(run, t, n, task) /\ t.stack = run.stack
  BY WaitIs
<1> HIDE DEF t, n, task, xs
<1>7. /\ TypeOK(p) /\ p.status = "waiting" /\ p.waitTill = TRUE /\ p.waited = t.waited \cup xs
      /\ p.stack = t.stack /\ p.runData = t.runData /\ p.last = t.last
      /\ p.destination = t.destination /\ p.filter = t.filter /\ p.kept = t.kept
      /\ p.marred = t.marred
      /\ TypeOK(q) /\ q.status = t.status /\ q.stack = Tail(run.stack) /\ q.waited = t.waited \cup xs
      /\ q.marred = t.marred
  <2>1. /\ TypeOK(p) /\ PausedShape(t, p, xs)
        /\ TypeOK(q) /\ PauseSavedShape(t, q, xs, Tail(run.stack))
    BY <1>2, <1>3, PausedFacts
  <2> QED
    BY <2>1 DEF PausedShape, PauseSavedShape
<1> HIDE DEF p, q
<1>8. t.status = "running" /\ t.waited = run.waited /\ t.marred = run.marred /\ t.last = n
      /\ t.runData = OneMore(run.runData, n, task) /\ t.destination = run.destination
      /\ t.filter = run.filter /\ t.kept = run.kept
  BY <1>2, <1>3 DEF RanShape
<1>9. ASSUME ~run.marred PROVE DisabledHasWaited(p) /\ DisabledHasWaited(q)
  <2>1. DisabledHasWaited(run)
    BY <1>9 DEF StandInv
  <2>2. NoNewDisabled(run, p) /\ NoNewDisabled(run, q)
    BY <1>2, <1>3, <1>7, TopFacts DEF NoNewDisabled
  <2> QED
    BY <1>7, <1>8, <2>1, <2>2, StillWaited
<1>10. WaitIsOnTop(p)
  <2>1. p.stack = run.stack /\ p.stack # << >> /\ p.last = n /\ p.runData = OneMore(run.runData, n, task)
    BY <1>2, <1>3, <1>7, <1>8
  <2>2. \A x \in Sharing(p.stack, p.stack[1]) : <<x.node, x.data>> \in p.waited
    <3>1. \A x \in Sharing(run.stack, run.stack[1]) : <<x.node, x.data>> \in xs
      BY <1>2, WaiterFacts DEF xs
    <3> QED
      BY <1>7, <2>1, <3>1
  <2>3. p.runData[p.last] = Append(run.runData[n], task) /\ run.runData[n] \in Seq(Tasks)
    BY <1>2, <2>1 DEF OneMore, Records
  <2>4. p.runData[p.last] # << >> /\ Last(p.runData[p.last]) = task
    BY <1>2, <2>3, LastOfAppend
  <2>5. task.status = "waiting"
    BY DEF task, Task
  <2> QED
    BY <1>2, <2>1, <2>2, <2>4, <2>5 DEF WaitIsOnTop
<1>11. StandInv(p, Progress(q, n, task))
  <2>1. p.stack # << >>
    BY <1>2, <1>3, <1>7
  <2> QED
    BY <1>2, <1>7, <1>8, <1>9, <1>10, <2>1, ProgressKeeps
<1> QED
  BY <1>3, <1>11

\* Only how the run stands changes.
SameBut(r, q) ==
    /\ q.stack = r.stack /\ q.waiting = r.waiting /\ q.order = r.order /\ q.runData = r.runData
    /\ q.last = r.last /\ q.waitTill = r.waitTill /\ q.destination = r.destination
    /\ q.filter = r.filter /\ q.kept = r.kept /\ q.silent = r.silent
    /\ q.waited = r.waited /\ q.misplaced = r.misplaced

\* What only the stack, the runs and the waiting nodes decide stays.
LEMMA SameButStand ==
    ASSUME NEW r, NEW q, SameBut(r, q)
    PROVE  /\ WaitIsOnTop(r) => WaitIsOnTop(q)
           /\ DisabledHasWaited(r) => DisabledHasWaited(q)
           /\ NoneReady(r) => NoneReady(q)
BY DEF SameBut, WaitIsOnTop, DisabledHasWaited, NoneReady, CanRun

\* The execution ends.
LEMMA FinishStand ==
    ASSUME workflow \in Workflows, StandInv(run, row), Finish
    PROVE  StandInv(run', row') /\ SameBut(run, run') /\ SameBut(run, row')
           /\ row'.status # "running" /\ run'.status = "none"
           /\ run'.marred = run.marred /\ row'.marred = run.marred
<1> DEFINE end == IF run.status = "running" THEN "success" ELSE run.status
<1>1. run \in Records /\ TypeOK(run)
  BY DEF StandInv, TypeOK
<1>2. end \in {"success", "waiting", "error"} /\ (run.status = "running" => run.stack = << >>)
      /\ (end = "success" => run.status = "running") /\ (end = "waiting" => run.status = "waiting")
      /\ run.status # "none"
  BY DEF Finish
<1>3. run' = [run EXCEPT !.status = "none"] /\ row' = [run EXCEPT !.status = end, !.stored = TRUE]
  BY DEF Finish
<1> HIDE DEF end
<1>4. /\ TypeOK(run') /\ SameBut(run, run') /\ run'.status = "none" /\ run'.marred = run.marred
      /\ TypeOK(row') /\ SameBut(run, row') /\ row'.status = end /\ row'.marred = run.marred
      /\ row'.unchecked = run.unchecked
  BY <1>1, <1>2, <1>3 DEF TypeOK, Records, SameBut
<1>5. row'.status # "running"
  BY <1>2, <1>4
<1> DEFINE p == run'
           w == row'
<1> HIDE DEF p, w
<1>6. /\ TypeOK(p) /\ SameBut(run, p) /\ p.status = "none" /\ p.marred = run.marred
      /\ TypeOK(w) /\ SameBut(run, w) /\ w.status = end /\ w.marred = run.marred
      /\ w.unchecked = run.unchecked /\ w.status # "running"
  BY <1>4, <1>5 DEF p, w
<1>7. Agree(p, w)
  <2>1. w.status = "success" /\ ~w.unchecked => NoneReady(w)
    <3> SUFFICES ASSUME w.status = "success", ~w.unchecked PROVE NoneReady(w)
      OBVIOUS
    <3>1. NoneReady(run)
      BY <1>2, <1>6 DEF StandInv, Agree
    <3> QED
      BY <1>6, <3>1, SameButStand
  <2>2. w.status = "waiting" => w.stack # << >>
    BY <1>2, <1>6 DEF StandInv, Agree, SameBut
  <2> QED
    BY <1>6, <2>1, <2>2 DEF Agree
<1>8. /\ ~p.marred => WaitIsOnTop(p) /\ DisabledHasWaited(p)
      /\ ~w.marred => WaitIsOnTop(w) /\ DisabledHasWaited(w)
  BY <1>6, SameButStand DEF StandInv
<1>9. StandInv(p, w)
  BY <1>6, <1>7, <1>8 DEF StandInv
<1> QED
  BY <1>4, <1>5, <1>9 DEF p, w

\* The row of an execution that a restart marks as crashed.
MarkedCrashed(r, out) == [r EXCEPT !.status = "crashed", !.marred = r.marred \/ out]

\* A row that is marked as crashed holds what it held.
LEMMA CrashedFacts ==
    ASSUME NEW r, TypeOK(r), NEW out \in BOOLEAN
    PROVE  LET p == MarkedCrashed(r, out)
           IN  /\ TypeOK(p) /\ SameBut(r, p) /\ p.status = "crashed"
               /\ p.marred = (r.marred \/ out)
<1> DEFINE p == MarkedCrashed(r, out)
<1>1. r \in Records /\ (r.marred \/ out) \in BOOLEAN
  BY DEF TypeOK, Records
<1>2. p \in Records /\ p.status = "crashed" /\ p.marred = (r.marred \/ out)
  BY <1>1 DEF Records, MarkedCrashed
<1>3. SameBut(r, p) /\ p.waiting = r.waiting /\ p.order = r.order
  BY <1>1 DEF SameBut, Records, MarkedCrashed
<1> QED
  BY <1>2, <1>3 DEF TypeOK

\* The process ends: what the row says is all there is.
LEMMA CrashStand ==
    ASSUME workflow \in Workflows, StandInv(run, row), Crash
    PROVE  StandInv(run', row') /\ SameBut(run, run') /\ SameBut(row, row')
           /\ row'.status # "running" /\ run'.status = "none"
           /\ run'.marred = run.marred
           /\ row'.marred = (row.marred \/ OutOfStep(run, row))
<1>1. run \in Records /\ TypeOK(run) /\ row \in Records /\ TypeOK(row)
  BY DEF StandInv, TypeOK
<1>2. row.status = "running"
  BY DEF Crash, StandInv, Agree
<1>3. run' = [run EXCEPT !.status = "none"]
  BY DEF Crash
<1>4. row' = [row EXCEPT !.status = "crashed", !.marred = row.marred \/ OutOfStep(run, row)]
  BY <1>1, <1>2 DEF Crash, OutOfStep, Records
<1> DEFINE out == OutOfStep(run, row)
<1>5. out \in BOOLEAN
  BY DEF OutOfStep
<1> HIDE DEF out
<1>6. /\ TypeOK(run') /\ SameBut(run, run') /\ run'.status = "none" /\ run'.marred = run.marred
  BY <1>1, <1>3 DEF TypeOK, Records, SameBut
<1>7. row' = MarkedCrashed(row, out)
  BY <1>4 DEF out, MarkedCrashed
<1>8. /\ TypeOK(row') /\ SameBut(row, row') /\ row'.status = "crashed"
      /\ row'.marred = (row.marred \/ out)
  BY <1>1, <1>5, <1>7, CrashedFacts
<1> DEFINE p == run'
           w == row'
<1> HIDE DEF p, w
<1>9. /\ TypeOK(p) /\ SameBut(run, p) /\ p.status = "none" /\ p.marred = run.marred
      /\ TypeOK(w) /\ SameBut(row, w) /\ w.status = "crashed"
      /\ w.marred = (row.marred \/ out)
  BY <1>6, <1>8 DEF p, w
<1>10. Agree(p, w)
  BY <1>9 DEF Agree
<1>11. ~p.marred => WaitIsOnTop(p) /\ DisabledHasWaited(p)
  BY <1>9, SameButStand DEF StandInv
<1>12. ~w.marred => WaitIsOnTop(w) /\ DisabledHasWaited(w)
  <2> SUFFICES ASSUME ~w.marred PROVE WaitIsOnTop(w) /\ DisabledHasWaited(w)
    OBVIOUS
  <2>1. ~row.marred /\ ~OutOfStep(run, row)
    BY <1>9 DEF out
  <2> QED
    BY <1>9, <2>1, SameButStand DEF StandInv
<1>13. StandInv(p, w)
  BY <1>9, <1>10, <1>11, <1>12 DEF StandInv
<1> QED
  BY <1>6, <1>8, <1>13 DEF p, w, out

\* What is done with the data of a row before it is run again.
Restarted(r) == [Restart(r) EXCEPT !.status = "running", !.unchecked = TRUE]
TakenUp(r) == IF r.waitTill THEN Disable(ReadStack(r.stack)) ELSE ReadStack(r.stack)
ReadWaiting(w) == [n \in Nodes |-> [k \in DOMAIN w[n] |-> ReadEntry(w[n][k])]]
RestartShape(r, q) ==
    /\ q.waiting = ReadWaiting(r.waiting) /\ q.order = r.order /\ q.last = r.last /\ ~q.waitTill
    /\ q.destination = r.destination /\ q.filter = r.filter /\ q.kept = r.kept
    /\ q.silent = r.silent /\ q.waited = r.waited /\ q.misplaced = r.misplaced
    /\ q.marred = r.marred /\ q.status = "running" /\ q.unchecked = TRUE
    /\ q.stack = TakenUp(r)
    /\ ~r.waitTill => q.runData = r.runData
    /\ r.waitTill => q.runData = LastTaken(r.runData, r.last)

\* The items are the same ones; those that share the waiting node's object are passed over.
SameItems(s, t) ==
    /\ DOMAIN t = DOMAIN s /\ Len(t) = Len(s)
    /\ \A i \in DOMAIN s : t[i].node = s[i].node /\ t[i].data = s[i].data

\* A run may be taken from the end of a node's.
LEMMA LastTakenFacts ==
    ASSUME NEW d \in [Nodes -> Seq(Tasks)], NEW n
    PROVE  LastTaken(d, n) \in [Nodes -> Seq(Tasks)]
<1>1. CASE n \in Nodes
  <2>1. Front(d[n]) \in Seq(Tasks)
    <3>1. d[n] \in Seq(Tasks)
      BY <1>1
    <3>2. Len(d[n]) - 1 \in Int /\ 1 \in Int /\ \A i \in 1..(Len(d[n]) - 1) : d[n][i] \in Tasks
      BY <3>1
    <3>3. SubSeq(d[n], 1, Len(d[n]) - 1) \in Seq(Tasks)
      BY <3>2, SubSeqProperties
    <3> QED
      BY <3>3 DEF Front
  <2> QED
    BY <1>1, <2>1 DEF LastTaken
<1>2. CASE n \notin Nodes
  BY <1>2 DEF LastTaken
<1> QED
  BY <1>1, <1>2

\* What is read of a stack are the same items, and objects that were apart stay apart.
LEMMA ReadStackIs ==
    ASSUME NEW s \in Seq(Items)
    PROVE  LET t == ReadStack(s)
           IN  /\ t \in Seq(Items) /\ SameItems(s, t)
               /\ \A i \in DOMAIN s : t[i].disabled = s[i].disabled
               /\ \A i, j \in DOMAIN s : t[i].object = t[j].object => s[i].object = s[j].object
<1> DEFINE own == \E i \in DOMAIN s : s[i].object = 0
           x(i) == [s[i] EXCEPT !.object = IF own THEN @ + 1 ELSE @]
           t == ReadStack(s)
<1>1. DOMAIN s = 1..Len(s) /\ Len(s) \in Nat /\ \A i \in DOMAIN s : s[i] \in Items
  OBVIOUS
<1>2. t = [i \in DOMAIN s |-> x(i)]
  BY DEF ReadStack
<1>3. \A i \in DOMAIN s :
         /\ x(i) \in Items /\ x(i).node = s[i].node /\ x(i).data = s[i].data
         /\ x(i).disabled = s[i].disabled
         /\ x(i).object = IF own THEN s[i].object + 1 ELSE s[i].object
  <2> HIDE DEF own
  <2> QED BY <1>1 DEF Items
<1>4. \A i, j \in DOMAIN s : x(i).object = x(j).object => s[i].object = s[j].object
  <2>1. \A i \in DOMAIN s : s[i].object \in Nat
    BY <1>1 DEF Items
  <2> HIDE DEF own, x
  <2> QED BY <1>3, <2>1
<1> HIDE DEF own, x, t
<1>5. t \in Seq(Items) /\ DOMAIN t = DOMAIN s /\ Len(t) = Len(s) /\ \A i \in DOMAIN s : t[i] = x(i)
  BY <1>1, <1>2, <1>3
<1> QED
  BY <1>3, <1>4, <1>5 DEF SameItems, t

\* What is passed over in it are the items that share the object of the one on top.
LEMMA DisableIs ==
    ASSUME NEW s \in Seq(Items), s # << >>
    PROVE  LET t == Disable(s)
           IN  /\ t \in Seq(Items) /\ SameItems(s, t)
               /\ \A i \in DOMAIN s :
                     t[i].disabled => s[i].disabled \/ (s[i].node = s[1].node /\ s[i].object = s[1].object)
<1> DEFINE over(i) == s[i] \in Sharing(s, s[1])
           x(i) == [s[i] EXCEPT !.disabled = @ \/ over(i)]
           t == Disable(s)
<1>1. DOMAIN s = 1..Len(s) /\ Len(s) \in Nat /\ \A i \in DOMAIN s : s[i] \in Items
  OBVIOUS
<1>2. t = [i \in DOMAIN s |-> x(i)]
  BY DEF Disable
<1>3. \A i \in DOMAIN s : over(i) \in BOOLEAN /\ (over(i) => s[i].node = s[1].node /\ s[i].object = s[1].object)
  BY DEF Sharing
<1>4. \A i \in DOMAIN s :
         /\ x(i) \in Items /\ x(i).node = s[i].node /\ x(i).data = s[i].data
         /\ x(i).disabled = (s[i].disabled \/ over(i))
  <2> SUFFICES ASSUME NEW i \in DOMAIN s
               PROVE  /\ x(i) \in Items /\ x(i).node = s[i].node /\ x(i).data = s[i].data
                      /\ x(i).disabled = (s[i].disabled \/ over(i))
    OBVIOUS
  <2>1. s[i] \in Items
    BY <1>1
  <2>2. (s[i].disabled \/ over(i)) \in BOOLEAN
    OBVIOUS
  <2> HIDE DEF over
  <2> QED BY <2>1, <2>2 DEF Items
<1> HIDE DEF over, x, t
<1>5. t \in Seq(Items) /\ DOMAIN t = DOMAIN s /\ Len(t) = Len(s) /\ \A i \in DOMAIN s : t[i] = x(i)
  BY <1>1, <1>2, <1>4
<1> QED
  BY <1>3, <1>4, <1>5 DEF SameItems, t

\* The stack that is taken up.
LEMMA TakenUpFacts ==
    ASSUME NEW r, r.stack \in Seq(Items), r.waitTill => r.stack # << >>
    PROVE  LET t == TakenUp(r)
           IN  /\ t \in Seq(Items) /\ SameItems(r.stack, t)
               /\ \A i \in DOMAIN r.stack :
                     t[i].disabled => \/ r.stack[i].disabled
                                      \/ r.waitTill /\ r.stack[i] \in Sharing(r.stack, r.stack[1])
<1> DEFINE s == r.stack
           u == ReadStack(s)
<1>1. /\ u \in Seq(Items) /\ SameItems(s, u)
      /\ \A i \in DOMAIN s : u[i].disabled = s[i].disabled
      /\ \A i, j \in DOMAIN s : u[i].object = u[j].object => s[i].object = s[j].object
  BY ReadStackIs
<1> HIDE DEF s, u
<1>2. CASE ~r.waitTill
  BY <1>1, <1>2 DEF TakenUp, s, u
<1>3. CASE r.waitTill
  <2> DEFINE t == Disable(u)
  <2>1. s \in Seq(Items) /\ s # << >> /\ 1 \in DOMAIN s
    BY <1>3 DEF s
  <2>2. u # << >>
    BY <1>1, <2>1 DEF SameItems
  <2>3. /\ t \in Seq(Items) /\ SameItems(u, t)
        /\ \A i \in DOMAIN u :
              t[i].disabled => u[i].disabled \/ (u[i].node = u[1].node /\ u[i].object = u[1].object)
    BY <1>1, <2>2, DisableIs
  <2> HIDE DEF t
  <2>4. SameItems(s, t)
    BY <1>1, <2>3 DEF SameItems
  <2>5. \A i \in DOMAIN s : t[i].disabled => s[i].disabled \/ s[i] \in Sharing(s, s[1])
    BY <1>1, <2>1, <2>3 DEF SameItems, Sharing, Range
  <2> QED
    BY <1>3, <2>3, <2>4, <2>5 DEF TakenUp, s, u, t
<1> QED
  BY <1>2, <1>3

\* The waiting entries that are taken up: what they have and what they lack is the same.
LEMMA ReadWaitingFacts ==
    ASSUME workflow \in Workflows, NEW r, TypeOK(r)
    PROVE  LET w == ReadWaiting(r.waiting)
           IN  /\ w \in Waitings /\ WaitingOK(w, r.order)
               /\ \A n \in Nodes : DOMAIN w[n] = DOMAIN r.waiting[n]
               /\ \A n \in Nodes : \A k \in DOMAIN w[n] :
                     w[n][k] = ReadEntry(r.waiting[n][k]) /\ w[n][k] \in EntryOf(n)
               /\ FullLength(r.waiting) => w = r.waiting
<1> DEFINE w == ReadWaiting(r.waiting)
<1>1. r.waiting \in Waitings /\ WaitingOK(r.waiting, r.order)
  BY DEF TypeOK, Records
<1>2. \A n \in Nodes : w[n] = [k \in DOMAIN r.waiting[n] |-> ReadEntry(r.waiting[n][k])]
  BY DEF ReadWaiting
<1>3. DOMAIN w = Nodes
  BY DEF ReadWaiting
<1> HIDE DEF w
<1>4. \A n \in Nodes : DOMAIN w[n] = DOMAIN r.waiting[n]
         /\ \A k \in DOMAIN w[n] : w[n][k] = ReadEntry(r.waiting[n][k])
  BY <1>2
<1>5. ASSUME NEW n \in Nodes, NEW k \in DOMAIN w[n]
      PROVE  /\ w[n][k] \in EntryOf(n) /\ w[n][k] \in Data
             /\ \E i \in Inputs(n) : ~HasInput(w[n][k], i)
             /\ FullLength(r.waiting) => w[n][k] = r.waiting[n][k]
  <2> DEFINE e == r.waiting[n][k]
  <2>1. k \in DOMAIN r.waiting[n] /\ w[n][k] = ReadEntry(e)
    BY <1>4
  <2>2. e \in EntryOf(n) /\ \E i \in Inputs(n) : ~HasInput(e, i)
    BY <2>1, EntriesFacts
  <2>3. FullLength(r.waiting) => DOMAIN e = Inputs(n)
    BY <2>1 DEF FullLength
  <2> HIDE DEF e
  <2>4. /\ ReadEntry(e) \in EntryOf(n) /\ ReadEntry(e) \in Data
        /\ DOMAIN e \subseteq DOMAIN ReadEntry(e)
        /\ \A i \in DOMAIN e : ReadEntry(e)[i] = e[i]
        /\ \A i \in DOMAIN ReadEntry(e) \ DOMAIN e : ReadEntry(e)[i] = Missing
        /\ DOMAIN e = Inputs(n) => ReadEntry(e) = e
    BY <2>2, ReadEntryIs
  <2>5. \A i : ~HasInput(e, i) => ~HasInput(ReadEntry(e), i)
    BY <2>4 DEF HasInput
  <2> QED
    BY <2>1, <2>2, <2>3, <2>4, <2>5 DEF e
<1>6. \A n \in Nodes : w[n] \in UNION {[D -> Data] : D \in SUBSET Nat}
  <2> SUFFICES ASSUME NEW n \in Nodes PROVE w[n] \in UNION {[D -> Data] : D \in SUBSET Nat}
    OBVIOUS
  <2>1. DOMAIN w[n] \in SUBSET Nat
    BY <1>4, EntriesFacts
  <2>2. w[n] \in [DOMAIN w[n] -> Data]
    BY <1>2, <1>4, <1>5
  <2> QED
    BY <2>1, <2>2
<1>7. w \in Waitings
  <2>1. w = [n \in Nodes |-> w[n]]
    BY <1>3 DEF w, ReadWaiting
  <2> QED
    BY <1>6, <2>1 DEF Waitings
<1>8. WaitingOK(w, r.order)
  BY <1>1, <1>4, <1>5 DEF WaitingOK
<1>9. FullLength(r.waiting) => w = r.waiting
  <2> SUFFICES ASSUME FullLength(r.waiting) PROVE w = r.waiting
    OBVIOUS
  <2>1. ASSUME NEW n \in Nodes PROVE w[n] = r.waiting[n]
    <3>1. r.waiting[n] \in [DOMAIN r.waiting[n] -> Data]
      BY EntriesFacts
    <3>2. \A k \in DOMAIN r.waiting[n] : ReadEntry(r.waiting[n][k]) = r.waiting[n][k]
      BY <1>4, <1>5
    <3>3. w[n] = [k \in DOMAIN r.waiting[n] |-> r.waiting[n][k]]
      BY <1>2, <3>2
    <3> QED
      BY <3>1, <3>3
  <2>2. r.waiting = [n \in Nodes |-> r.waiting[n]]
    BY <1>1 DEF Waitings
  <2>3. w = [n \in Nodes |-> w[n]]
    BY <1>3 DEF w, ReadWaiting
  <2> QED
    BY <2>1, <2>2, <2>3
<1> QED
  BY <1>4, <1>5, <1>7, <1>8, <1>9 DEF w

\* The same in one formula.
LEMMA RestartIs ==
    ASSUME NEW r \in Records
    PROVE  Restart(r) = [r EXCEPT !.stack = TakenUp(r), !.waiting = ReadWaiting(r.waiting),
                                  !.waitTill = FALSE,
                                  !.runData = IF r.waitTill THEN LastTaken(r.runData, r.last)
                                              ELSE r.runData]
<1> DEFINE u == ReadStack(r.stack)
           w == ReadWaiting(r.waiting)
<1>1. Read(r) = [r EXCEPT !.stack = u, !.waiting = w]
  BY DEF Read, ReadWaiting, Records
<1> HIDE DEF u, w
<1>2. CASE r.waitTill
  <2> DEFINE s == Disable(u)
             d == LastTaken(r.runData, r.last)
  <2>1. Restart(r) = [Read(r) EXCEPT !.stack = s, !.waitTill = FALSE, !.runData = d]
    BY <1>1, <1>2 DEF Restart, LastTaken, Records
  <2> HIDE DEF s, d
  <2>2. Restart(r) = [r EXCEPT !.stack = s, !.waiting = w, !.waitTill = FALSE, !.runData = d]
    BY <1>1, <2>1 DEF Records
  <2> QED
    BY <1>2, <2>2 DEF TakenUp, s, d, u, w
<1>3. CASE ~r.waitTill
  <2>1. Restart(r) = [r EXCEPT !.stack = u, !.waiting = w]
    BY <1>1, <1>3 DEF Restart
  <2>2. r.waitTill = FALSE
    BY <1>3 DEF Records
  <2>3. Restart(r) = [r EXCEPT !.stack = u, !.waiting = w, !.waitTill = FALSE, !.runData = r.runData]
    BY <2>1, <2>2 DEF Records
  <2> QED
    BY <1>3, <2>3 DEF TakenUp, u, w
<1> QED
  BY <1>2, <1>3

\* A run that is taken up from its row.
LEMMA RestartFacts ==
    ASSUME workflow \in Workflows, NEW r, TypeOK(r), r.waitTill => r.stack # << >>
    PROVE  TypeOK(Restarted(r)) /\ RestartShape(r, Restarted(r))
<1> DEFINE q == Restarted(r)
           s == TakenUp(r)
           w == ReadWaiting(r.waiting)
           d == IF r.waitTill THEN LastTaken(r.runData, r.last) ELSE r.runData
<1>1. r \in Records
  BY DEF TypeOK
<1>2. s \in Seq(Items)
  BY <1>1, TakenUpFacts DEF Records
<1>3. w \in Waitings /\ WaitingOK(w, r.order)
  BY ReadWaitingFacts
<1>4. d \in [Nodes -> Seq(Tasks)]
  BY <1>1, LastTakenFacts DEF Records
<1>5. q = [r EXCEPT !.stack = s, !.waiting = w, !.waitTill = FALSE, !.runData = d,
                    !.status = "running", !.unchecked = TRUE]
  BY <1>1, RestartIs DEF Restarted, Records
<1> HIDE DEF s, d, w, q
<1>6. /\ q \in Records /\ q.stack = s /\ q.waiting = w /\ q.runData = d /\ ~q.waitTill
      /\ q.order = r.order /\ q.last = r.last
      /\ q.destination = r.destination /\ q.filter = r.filter /\ q.kept = r.kept
      /\ q.silent = r.silent /\ q.waited = r.waited /\ q.misplaced = r.misplaced
      /\ q.marred = r.marred /\ q.status = "running" /\ q.unchecked = TRUE
  BY <1>1, <1>2, <1>3, <1>4, <1>5 DEF Records
<1> QED
  BY <1>3, <1>6 DEF TypeOK, RestartShape, q, s, d, w

\* What is passed over has waited, or its object was the waiting node's.
LEMMA RestartWaited ==
    ASSUME NEW r, TypeOK(r), NEW q, RestartShape(r, q),
           WaitIsOnTop(r), DisabledHasWaited(r)
    PROVE  WaitIsOnTop(q) /\ DisabledHasWaited(q)
<1>1. WaitIsOnTop(q)
  BY DEF RestartShape, WaitIsOnTop
<1>2. r.stack \in Seq(Items) /\ (r.waitTill => r.stack # << >>)
  BY DEF TypeOK, Records, WaitIsOnTop
<1>3. q.stack = TakenUp(r) /\ q.waited = r.waited
  BY DEF RestartShape
<1>4. /\ SameItems(r.stack, q.stack)
      /\ \A i \in DOMAIN r.stack :
            q.stack[i].disabled => \/ r.stack[i].disabled
                                   \/ r.waitTill /\ r.stack[i] \in Sharing(r.stack, r.stack[1])
  BY <1>2, <1>3, TakenUpFacts
<1>5. DisabledHasWaited(q)
  <2> SUFFICES ASSUME NEW i \in DOMAIN q.stack, q.stack[i].disabled
               PROVE  <<q.stack[i].node, q.stack[i].data>> \in q.waited
    BY DEF DisabledHasWaited
  <2>1. i \in DOMAIN r.stack /\ q.stack[i].node = r.stack[i].node /\ q.stack[i].data = r.stack[i].data
    BY <1>4 DEF SameItems
  <2>2. <<r.stack[i].node, r.stack[i].data>> \in r.waited
    BY <1>4, <2>1 DEF DisabledHasWaited, WaitIsOnTop
  <2> QED
    BY <1>3, <2>1, <2>2
<1> QED
  BY <1>1, <1>5

\* A resumption or a retry, from data that the row has: q runs, and the row has w.
LEMMA RestartStand ==
    ASSUME workflow \in Workflows, NEW r, TypeOK(r), r.waitTill => r.stack # << >>,
           ~r.marred => WaitIsOnTop(r) /\ DisabledHasWaited(r),
           NEW w, TypeOK(w), SameBut(r, w) \/ w = Restarted(r), w.status = "running", w.marred = r.marred
    PROVE  StandInv(Restarted(r), w)
<1> DEFINE q == Restarted(r)
<1>1. TypeOK(q) /\ RestartShape(r, q)
  BY RestartFacts
<1> HIDE DEF q
<1>2. ~q.marred => WaitIsOnTop(q) /\ DisabledHasWaited(q)
  BY <1>1, RestartWaited DEF RestartShape
<1>3. CASE w = q
  <2>1. Agree(q, w)
    BY <1>1, <1>3 DEF Agree, RestartShape
  <2> QED
    BY <1>1, <1>2, <1>3, <2>1 DEF StandInv, q
<1>4. CASE SameBut(r, w)
  <2>1. ~OutOfStep(q, w) /\ workflow.saveProgress => ~r.waitTill
    BY <1>4 DEF OutOfStep, SameBut
  <2>2. Agree(q, w)
    BY <1>1, <1>4, <2>1 DEF Agree, RestartShape, SameBut
  <2>3. ~w.marred => WaitIsOnTop(w) /\ DisabledHasWaited(w)
    BY <1>4, SameButStand
  <2> QED
    BY <1>1, <1>2, <2>2, <2>3 DEF StandInv, q
<1> QED
  BY <1>3, <1>4 DEF q

\* A waiting execution is taken up.
LEMMA ResumeStand ==
    ASSUME workflow \in Workflows, StandInv(run, row), ResumeByTimer \/ ResumeByWebhook
    PROVE  StandInv(run', row') /\ run' = Restarted(row) /\ (SameBut(row, row') \/ row' = run')
           /\ row.status # "running" /\ (row.waitTill => row.stack # <<>>)
           /\ row'.status = "running" /\ row'.marred = row.marred
<1>1. TypeOK(row) /\ row \in Records /\ row.status = "waiting" /\ row.stack # << >>
  BY DEF StandInv, TypeOK, Agree, ResumeByTimer, ResumeByWebhook
<1>2. run' = Restarted(row)
  BY DEF ResumeByTimer, ResumeByWebhook, Restarted
<1>3. ~row.marred => WaitIsOnTop(row) /\ DisabledHasWaited(row)
  BY <1>1 DEF StandInv, OutOfStep
<1>4. TypeOK(row') /\ row'.status = "running" /\ row'.marred = row.marred
      /\ (SameBut(row, row') \/ row' = Restarted(row))
  <2>1. CASE ResumeByTimer
    <3>1. row' = [row EXCEPT !.status = "running"]
      BY <2>1 DEF ResumeByTimer
    <3> QED
      BY <1>1, <3>1 DEF TypeOK, Records, SameBut
  <2>2. CASE ResumeByWebhook
    <3>1. row' = Restarted(row)
      BY <1>2, <2>2 DEF ResumeByWebhook
    <3>2. TypeOK(Restarted(row)) /\ RestartShape(row, Restarted(row))
      BY <1>1, RestartFacts
    <3> QED
      BY <3>1, <3>2 DEF RestartShape
  <2> QED
    BY <2>1, <2>2
<1>5. StandInv(Restarted(row), row')
  BY <1>1, <1>3, <1>4, RestartStand
<1> QED
  BY <1>1, <1>2, <1>4, <1>5

\* ExecutionService.retry: the data of the row without the error.
Retried(r) == [WithoutError(r) EXCEPT !.status = "running", !.unchecked = TRUE]
EndsInError(r) == r.last # NoNode /\ r.runData[r.last] # <<>> /\ Last(r.runData[r.last]).status = "error"
RetriedShape(r, q) ==
    /\ q.stack = r.stack /\ q.waiting = r.waiting /\ q.order = r.order /\ q.last = r.last
    /\ q.waitTill = r.waitTill /\ q.destination = r.destination /\ q.filter = r.filter
    /\ q.kept = r.kept /\ q.silent = r.silent /\ q.waited = r.waited
    /\ q.misplaced = r.misplaced /\ q.marred = r.marred
    /\ q.status = "running" /\ q.unchecked = TRUE
    /\ q.runData = IF EndsInError(r) THEN LastTaken(r.runData, r.last) ELSE r.runData

\* A row that is prepared for a retry.
LEMMA RetriedFacts ==
    ASSUME NEW r, TypeOK(r)
    PROVE  TypeOK(Retried(r)) /\ RetriedShape(r, Retried(r))
<1> DEFINE q == Retried(r)
           d == IF EndsInError(r) THEN LastTaken(r.runData, r.last) ELSE r.runData
<1>1. r \in Records
  BY DEF TypeOK
<1>2. q = [r EXCEPT !.runData = d, !.status = "running", !.unchecked = TRUE]
  <2>1. WithoutError(r) = [r EXCEPT !.runData = d]
    <3>1. CASE EndsInError(r)
      <4>1. WithoutError(r) = [r EXCEPT !.runData[r.last] = Front(@)]
        BY <3>1 DEF WithoutError, EndsInError
      <4>2. d = LastTaken(r.runData, r.last)
        BY <3>1
      <4> HIDE DEF d
      <4> QED
        BY <1>1, <4>1, <4>2 DEF LastTaken, Records
    <3>2. CASE ~EndsInError(r)
      <4>1. WithoutError(r) = r /\ d = r.runData
        BY <3>2 DEF WithoutError, EndsInError
      <4> HIDE DEF d
      <4> QED
        BY <1>1, <4>1 DEF Records
    <3> QED
      BY <3>1, <3>2
  <2> HIDE DEF d
  <2> QED
    BY <1>1, <2>1 DEF Retried, Records
<1>3. d \in [Nodes -> Seq(Tasks)]
  BY <1>1, LastTakenFacts DEF Records
<1> HIDE DEF d, q
<1>4. /\ q \in Records /\ q.stack = r.stack /\ q.waiting = r.waiting /\ q.order = r.order
      /\ q.last = r.last /\ q.waitTill = r.waitTill /\ q.destination = r.destination
      /\ q.filter = r.filter /\ q.kept = r.kept /\ q.silent = r.silent
      /\ q.waited = r.waited /\ q.misplaced = r.misplaced /\ q.marred = r.marred
      /\ q.status = "running" /\ q.unchecked = TRUE /\ q.runData = d
  BY <1>1, <1>2, <1>3 DEF Records
<1> QED
  BY <1>4 DEF TypeOK, RetriedShape, q, d

\* An execution that is running is not changed by being set to running.
LEMMA RunsAlready ==
    ASSUME NEW r \in Records, r.status = "running", r.unchecked = TRUE
    PROVE  Restarted(r) = Restart(r)
<1> DEFINE s == TakenUp(r)
           w == ReadWaiting(r.waiting)
           d == IF r.waitTill THEN LastTaken(r.runData, r.last) ELSE r.runData
           q == Restart(r)
<1>1. q = [r EXCEPT !.stack = s, !.waiting = w, !.waitTill = FALSE, !.runData = d]
  BY RestartIs
<1> HIDE DEF s, w, d, q
<1>2. [q EXCEPT !.status = "running", !.unchecked = TRUE] = q
  BY <1>1 DEF Records
<1> QED
  BY <1>2 DEF Restarted, q

\* A failed execution is retried.
LEMMA RetryStand ==
    ASSUME workflow \in Workflows, StandInv(run, row), Retry
    PROVE  LET data == Retried(row)
           IN  /\ StandInv(run', row') /\ run' = Restarted(data) /\ row' = data
               /\ TypeOK(data) /\ RetriedShape(row, data) /\ row.status # "running"
               /\ (data.waitTill => data.stack # <<>>)
               /\ ~data.marred => WaitIsOnTop(data)
<1> DEFINE data == Retried(row)
<1>1. TypeOK(row) /\ row.status # "running"
  BY DEF StandInv, Retry
<1>2. TypeOK(data) /\ RetriedShape(row, data)
  BY <1>1, RetriedFacts
<1>3. row' = data /\ (data.waitTill => data.stack # <<>>)
      /\ run' = Restart(data) /\ data.status = "running" /\ data.unchecked = TRUE
  BY <1>2 DEF Retry, Retried, RetriedShape
<1> HIDE DEF data
<1>4. run' = Restarted(data)
  <2>1. data \in Records
    BY SMTT(30), <1>2 DEF TypeOK
  <2> QED
    BY <1>3, <2>1, RunsAlready
<1>5. ~data.marred => WaitIsOnTop(data) /\ DisabledHasWaited(data)
  <2> SUFFICES ASSUME ~data.marred PROVE WaitIsOnTop(data) /\ DisabledHasWaited(data)
    OBVIOUS
  <2>1. WaitIsOnTop(row) /\ DisabledHasWaited(row)
    BY <1>1, <1>2 DEF StandInv, OutOfStep, RetriedShape
  <2>2. DisabledHasWaited(data)
    BY <1>2, <2>1 DEF RetriedShape, DisabledHasWaited
  <2>3. row.waitTill => ~EndsInError(row)
    BY <2>1 DEF WaitIsOnTop, EndsInError
  <2>4. row.waitTill => data.runData = row.runData
    BY <1>2, <2>3 DEF RetriedShape
  <2> QED
    BY <1>2, <2>1, <2>2, <2>4 DEF RetriedShape, WaitIsOnTop
<1>6. StandInv(Restarted(data), data)
  <2>1. SameBut(data, data)
    BY SMTT(30) DEF SameBut
  <2> QED
    BY <1>2, <1>3, <1>5, <2>1, RestartStand
<1> QED
  BY <1>1, <1>2, <1>3, <1>4, <1>5, <1>6 DEF data

-----------------------------------------------------------------------------
(* How the run and the row stand, in every state *)

Standing == workflow \in Workflows /\ StandInv(run, row)

\* What is said of a run and a row with this step's workflow holds of them with the next's.
LEMMA StandTransfers ==
    ASSUME workflow' = workflow, StandInv(run', row')
    PROVE  StandInv(run, row)'
BY DEF StandInv, TypeOK, WaitingOK, Inputs, LinksTo, Agree, OutOfStep, NoneReady, CanRun,
       Ancestors, Closed, WaitIsOnTop, DisabledHasWaited, EntryOf, HasInput, Sharing

\* An execution with nothing in it is one.
LEMMA BlankIs == TypeOK(Blank)
<1>1. << >> \in Seq(Items) /\ << >> \in Seq(Nodes) /\ << >> \in Seq(Tasks)
  OBVIOUS
<1>2. << >> \in UNION {[D -> Data] : D \in SUBSET Nat}
  <2>1. DOMAIN << >> = {} /\ << >> = [k \in {} |-> << >>[k]]
    OBVIOUS
  <2> QED
    BY <2>1, EntriesAre
<1>3. Blank \in Records
  BY <1>1, <1>2 DEF Blank, Records, Waitings
<1>4. WaitingOK(Blank.waiting, Blank.order)
  <2>1. IsFiniteSet(DOMAIN << >>) /\ DOMAIN << >> = {}
    BY FS_EmptySet
  <2>2. Blank.order = << >> /\ \A n \in Nodes : Blank.waiting[n] = << >>
    BY DEF Blank
  <2> QED
    BY <2>1, <2>2 DEF WaitingOK, IsInjective, Range
<1> QED
  BY <1>3, <1>4 DEF TypeOK

\* The first state.
LEMMA StandingInit ==
    ASSUME Init
    PROVE  Standing
<1> DEFINE started == [Blank EXCEPT !.stack = <<Item(Start, [i \in {0} |-> Given])>>]
           item == Item(Start, [i \in {0} |-> Given])
<1>1. item \in Items
  <2>1. [i \in {0} |-> Given] \in Data
    <3> DEFINE d == [i \in {0} |-> Given]
    <3>1. DOMAIN d \subseteq Nat /\ d \in [DOMAIN d -> Values]
      BY DEF Values
    <3> HIDE DEF d
    <3> QED
      BY <3>1, DataIs DEF d
  <2> QED
    BY <2>1, EngineAssumption DEF Item, Items
<1>2. <<item>> \in Seq(Items) /\ Blank \in Records
  BY <1>1, BlankIs DEF TypeOK
<1>3. started = [Blank EXCEPT !.stack = <<item>>]
  OBVIOUS
<1>4. TypeOK(Blank) /\ TypeOK(started)
  <2> HIDE DEF started, item
  <2>1. started \in Records /\ started.waiting = Blank.waiting /\ started.order = Blank.order
    BY <1>2, <1>3 DEF Records
  <2> QED
    BY <2>1, BlankIs DEF TypeOK
<1>5. workflow \in Workflows
  BY DEF Init
<1>6. Blank.status = "running" /\ Blank.waitTill = FALSE /\ Blank.marred = FALSE
      /\ Blank.stack = << >> /\ Blank.unchecked = TRUE
      /\ Blank.destination = NoNode /\ Blank.filter = Nodes
  BY DEF Blank
<1>7. /\ started.status = "running" /\ started.waitTill = FALSE /\ started.marred = FALSE
      /\ started.unchecked = TRUE /\ started.stack = <<item>> /\ started \in Records
      /\ started.stack[1] = item /\ DOMAIN started.stack = {1} /\ ~item.disabled
  <2>1. started.stack = <<item>> /\ started.status = Blank.status /\ started.waitTill = Blank.waitTill
        /\ started.marred = Blank.marred /\ started.unchecked = Blank.unchecked
    <3> HIDE DEF item
    <3>1. started = [Blank EXCEPT !.stack = <<item>>]
      BY DEF item
    <3>2. Blank \in Records
      BY <1>4 DEF TypeOK
    <3> HIDE DEF started
    <3> QED
      BY <3>1, <3>2 DEF Records
  <2>2. ~item.disabled
    BY DEF Item
  <2>3. started \in Records
    BY <1>4 DEF TypeOK
  <2> HIDE DEF started, item
  <2> QED
    BY <1>6, <2>1, <2>2, <2>3
<1> HIDE DEF started, item
<1>8. CASE run = [started EXCEPT !.stored = TRUE] /\ row = run
  <2>1. /\ TypeOK(run) /\ run.status = "running" /\ ~run.waitTill /\ run.unchecked
        /\ run.stack = started.stack
    <3>1. run = [started EXCEPT !.stored = TRUE]
      BY <1>8
    <3>2. /\ run \in Records /\ run.status = started.status /\ run.waitTill = started.waitTill
          /\ run.unchecked = started.unchecked /\ run.stack = started.stack
          /\ run.waiting = started.waiting /\ run.order = started.order
      BY <1>7, <3>1 DEF Records
    <3> QED
      BY <1>4, <1>7, <3>2 DEF TypeOK
  <2>2. WaitIsOnTop(run) /\ DisabledHasWaited(run)
    BY <1>7, <2>1 DEF WaitIsOnTop, DisabledHasWaited
  <2>3. Agree(run, row)
    BY <1>8, <2>1 DEF Agree
  <2> QED
    BY <1>5, <1>8, <2>1, <2>2, <2>3 DEF Standing, StandInv
<1>9. ASSUME NEW d \in workflow.destinations, row = Blank,
             run = [started EXCEPT !.destination = d, !.filter = Ancestors(d) \cup {d}]
      PROVE  Standing
  <2>1. d \in Nodes /\ Ancestors(d) \cup {d} \in SUBSET Nodes
    BY <1>5, EngineAssumption DEF Ancestors
  <2> DEFINE f == Ancestors(d) \cup {d}
  <2> HIDE DEF f
  <2>2. /\ TypeOK(run) /\ run.status = "running" /\ ~run.waitTill /\ run.unchecked
        /\ run.marred = FALSE /\ run.stack = started.stack /\ run.destination = d
    <3>1. run = [started EXCEPT !.destination = d, !.filter = f] /\ f \in SUBSET Nodes
      BY <1>9, <2>1 DEF f
    <3>2. /\ run \in Records /\ run.status = started.status /\ run.waitTill = started.waitTill
          /\ run.unchecked = started.unchecked /\ run.stack = started.stack
          /\ run.marred = started.marred /\ run.destination = d
          /\ run.waiting = started.waiting /\ run.order = started.order
      BY <1>7, <2>1, <3>1 DEF Records
    <3> QED
      BY <1>4, <1>7, <3>2 DEF TypeOK
  <2>3. WaitIsOnTop(run) /\ DisabledHasWaited(run)
    BY <1>7, <2>2 DEF WaitIsOnTop, DisabledHasWaited
  <2>4. WaitIsOnTop(row) /\ DisabledHasWaited(row)
    BY <1>6, <1>9 DEF WaitIsOnTop, DisabledHasWaited
  <2>5. OutOfStep(run, row) \/ ~workflow.saveProgress
    BY <1>6, <1>9, <2>1, <2>2, EngineAssumption DEF OutOfStep
  <2>6. Agree(run, row)
    BY <1>6, <1>9, <2>2, <2>5 DEF Agree
  <2> QED
    BY <1>4, <1>5, <1>9, <2>2, <2>3, <2>4, <2>6 DEF Standing, StandInv
<1> QED
  BY <1>8, <1>9 DEF Init, started, item

\* Every step.
LEMMA StandingNext ==
    ASSUME Standing, [Next]_vars
    PROVE  Standing'
<1> USE DEF Standing
<1>1. CASE UNCHANGED vars
  <2>1. workflow' = workflow /\ StandInv(run', row')
    BY <1>1 DEF vars
  <2> QED
    BY <2>1, StandTransfers
<1>2. CASE Next
  <2>1. workflow' = workflow
    BY <1>2 DEF Next, NodeSucceeds, DestinationSucceeds, Turn, PassOver, NodeReturnsNothing,
                NodeFails, NodeWaits, Finish, Crash, ResumeByTimer, ResumeByWebhook, Retry
  <2>2. StandInv(run', row')
    BY <1>2, NodeSucceedsStand, DestinationSucceedsStand, PassOverStand, NodeReturnsNothingStand,
       NodeFailsStand, NodeWaitsStand, FinishStand, CrashStand, ResumeStand, RetryStand DEF Next
  <2> QED
    BY <2>1, <2>2, StandTransfers
<1> QED
  BY <1>1, <1>2

\* The run and its row keep their types, and stand to each other as the engine and the saves leave
\* them (processRunExecutionData, saveExecutionProgress, and the hook that saves the end): a
\* wait is of the node on top of the stack, and a disabled item is of a node that has waited, with
\* this item or with another that shared the node's object.
THEOREM StandingAlways == Spec => []Standing
<1>1. Init => Standing
  BY StandingInit
<1>2. Standing /\ [Next]_vars => Standing'
  BY StandingNext
<1> QED
  BY <1>1, <1>2, PTL DEF Spec

-----------------------------------------------------------------------------
(* What follows from how the run and the row stand *)

\* What is above a node that is above another, or is that node, is above the other.
LEMMA AncestorsAbove ==
    ASSUME NEW n, NEW m \in Ancestors(n) \cup {n}
    PROVE  Ancestors(m) \subseteq Ancestors(n)
<1> SUFFICES ASSUME NEW x \in Ancestors(m), NEW ns \in Closed,
                    \A l \in LinksTo(n) : l.from \in ns
             PROVE  x \in ns
  BY DEF Ancestors
<1>1. \A l \in LinksTo(m) : l.from \in ns
  <2>1. CASE m = n
    BY <2>1
  <2>2. CASE m \in Ancestors(n)
    <3>1. m \in ns
      BY <2>2 DEF Ancestors
    <3> QED
      BY <3>1 DEF Closed, LinksTo
  <2> QED
    BY <2>1, <2>2
<1> QED
  BY <1>1 DEF Ancestors

\* The source of a link is above the node that it leads to.
LEMMA SourceIsAbove ==
    ASSUME workflow \in Workflows, NEW l \in workflow.links
    PROVE  l.from \in Ancestors(l.to)
BY GraphFacts DEF Ancestors, LinksTo, Links

\* Where there is no cycle, one of the waiting nodes above a node has none above it that waits.
LEMMA TopmostWaits ==
    ASSUME workflow \in Workflows, Acyclic, NEW O \in SUBSET Nodes, NEW n \in O
    PROVE  \E m \in (Ancestors(n) \cup {n}) \cap O : Ancestors(m) \cap O = {}
<1> DEFINE S == (Ancestors(n) \cup {n}) \cap O
           C == {Cardinality(Ancestors(m)) : m \in S}
<1>1. \A m \in Nodes : IsFiniteSet(Ancestors(m)) /\ Cardinality(Ancestors(m)) \in Nat
  <2>1. \A m \in Nodes : Ancestors(m) \subseteq Nodes
    BY DEF Ancestors
  <2> QED
    BY <2>1, EngineAssumption, FS_Subset, FS_CardinalityType
<1>2. C \in SUBSET Nat /\ C # {}
  BY <1>1
<1>3. PICK c \in C : \A d \in C : c <= d
  BY <1>2, LeastNumber
<1>4. PICK m \in S : c = Cardinality(Ancestors(m))
  BY <1>3
<1>5. ASSUME NEW x \in Ancestors(m) \cap O PROVE FALSE
  <2>1. x \in Ancestors(n) /\ Ancestors(x) \subseteq Ancestors(m)
    BY <1>4, AncestorsAbove
  <2>2. x \notin Ancestors(x) /\ x \in Nodes
    BY DEF Acyclic
  <2>3. Ancestors(x) # Ancestors(m) /\ IsFiniteSet(Ancestors(m))
    BY <1>1, <1>4, <2>2
  <2>4. Cardinality(Ancestors(x)) < Cardinality(Ancestors(m))
    <3> HIDE DEF S
    <3>1. m \in Nodes /\ Cardinality(Ancestors(x)) \in Nat /\ Cardinality(Ancestors(m)) \in Nat
      BY <1>1, <1>4, <2>2 DEF S
    <3>2. /\ Cardinality(Ancestors(x)) <= Cardinality(Ancestors(m))
          /\ Cardinality(Ancestors(m)) = Cardinality(Ancestors(x)) => Ancestors(m) = Ancestors(x)
      BY <2>1, <2>3, FS_Subset
    <3> QED
      BY <2>3, <3>1, <3>2
  <2>5. Cardinality(Ancestors(x)) \in C
    BY <2>1
  <2> QED
    BY <1>1, <1>2, <1>3, <1>4, <2>2, <2>4, <2>5
<1> QED
  BY <1>4, <1>5

\* An execution of which no waiting node can run is not left waiting in vain.
LEMMA NoneReadyIsBlocked ==
    ASSUME workflow \in Workflows, NEW r, TypeOK(r), NoneReady(r), Acyclic, NEW n \in Range(r.order)
    PROVE  \E m \in (Ancestors(n) \cup {n}) \cap Range(r.order) :
              LET first == r.waiting[m][Min(DOMAIN r.waiting[m])]
              IN  \/ workflow.required[m] = Inputs(m)
                  \/ \E i \in workflow.required[m] : ~HasInput(first, i)
<1>1. Range(r.order) \in SUBSET Nodes
  BY DEF TypeOK, Records, Range
<1>2. PICK m \in (Ancestors(n) \cup {n}) \cap Range(r.order) : Ancestors(m) \cap Range(r.order) = {}
  BY <1>1, TopmostWaits
<1>3. ~CanRun(r, m)
  BY <1>2 DEF NoneReady, Range
<1> QED
  BY <1>2, <1>3 DEF CanRun

\* A run that has looked at its waiting nodes (workflow-execute.ts, the search that follows when
\* the stack has run empty) leaves one only for an input that is required, there or above.
THEOREM NothingIsLeftWaitingAlways == Spec => []NothingIsLeftWaiting
<1>1. Standing => NothingIsLeftWaiting
  <2> SUFFICES ASSUME Standing, row.status = "success", ~row.unchecked, Acyclic
               PROVE  NothingIsLeftWaiting
    BY DEF NothingIsLeftWaiting
  <2>1. workflow \in Workflows /\ TypeOK(row) /\ NoneReady(row)
    BY DEF Standing, StandInv, Agree
  <2> QED
    BY <2>1, NoneReadyIsBlocked DEF NothingIsLeftWaiting
<1> QED
  BY <1>1, StandingAlways, PTL

\* A node is passed over (processRunExecutionData marks its object disabled) only if it has put the
\* execution to wait, with the same items or with others that shared the object.
THEOREM OnlyWaitersArePassedOverAlways == Spec => []OnlyWaitersArePassedOver
<1>1. Standing => OnlyWaitersArePassedOver
  BY DEF Standing, StandInv, DisabledHasWaited, OnlyWaitersArePassedOver
<1> QED
  BY <1>1, StandingAlways, PTL

-----------------------------------------------------------------------------
(* What an execution holds: what the steps make of it *)

\* Each element that is held is of a node, and holds values.
LEMMA ContentsAre ==
    ASSUME NEW r, TypeOK(r), NEW c \in Contents(r)
    PROVE  /\ c.node \in Nodes /\ c.data \in Data
           /\ DOMAIN c.data \subseteq Nat /\ \A i \in DOMAIN c.data : c.data[i] \in Values
           /\ Waits(c) <=> c \in InWaiting(r.waiting)
<1>1. r \in Records
  BY DEF TypeOK
<1>2. c.node \in Nodes /\ c.data \in Data
  <2>1. CASE c \in OnStack(r.stack)
    <3>1. PICK i \in DOMAIN r.stack :
              c = Held(<<"stack", Len(r.stack) + 1 - i>>, r.stack[i].node, r.stack[i].data)
      BY <2>1, OnStackIs
    <3>2. r.stack[i] \in Items
      BY <1>1 DEF Records
    <3> QED
      BY <3>1, <3>2 DEF Held, Items
  <2>2. CASE c \in InWaiting(r.waiting)
    <3>1. PICK n \in Nodes : \E k \in DOMAIN r.waiting[n] :
              c = Held(<<"waiting", n, k>>, n, r.waiting[n][k])
      BY <2>2, InWaitingIs
    <3>2. PICK k \in DOMAIN r.waiting[n] : c = Held(<<"waiting", n, k>>, n, r.waiting[n][k])
      BY <3>1
    <3>3. r.waiting[n][k] \in Data
      BY EntriesFacts
    <3> QED
      BY <3>2, <3>3 DEF Held
  <2>3. CASE c \in InRuns(r.runData)
    <3>1. PICK n \in Nodes : \E k \in DOMAIN r.runData[n] :
              c = Held(<<"run", n, k>>, n, r.runData[n][k].data)
      BY <2>3, InRunsIs
    <3>2. PICK k \in DOMAIN r.runData[n] : c = Held(<<"run", n, k>>, n, r.runData[n][k].data)
      BY <3>1
    <3>3. r.runData[n][k] \in Tasks
      BY <1>1 DEF Records
    <3> QED
      BY <3>2, <3>3 DEF Held, Tasks
  <2>4. CASE c \in InSilent(r.silent)
    <3>1. PICK x \in r.silent : c = Held(<<"silent", x>>, x.node, x.data)
      BY <2>4, InSilentIs
    <3>2. x \in Items
      BY <1>1 DEF Records
    <3> QED
      BY <3>1, <3>2 DEF Held, Items
  <2> QED
    BY <2>1, <2>2, <2>3, <2>4 DEF Contents
<1>3. DOMAIN c.data \subseteq Nat /\ \A i \in DOMAIN c.data : c.data[i] \in Values
  BY <1>2, DataIs
<1>4. Waits(c) <=> c \in InWaiting(r.waiting)
  BY PartsApart DEF Contents, Waits
<1> QED
  BY <1>2, <1>3, <1>4

\* A batch that is in one place stays in one when its place is exchanged for another, when no
\* place of it changes, and when it appears.
LEMMA OnceMoves ==
    ASSUME NEW r, NEW q, NEW c \in Contents(r), NEW d,
           Contents(q) = (Contents(r) \ {c}) \cup {d},
           NEW l, NEW b, Has(d, l, b) <=> Has(c, l, b)
    PROVE  /\ Once(r, l, b) => Once(q, l, b)
           /\ Nowhere(r, l, b) => Nowhere(q, l, b)
<1>1. ASSUME Once(r, l, b) PROVE Once(q, l, b)
  <2>1. PICK x \in Contents(r) : Has(x, l, b) /\ \A y \in Contents(r) : Has(y, l, b) => y = x
    BY <1>1 DEF Once
  <2>2. CASE Has(c, l, b)
    <3>1. d \in Contents(q) /\ Has(d, l, b) /\ \A y \in Contents(q) : Has(y, l, b) => y = d
      BY <2>1, <2>2
    <3> QED
      BY <3>1 DEF Once
  <2>3. CASE ~Has(c, l, b)
    <3>1. x \in Contents(q) /\ \A y \in Contents(q) : Has(y, l, b) => y = x
      BY <2>1, <2>3
    <3> QED
      BY <2>1, <3>1 DEF Once
  <2> QED
    BY <2>2, <2>3
<1>2. ASSUME Nowhere(r, l, b) PROVE Nowhere(q, l, b)
  BY <1>2 DEF Nowhere
<1> QED
  BY <1>1, <1>2

\* A batch stays where it is if no element that has it comes or goes.
LEMMA OnceStays ==
    ASSUME NEW r, NEW q, NEW l, NEW b,
           \A c \in Contents(r) : Has(c, l, b) => c \in Contents(q),
           \A c \in Contents(q) : Has(c, l, b) => c \in Contents(r)
    PROVE  /\ Once(r, l, b) => Once(q, l, b)
           /\ Nowhere(r, l, b) => Nowhere(q, l, b)
BY DEF Once, Nowhere

\* A batch that was nowhere is in the one element that has come with it.
LEMMA OnceAppears ==
    ASSUME NEW r, NEW q, NEW l, NEW b, NEW d \in Contents(q), Has(d, l, b),
           Nowhere(r, l, b), \A c \in Contents(q) : c \in Contents(r) \/ c = d
    PROVE  Once(q, l, b)
BY DEF Once, Nowhere

\* What one execution holds another holds too, and not where it waits if it does not there.
Within(q, r) ==
    \A d \in Contents(q) : \E c \in Contents(r) :
        c.node = d.node /\ c.data = d.data /\ (Waits(c) <=> Waits(d))
OutsOfSuccess(r) ==
    \A n \in Nodes : \A k \in DOMAIN r.runData[n] :
        r.runData[n][k].outs # {} => r.runData[n][k].status = "success"
Steady(r) == Sourced(r) /\ InOrder(r) /\ NothingAbove(r)

\* An execution that holds no more than a steady one is steady.
LEMMA SteadyWithin ==
    ASSUME NEW r, NEW q, Steady(r), Within(q, r), \A b \in AllBatches : Known(r, b) => Known(q, b),
           OutsOfSuccess(q), q.misplaced = r.misplaced, q.waiting = r.waiting,
           ToCome(q) \subseteq ToCome(r)
    PROVE  Steady(q) /\ Short(q) \subseteq Short(r)
<1>1. Sourced(q)
  <2> SUFFICES ASSUME NEW d \in Contents(q), NEW i \in DOMAIN d.data, d.data[i] \in AllBatches
               PROVE  Known(q, d.data[i])
    BY DEF Sourced, OutsOfSuccess
  <2>1. PICK c \in Contents(r) : c.data = d.data
    BY DEF Within
  <2> QED
    BY <2>1 DEF Steady, Sourced
<1>2. InOrder(q)
  <2>1. ASSUME NEW c \in Contents(q), NEW d \in Contents(q), c.node = d.node, c.node \notin q.misplaced
        PROVE  Paired(c.data, d.data) /\ (~Waits(c) /\ Waits(d) => Before(c.data, d.data))
    <3>1. PICK x \in Contents(r) : x.node = c.node /\ x.data = c.data /\ (Waits(x) <=> Waits(c))
      BY DEF Within
    <3>2. PICK y \in Contents(r) : y.node = d.node /\ y.data = d.data /\ (Waits(y) <=> Waits(d))
      BY DEF Within
    <3>3. Paired(x.data, y.data) /\ (~Waits(x) /\ Waits(y) => Before(x.data, y.data))
      BY <2>1, <3>1, <3>2 DEF Steady, InOrder
    <3> QED
      BY <3>1, <3>2, <3>3
  <2>2. InOrder(r)
    BY DEF Steady
  <2> HIDE DEF Steady
  <2> QED
    BY <2>1, <2>2 DEF InOrder
<1>3. Short(q) \subseteq Short(r)
  BY DEF Within, Short
<1>4. NothingAbove(q)
  BY <1>3 DEF Steady, NothingAbove
<1> QED
  BY <1>1, <1>2, <1>3, <1>4 DEF Steady

\* Nothing is put together before itself.
LEMMA BeforeItself ==
    ASSUME NEW x \in Data
    PROVE  Before(x, x)
<1>1. \A i \in DOMAIN x : x[i] \in Values
  BY DataIs
<1>2. \A i \in DOMAIN x : SameSource(x[i], x[i]) => x[i][2] \in Nat
  BY <1>1 DEF SameSource, Values, AllBatches
<1> QED
  BY <1>2 DEF Before

\* x is put together before y: then they are paired in order.
LEMMA BeforeIsPaired ==
    ASSUME NEW x \in Data, NEW y \in Data, Before(x, y)
    PROVE  Paired(x, y) /\ Paired(y, x)
<1>1. \A i \in DOMAIN x : x[i] \in Values
  BY DataIs
<1>2. \A i \in DOMAIN y : y[i] \in Values
  BY DataIs
<1>3. \A i \in DOMAIN x \cap DOMAIN y : SameSource(x[i], y[i]) =>
         x[i][2] \in Nat /\ y[i][2] \in Nat /\ x[i][2] <= y[i][2]
  BY <1>1, <1>2 DEF Before, SameSource, Values, AllBatches
<1>4. \A i \in DOMAIN x \cap DOMAIN y : SameSource(y[i], x[i]) => SameSource(x[i], y[i])
  BY DEF SameSource
<1> QED
  BY <1>3, <1>4 DEF Paired

\* The item on top of the stack is held there and nowhere else.
TopHeld(r) == Held(<<"stack", Len(r.stack)>>, Head(r.stack).node, Head(r.stack).data)

\* The top of the stack is one element, and its going changes no other.
LEMMA TopGoes ==
    ASSUME NEW r, TypeOK(r), r.stack # << >>
    PROVE  /\ TopHeld(r) \in Contents(r) /\ ~Waits(TopHeld(r))
           /\ TopHeld(r).node = Head(r.stack).node /\ TopHeld(r).data = Head(r.stack).data
           /\ Contents(r) \ {TopHeld(r)} = OnStack(Tail(r.stack)) \cup InWaiting(r.waiting)
                                           \cup InRuns(r.runData) \cup InSilent(r.silent)
           /\ Head(r.stack).node \in ToCome(r)
           /\ \A i \in DOMAIN Tail(r.stack) : Tail(r.stack)[i].node \in ToCome(r)
<1> DEFINE top == TopHeld(r)
<1>1. r \in Records /\ r.stack \in Seq(Items)
  BY DEF TypeOK, Records
<1>2. top \in OnStack(r.stack) /\ OnStack(Tail(r.stack)) = OnStack(r.stack) \ {top}
  BY <1>1, StackPops DEF TopHeld
<1>3. top.at[1] = "stack" /\ top.node = Head(r.stack).node /\ top.data = Head(r.stack).data
  BY DEF TopHeld, Held
<1> HIDE DEF top
<1>4. top \notin InWaiting(r.waiting) /\ top \notin InRuns(r.runData) /\ top \notin InSilent(r.silent)
  BY <1>3, PartsApart
<1>5. Contents(r) \ {top} = OnStack(Tail(r.stack)) \cup InWaiting(r.waiting)
                            \cup InRuns(r.runData) \cup InSilent(r.silent)
  BY <1>2, <1>4 DEF Contents
<1>6. top \in Contents(r) /\ ~Waits(top)
  BY <1>2, <1>3 DEF Contents, Waits
<1>7. Head(r.stack).node \in ToCome(r)
      /\ \A i \in DOMAIN Tail(r.stack) : Tail(r.stack)[i].node \in ToCome(r)
  BY <1>1, TopFacts DEF ToCome
<1> QED
  BY <1>3, <1>5, <1>6, <1>7 DEF top

\* The top of the stack becomes a run, or a silent run, or is dropped.
LEMMA TopRuns ==
    ASSUME NEW r, TypeOK(r), r.stack # << >>, NEW task \in Tasks, NEW q,
           RanShape(r, q, Head(r.stack).node, task), q.stack = Tail(r.stack),
           task.status = "success", task.data = Head(r.stack).data
    PROVE  \E d : /\ Contents(q) = (Contents(r) \ {TopHeld(r)}) \cup {d}
                  /\ d.node = Head(r.stack).node /\ d.data = Head(r.stack).data /\ ~Waits(d)
<1> DEFINE n == Head(r.stack).node
           d == Held(<<"run", n, Len(r.runData[n]) + 1>>, n, task.data)
<1>1. r.runData \in [Nodes -> Seq(Tasks)] /\ n \in Nodes
  BY DEF TypeOK, Records, RanShape
<1>2. InRuns(OneMore(r.runData, n, task)) = InRuns(r.runData) \cup {d}
  <2> HIDE DEF n
  <2> QED BY <1>1, RunsChange
<1>3. d.node = n /\ d.data = Head(r.stack).data /\ ~Waits(d)
  BY DEF Held, Waits
<1> HIDE DEF d
<1>4. Contents(q) = (Contents(r) \ {TopHeld(r)}) \cup {d}
  <2>1. Contents(q) = OnStack(Tail(r.stack)) \cup InWaiting(r.waiting)
                      \cup (InRuns(r.runData) \cup {d}) \cup InSilent(r.silent)
    BY <1>2 DEF Contents, RanShape
  <2> QED
    BY <2>1, TopGoes
<1> QED
  BY <1>3, <1>4

\* The top moves among the runs without a result.
LEMMA TopIsSilent ==
    ASSUME NEW r, TypeOK(r), r.stack # << >>, NEW q, q.stack = Tail(r.stack),
           q.waiting = r.waiting, q.runData = r.runData, q.silent = r.silent \cup {Head(r.stack)}
    PROVE  \E d : /\ Contents(q) = (Contents(r) \ {TopHeld(r)}) \cup {d}
                  /\ d.node = Head(r.stack).node /\ d.data = Head(r.stack).data /\ ~Waits(d)
<1> DEFINE x == Head(r.stack)
           d == Held(<<"silent", x>>, x.node, x.data)
<1>1. InSilent(q.silent) = InSilent(r.silent) \cup {d}
  BY SilentGrows
<1>2. d.node = Head(r.stack).node /\ d.data = Head(r.stack).data /\ ~Waits(d)
  BY DEF Held, Waits
<1> HIDE DEF d
<1>3. Contents(q) = (Contents(r) \ {TopHeld(r)}) \cup {d}
  <2>1. Contents(q) = OnStack(Tail(r.stack)) \cup InWaiting(r.waiting)
                      \cup InRuns(r.runData) \cup (InSilent(r.silent) \cup {d})
    BY <1>1 DEF Contents
  <2> QED
    BY <2>1, TopGoes
<1> QED
  BY <1>2, <1>3

\* The top is gone.
LEMMA TopIsDropped ==
    ASSUME NEW r, TypeOK(r), r.stack # << >>, NEW q, q.stack = Tail(r.stack),
           q.waiting = r.waiting, q.runData = r.runData, q.silent = r.silent
    PROVE  Contents(q) = Contents(r) \ {TopHeld(r)}
BY TopGoes DEF Contents

\* A run that does not succeed holds nothing, when it is added and when it is taken away.
LEMMA TriesHoldNothing ==
    ASSUME NEW r, TypeOK(r), NEW q, NEW n \in Nodes, q.waiting = r.waiting, q.silent = r.silent,
           OnStack(q.stack) = OnStack(r.stack),
           \/ \E task \in Tasks : task.status # "success" /\ q.runData = OneMore(r.runData, n, task)
           \/ /\ q.runData = LastTaken(r.runData, n)
              /\ r.runData[n] # << >> /\ Last(r.runData[n]).status # "success"
    PROVE  Contents(q) = Contents(r)
<1>1. r.runData \in [Nodes -> Seq(Tasks)]
  BY DEF TypeOK, Records
<1>2. InRuns(q.runData) = InRuns(r.runData)
  <2>1. ASSUME NEW task \in Tasks, task.status # "success", q.runData = OneMore(r.runData, n, task)
        PROVE  InRuns(q.runData) = InRuns(r.runData)
    <3> DEFINE d == r.runData
    <3>1. d \in [Nodes -> Seq(Tasks)]
      BY <1>1
    <3> HIDE DEF d
    <3>2. InRuns(OneMore(d, n, task)) = InRuns(d)
      BY <2>1, <3>1, RunsChange
    <3> QED
      BY <2>1, <3>2 DEF d
  <2>2. ASSUME q.runData = LastTaken(r.runData, n), r.runData[n] # << >>,
               Last(r.runData[n]).status # "success"
        PROVE  InRuns(q.runData) = InRuns(r.runData)
    <3>1. PICK task : task \in Tasks
      <4>1. Task("error", << >>, {}) \in Tasks
        BY EmptyData DEF Task, Tasks
      <4> QED
        BY <4>1
    <3> DEFINE d == r.runData
    <3>2. d \in [Nodes -> Seq(Tasks)] /\ d[n] # << >> /\ Last(d[n]).status # "success"
      BY <1>1, <2>2
    <3> HIDE DEF d
    <3>3. InRuns(LastTaken(d, n)) = InRuns(d)
      BY <3>1, <3>2, RunsChange
    <3> QED
      BY <2>2, <3>3 DEF d
  <2> QED
    BY <2>1, <2>2
<1> QED
  BY <1>2 DEF Contents

\* A stack of the same items holds the same.
LEMMA SameItemsHoldTheSame ==
    ASSUME NEW s \in Seq(Items), NEW t \in Seq(Items), SameItems(s, t)
    PROVE  /\ OnStack(t) = OnStack(s)
           /\ \A i \in DOMAIN t : i \in DOMAIN s /\ t[i].node = s[i].node
BY DEF SameItems, OnStack, Held

\* What waits is an entry of its node.
LEMMA WaitingIsEntry ==
    ASSUME NEW r, TypeOK(r), NEW c \in Contents(r), Waits(c)
    PROVE  \E j \in DOMAIN r.waiting[c.node] : c.data = r.waiting[c.node][j]
<1>1. c \in InWaiting(r.waiting)
  BY ContentsAre
<1>2. PICK n \in Nodes : \E k \in DOMAIN r.waiting[n] :
          c = Held(<<"waiting", n, k>>, n, r.waiting[n][k])
  BY <1>1, InWaitingIs
<1>3. PICK k \in DOMAIN r.waiting[n] : c = Held(<<"waiting", n, k>>, n, r.waiting[n][k])
  BY <1>2
<1>4. c.node = n /\ c.data = r.waiting[n][k]
  BY <1>3 DEF Held
<1> QED
  BY <1>4

\* A waiting entry is an element that waits.
LEMMA EntryIsHeld ==
    ASSUME NEW r, NEW n \in Nodes, NEW k \in DOMAIN r.waiting[n]
    PROVE  \E c \in Contents(r) : c.node = n /\ c.data = r.waiting[n][k] /\ Waits(c)
<1> DEFINE c == Held(<<"waiting", n, k>>, n, r.waiting[n][k])
<1>1. c.node = n /\ c.data = r.waiting[n][k] /\ Waits(c)
  BY DEF Held, Waits
<1>2. c \in Contents(r)
  BY InWaitingIs DEF Contents
<1> HIDE DEF c
<1> QED
  BY <1>1, <1>2

\* Adding a batch takes one element out at most, and puts one in that has the batch.
LEMMA AddedHolds ==
    ASSUME workflow \in Workflows, NEW r, TypeOK(r), NEW l \in workflow.links, NEW b \in AllBatches
    PROVE  LET q == AddNodeToBeExecuted(r, l, b)
           IN  \E c, e :
                  /\ Contents(q) = (Contents(r) \ {c}) \cup {e}
                  /\ e.node = l.to /\ e.data = NewData(r, l, b) /\ (Waits(e) <=> ~Complete(r, l, b))
                  /\ c.node = l.to
                  /\ ~New(r, l) => c \in Contents(r) /\ c.data = OldData(r, l) /\ Waits(c)
                  /\ New(r, l) /\ l.to \notin q.misplaced => c \notin Contents(r)
<1> DEFINE q == AddNodeToBeExecuted(r, l, b)
           n == l.to
           k == Slot(r, l)
           w == r.waiting
           data == NewData(r, l, b)
           c == Held(<<"waiting", n, k>>, n, w[n][k])
           put == Held(<<"waiting", n, k>>, n, data)
           item == Item(n, data)
           pushed == Held(<<"stack", Len(r.stack) + 1>>, item.node, item.data)
<1>1. /\ q.stack = AddedStack(r, l, b) /\ q.waiting = AddedWaiting(r, l, b)
      /\ q.runData = r.runData /\ q.silent = r.silent /\ q.misplaced = AddedMisplaced(r, l)
  BY AddFacts DEF Rest
<1>2. n \in Nodes /\ data \in Data
  BY NewDataIs
<1>3. DOMAIN w = Nodes /\ r.stack \in Seq(Items)
  BY DEF TypeOK, Records, Waitings
<1>4. item \in Items /\ item.node = n /\ item.data = data
  BY <1>2 DEF Item, Items
<1>5. /\ InWaiting(PutIn(w, n, k, data)) = (InWaiting(w) \ {c}) \cup {put}
      /\ InWaiting(LeftIn(w, n, k)) = InWaiting(w) \ {c}
      /\ k \in DOMAIN w[n] => c \in InWaiting(w)
      /\ k \notin DOMAIN w[n] => \A d \in InWaiting(w) : d.at # <<"waiting", n, k>>
  <2> HIDE DEF k, data, n, w
  <2> QED BY <1>2, <1>3, WaitingChanges
<1>6. OnStack(<<item>> \o r.stack) = OnStack(r.stack) \cup {pushed}
  <2> HIDE DEF item
  <2> QED BY <1>3, <1>4, StackPushes
<1>7. c.at = <<"waiting", n, k>> /\ c.at[1] = "waiting" /\ c.node = n /\ c.data = w[n][k] /\ Waits(c)
  BY DEF Held, Waits
<1>8. put.node = n /\ put.data = data /\ Waits(put)
  BY DEF Held, Waits
<1>9. pushed.node = n /\ pushed.data = data /\ ~Waits(pushed)
  BY <1>4 DEF Held, Waits
<1>10. AddedStack(r, l, b) = IF Complete(r, l, b) THEN <<item>> \o r.stack ELSE r.stack
  BY DEF AddedStack
<1>11. AddedWaiting(r, l, b) = IF Complete(r, l, b) THEN LeftIn(w, n, k) ELSE PutIn(w, n, k, data)
  BY DEF AddedWaiting, LeftIn, PutIn
<1> DEFINE e == IF Complete(r, l, b) THEN pushed ELSE put
<1>12. e.node = n /\ e.data = data /\ (Waits(e) <=> ~Complete(r, l, b))
  BY <1>8, <1>9
<1>13. c \notin OnStack(r.stack) /\ c \notin InRuns(r.runData) /\ c \notin InSilent(r.silent)
  <2> HIDE DEF c
  <2> QED BY <1>7, PartsApart
<1>14. ~New(r, l) => c \in Contents(r) /\ c.data = OldData(r, l) /\ Waits(c)
  <2> SUFFICES ASSUME ~New(r, l) PROVE c \in Contents(r) /\ c.data = OldData(r, l) /\ Waits(c)
    OBVIOUS
  <2>1. k \in DOMAIN w[n]
    BY <1>2, EntriesFacts, SlotFacts
  <2>2. OldData(r, l) = w[n][k]
    BY DEF OldData
  <2> HIDE DEF c
  <2> QED
    BY <1>5, <1>7, <2>1, <2>2 DEF Contents
<1>15. New(r, l) /\ n \notin q.misplaced => c \notin Contents(r)
  <2> SUFFICES ASSUME New(r, l), n \notin q.misplaced PROVE c \notin Contents(r)
    OBVIOUS
  <2>1. DOMAIN w[n] = 0..(k - 1)
    BY <1>1 DEF AddedMisplaced
  <2>2. k \in Nat
    BY <1>2, EntriesFacts, SlotFacts
  <2>3. k \notin DOMAIN w[n]
    BY <2>1, <2>2
  <2> HIDE DEF c
  <2> QED
    BY <1>5, <1>7, <1>13, <2>3 DEF Contents
<1> HIDE DEF q, c, put, pushed, item, k, data, n, w
<1>16. Contents(q) = (Contents(r) \ {c}) \cup {e}
  <2>1. CASE Complete(r, l, b)
    <3>1. Contents(q) = (OnStack(r.stack) \cup {pushed}) \cup (InWaiting(w) \ {c})
                        \cup InRuns(r.runData) \cup InSilent(r.silent)
      BY <1>1, <1>5, <1>6, <1>10, <1>11, <2>1 DEF Contents
    <3> QED
      BY <1>13, <2>1, <3>1 DEF Contents, w
  <2>2. CASE ~Complete(r, l, b)
    <3>1. Contents(q) = OnStack(r.stack) \cup ((InWaiting(w) \ {c}) \cup {put})
                        \cup InRuns(r.runData) \cup InSilent(r.silent)
      BY <1>1, <1>5, <1>10, <1>11, <2>2 DEF Contents
    <3> QED
      BY <1>13, <2>2, <3>1 DEF Contents, w
  <2> QED
    BY <2>1, <2>2
<1> HIDE DEF e
<1>17. /\ Contents(q) = (Contents(r) \ {c}) \cup {e}
       /\ e.node = l.to /\ e.data = NewData(r, l, b) /\ (Waits(e) <=> ~Complete(r, l, b))
       /\ c.node = l.to
       /\ ~New(r, l) => c \in Contents(r) /\ c.data = OldData(r, l) /\ Waits(c)
       /\ New(r, l) /\ l.to \notin q.misplaced => c \notin Contents(r)
  BY <1>7, <1>12, <1>14, <1>15, <1>16 DEF n, data
<1> QED
  BY <1>17 DEF q

-----------------------------------------------------------------------------
(* Adding a batch keeps what is held in order *)

\* No later batch of the same source is held.
Latest(r, b) ==
    \A c \in Contents(r) : \A i \in DOMAIN c.data : SameSource(c.data[i], b) => c.data[i][2] <= b[2]

\* What has been put together before the entry that a batch is added to, and has no later batch
\* of its source, has been put together before the entry as it is then.
LEMMA BeforeNewData ==
    ASSUME workflow \in Workflows, NEW r, TypeOK(r), FullLength(r.waiting),
           NEW l \in workflow.links, NEW b \in AllBatches,
           NEW x, New(r, l) \/ Before(x, OldData(r, l)),
           \A i \in DOMAIN x : SameSource(x[i], b) => x[i][2] <= b[2]
    PROVE  Before(x, NewData(r, l, b))
<1> DEFINE y == NewData(r, l, b)
           z == OldData(r, l)
<1>1. /\ DOMAIN y = Inputs(l.to) /\ DOMAIN z = Inputs(l.to) /\ l.input \in Inputs(l.to)
      /\ y[l.input] = b
      /\ \A i \in Inputs(l.to) : i # l.input => y[i] = z[i]
      /\ New(r, l) => \A i \in Inputs(l.to) : z[i] = Missing
  BY FullNewData
<1> HIDE DEF y, z
<1> SUFFICES ASSUME NEW i \in DOMAIN x \cap Inputs(l.to), SameSource(x[i], y[i])
             PROVE  x[i][2] <= y[i][2]
  BY <1>1 DEF Before, y
<1>2. CASE i = l.input
  BY <1>1, <1>2
<1>3. CASE i # l.input
  <2>1. y[i] = z[i] /\ z[i] # Missing
    BY <1>1, <1>3 DEF SameSource
  <2>2. Before(x, z)
    BY <1>1, <2>1 DEF z
  <2> QED
    BY <1>1, <2>1, <2>2 DEF Before
<1> QED
  BY <1>2, <1>3

\* The entry as it is then has been put together before what the entry had been before, unless
\* that has the input.
LEMMA NewDataBefore ==
    ASSUME workflow \in Workflows, NEW r, TypeOK(r), FullLength(r.waiting),
           NEW l \in workflow.links, NEW b \in AllBatches,
           NEW x, Before(OldData(r, l), x), l.input \in DOMAIN x => x[l.input] = Missing
    PROVE  Before(NewData(r, l, b), x)
<1> DEFINE y == NewData(r, l, b)
           z == OldData(r, l)
<1>1. /\ DOMAIN y = Inputs(l.to) /\ DOMAIN z = Inputs(l.to)
      /\ \A i \in Inputs(l.to) : i # l.input => y[i] = z[i]
  BY FullNewData
<1>2. Before(z, x)
  OBVIOUS
<1> HIDE DEF y, z
<1> SUFFICES ASSUME NEW i \in DOMAIN x \cap Inputs(l.to), SameSource(y[i], x[i])
             PROVE  y[i][2] <= x[i][2]
  BY <1>1 DEF Before, y
<1>3. i # l.input
  BY DEF SameSource
<1> QED
  BY <1>1, <1>2, <1>3 DEF Before

\* The entry that a batch has been added to, among what its node has.
AddedInOrder(r, l, b) ==
    LET n == l.to
        w == r.waiting[n]
        k == Slot(r, l)
        new == NewData(r, l, b)
    IN  /\ \A c \in Contents(r) : c.node = n /\ ~Waits(c) => Before(c.data, new)
        /\ \A j \in DOMAIN w : j < k =>
              /\ Before(w[j], new)
              /\ \A i \in Inputs(n) : w[j][i] = Missing => new[i] = Missing
        /\ \A j \in DOMAIN w : j > k =>
              /\ Before(new, w[j])
              /\ \A i \in Inputs(n) : new[i] = Missing => w[j][i] = Missing
        /\ Complete(r, l, b) => \A j \in DOMAIN w : j >= k

\* The entry that a batch is added to comes after those that are complete and before those
\* that wait behind it, if the batch is the latest of its source.
LEMMA AddedIsInOrder ==
    ASSUME workflow \in Workflows, NEW r, TypeOK(r), NEW l \in workflow.links, NEW b \in AllBatches,
           InOrder(r), Latest(r, b), l.to \notin AddedMisplaced(r, l)
    PROVE  AddedInOrder(r, l, b)
<1> DEFINE n == l.to
           w == r.waiting[n]
           k == Slot(r, l)
           new == NewData(r, l, b)
           old == OldData(r, l)
<1>0. FullLength(r.waiting)
  BY DEF InOrder
<1>1. /\ n \in Nodes /\ l.input \in Inputs(n)
      /\ DOMAIN new = Inputs(n) /\ DOMAIN old = Inputs(n) /\ old[l.input] = Missing
      /\ new[l.input] = b /\ b # Missing
      /\ \A i \in Inputs(n) : i # l.input => new[i] = old[i]
      /\ New(r, l) => \A i \in Inputs(n) : old[i] = Missing
  BY <1>0, FullNewData, EngineAssumption
<1>2. /\ IsFiniteSet(DOMAIN w) /\ DOMAIN w \subseteq Nat
      /\ \A j \in DOMAIN w : w[j] \in [Inputs(n) -> AllBatches \cup {Missing}]
                             /\ \E i \in Inputs(n) : w[j][i] = Missing
  BY <1>0, <1>1, EntriesFacts, FullEntries
<1>3. /\ k \in Nat
      /\ New(r, l) => \A j \in DOMAIN w : w[j][l.input] # Missing
      /\ ~New(r, l) => /\ k \in DOMAIN w /\ w[k][l.input] = Missing /\ old = w[k]
                       /\ \A j \in DOMAIN w : w[j][l.input] = Missing => k <= j
  BY <1>0, <1>2, SlotFacts, FullSlot DEF OldData
<1>4. n \notin r.misplaced /\ (New(r, l) => DOMAIN w = 0..(k - 1))
  BY <1>1 DEF AddedMisplaced
<1>5. \A j, i \in DOMAIN w : j < i => Before(w[j], w[i])
         /\ \A m \in Inputs(n) : w[j][m] = Missing => w[i][m] = Missing
  BY <1>1, <1>4 DEF InOrder
<1>6. ASSUME NEW c \in Contents(r), c.node = n, ~Waits(c) PROVE Before(c.data, new)
  <2>1. \A i \in DOMAIN c.data : SameSource(c.data[i], b) => c.data[i][2] <= b[2]
    BY DEF Latest
  <2>2. New(r, l) \/ Before(c.data, old)
    <3> SUFFICES ASSUME ~New(r, l) PROVE Before(c.data, old)
      OBVIOUS
    <3>1. PICK d \in Contents(r) : d.node = n /\ d.data = w[k] /\ Waits(d)
      BY <1>1, <1>3, EntryIsHeld
    <3> QED
      BY <1>3, <1>4, <1>6, <3>1 DEF InOrder
  <2> QED
    BY <1>0, <2>1, <2>2, BeforeNewData
<1>7. ASSUME NEW j \in DOMAIN w, j < k
      PROVE  /\ Before(w[j], new)
             /\ \A i \in Inputs(n) : w[j][i] = Missing => new[i] = Missing
             /\ w[j][l.input] # Missing
  <2>1. w[j][l.input] # Missing
    BY <1>2, <1>3, <1>7
  <2>2. \A i \in DOMAIN w[j] : SameSource(w[j][i], b) => w[j][i][2] <= b[2]
    <3>1. PICK d \in Contents(r) : d.node = n /\ d.data = w[j]
      BY <1>1, EntryIsHeld
    <3> QED
      BY <3>1 DEF Latest
  <2>3. New(r, l) \/ Before(w[j], old)
    BY <1>3, <1>5, <1>7
  <2>4. Before(w[j], new)
    BY <1>0, <2>2, <2>3, BeforeNewData
  <2>5. ASSUME NEW i \in Inputs(n), w[j][i] = Missing PROVE new[i] = Missing
    <3>1. i # l.input
      BY <2>1, <2>5
    <3>2. old[i] = Missing
      BY <1>1, <1>3, <1>5, <1>7, <2>5
    <3> QED
      BY <1>1, <3>1, <3>2
  <2> QED
    BY <2>1, <2>4, <2>5
<1>8. ASSUME NEW j \in DOMAIN w, j > k
      PROVE  /\ Before(new, w[j])
             /\ \A i \in Inputs(n) : new[i] = Missing => w[j][i] = Missing
  <2>1. ~New(r, l)
    BY <1>2, <1>3, <1>4, <1>8
  <2>2. Before(old, w[j]) /\ \A i \in Inputs(n) : old[i] = Missing => w[j][i] = Missing
    BY <1>3, <1>5, <1>8, <2>1
  <2>3. w[j][l.input] = Missing
    BY <1>1, <2>2
  <2>4. Before(new, w[j])
    BY <1>0, <2>2, <2>3, NewDataBefore
  <2> QED
    BY <1>1, <2>2, <2>3, <2>4
<1>9. ASSUME Complete(r, l, b), NEW j \in DOMAIN w PROVE j >= k
  <2> SUFFICES ASSUME j < k PROVE FALSE
    BY <1>2, <1>3
  <2>1. PICK i \in Inputs(n) : w[j][i] = Missing
    BY <1>2
  <2>2. new[i] = Missing
    BY <1>7, <2>1
  <2> QED
    BY <1>1, <1>9, <2>2 DEF Complete, Range
<1> HIDE DEF n, w, k, new, old
<1> QED
  BY <1>6, <1>7, <1>8, <1>9 DEF AddedInOrder, n, w, k, new, old

\* The entries of the nodes when a batch has been added.
LEMMA AddedEntries ==
    ASSUME workflow \in Workflows, NEW r, TypeOK(r), NEW l \in workflow.links, NEW b \in AllBatches
    PROVE  LET q == AddNodeToBeExecuted(r, l, b)
               n == l.to
               k == Slot(r, l)
           IN  /\ \A m \in Nodes : m # n => q.waiting[m] = r.waiting[m]
               /\ \A j \in DOMAIN q.waiting[n] :
                     \/ j = k /\ ~Complete(r, l, b) /\ q.waiting[n][j] = NewData(r, l, b)
                     \/ j # k /\ j \in DOMAIN r.waiting[n] /\ q.waiting[n][j] = r.waiting[n][j]
               /\ r.misplaced \subseteq q.misplaced
<1> DEFINE q == AddNodeToBeExecuted(r, l, b)
           n == l.to
           k == Slot(r, l)
           w == r.waiting
           new == NewData(r, l, b)
<1>1. q.waiting = AddedWaiting(r, l, b) /\ q.misplaced = AddedMisplaced(r, l)
  BY AddFacts
<1>2. n \in Nodes /\ DOMAIN w = Nodes
  BY NewDataIs DEF TypeOK, Records, Waitings
<1>3. AddedWaiting(r, l, b) = [w EXCEPT ![n] = IF Complete(r, l, b) THEN Left(w, n, k) ELSE Put(w, n, k, new)]
  BY DEF AddedWaiting
<1>4. r.misplaced \subseteq q.misplaced
  BY <1>1 DEF AddedMisplaced
<1> HIDE DEF q, k, new
<1>5. /\ \A m \in Nodes : m # n => q.waiting[m] = w[m]
      /\ q.waiting[n] = IF Complete(r, l, b) THEN Left(w, n, k) ELSE Put(w, n, k, new)
  BY <1>1, <1>2, <1>3
<1>6. \A j \in DOMAIN q.waiting[n] :
         \/ j = k /\ ~Complete(r, l, b) /\ q.waiting[n][j] = new
         \/ j # k /\ j \in DOMAIN w[n] /\ q.waiting[n][j] = w[n][j]
  <2>1. CASE Complete(r, l, b)
    BY <1>5, <2>1 DEF Left
  <2>2. CASE ~Complete(r, l, b)
    BY <1>5, <2>2 DEF Put
  <2> QED
    BY <2>1, <2>2
<1> QED
  BY <1>4, <1>5, <1>6 DEF q, k, new

\* Adding the latest batch of a source keeps what is held in order.
LEMMA AddKeepsOrder ==
    ASSUME workflow \in Workflows, NEW r, TypeOK(r), NEW l \in workflow.links, NEW b \in AllBatches,
           InOrder(r), Latest(r, b)
    PROVE  InOrder(AddNodeToBeExecuted(r, l, b))
<1> DEFINE q == AddNodeToBeExecuted(r, l, b)
           n == l.to
           k == Slot(r, l)
           w == r.waiting[n]
           new == NewData(r, l, b)
<1>1. TypeOK(q) /\ q.misplaced = AddedMisplaced(r, l)
  BY AddFacts
<1>2. /\ n \in Nodes /\ new \in Data
      /\ DOMAIN w \subseteq Nat /\ \A j \in DOMAIN w : w[j] \in Data
  <2>1. n \in Nodes /\ new \in Data
    BY NewDataIs
  <2> QED
    BY <2>1, EntriesFacts
<1>3. /\ \A m \in Nodes : m # n => q.waiting[m] = r.waiting[m]
      /\ \A j \in DOMAIN q.waiting[n] :
            \/ j = k /\ ~Complete(r, l, b) /\ q.waiting[n][j] = new
            \/ j # k /\ j \in DOMAIN w /\ q.waiting[n][j] = w[j]
      /\ r.misplaced \subseteq q.misplaced
  BY AddedEntries
<1>4. PICK c0, e : /\ Contents(q) = (Contents(r) \ {c0}) \cup {e}
                   /\ e.node = n /\ e.data = new /\ (Waits(e) <=> ~Complete(r, l, b))
  BY AddedHolds
<1>5. n \notin q.misplaced => AddedInOrder(r, l, b)
  BY <1>1, AddedIsInOrder
<1>6. k \in Nat
  BY <1>2, EntriesFacts, SlotFacts
<1> HIDE DEF q, k, new
<1>7. n \notin q.misplaced =>
      /\ \A c \in Contents(r) : c.node = n /\ ~Waits(c) => Before(c.data, new)
      /\ \A j \in DOMAIN w : j < k =>
            /\ Before(w[j], new)
            /\ \A i \in Inputs(n) : w[j][i] = Missing => new[i] = Missing
      /\ \A j \in DOMAIN w : j > k =>
            /\ Before(new, w[j])
            /\ \A i \in Inputs(n) : new[i] = Missing => w[j][i] = Missing
      /\ Complete(r, l, b) => \A j \in DOMAIN w : j >= k
  BY <1>5 DEF AddedInOrder, k, new
<1>8. ASSUME NEW m \in Nodes \ q.misplaced, NEW j \in DOMAIN q.waiting[m],
             NEW i \in DOMAIN q.waiting[m], j < i
      PROVE  /\ Before(q.waiting[m][j], q.waiting[m][i])
             /\ \A p \in Inputs(m) :
                   q.waiting[m][j][p] = Missing => q.waiting[m][i][p] = Missing
  <2>1. \A x \in Nodes \ r.misplaced : \A f, g \in DOMAIN r.waiting[x] : f < g =>
          /\ Before(r.waiting[x][f], r.waiting[x][g])
          /\ \A p \in Inputs(x) : r.waiting[x][f][p] = Missing => r.waiting[x][g][p] = Missing
    BY DEF InOrder
  <2>2. m \in Nodes \ r.misplaced
    BY <1>3
  <2>3. CASE m # n
    BY <1>3, <1>8, <2>1, <2>2, <2>3
  <2>4. CASE m = n
    <3>1. CASE j = k
      <4>1. /\ q.waiting[n][j] = new
            /\ i # k /\ i \in DOMAIN w /\ q.waiting[n][i] = w[i] /\ i > k
        BY <1>3, <1>6, <1>8, <2>4, <3>1
      <4> QED
        BY <1>7, <2>4, <4>1
    <3>2. CASE j # k /\ i = k
      <4>1. /\ q.waiting[n][i] = new
            /\ j \in DOMAIN w /\ q.waiting[n][j] = w[j] /\ j < k
        BY <1>3, <1>6, <1>8, <2>4, <3>2
      <4> QED
        BY <1>7, <2>4, <4>1
    <3>3. CASE j # k /\ i # k
      <4>1. /\ i \in DOMAIN w /\ q.waiting[n][i] = w[i]
            /\ j \in DOMAIN w /\ q.waiting[n][j] = w[j]
        BY <1>3, <2>4, <3>3
      <4> QED
        BY <1>8, <2>1, <2>2, <2>4, <4>1
    <3> QED
      BY <3>1, <3>2, <3>3
  <2> QED
    BY <2>3, <2>4
<1>9. ASSUME n \notin q.misplaced, NEW d \in Contents(q), d.node = n
      PROVE  /\ Paired(d.data, new) /\ Paired(new, d.data)
             /\ ~Waits(d) /\ Waits(e) => Before(d.data, new)
             /\ Waits(d) /\ ~Waits(e) => Before(new, d.data)
  <2>0. d.data \in Data
    BY <1>1, ContentsAre
  <2>1. CASE d = e
    <3>1. Before(new, new)
      BY <1>2, BeforeItself
    <3> QED
      BY <1>2, <1>4, <2>1, <3>1, BeforeIsPaired
  <2>2. CASE d # e /\ ~Waits(d)
    <3>1. Before(d.data, new)
      BY <1>4, <1>7, <1>9, <2>2
    <3> QED
      BY <1>2, <2>0, <2>2, <3>1, BeforeIsPaired
  <2>3. CASE d # e /\ Waits(d)
    <3>1. PICK j \in DOMAIN q.waiting[n] : d.data = q.waiting[n][j]
      BY <1>1, <1>9, <2>3, WaitingIsEntry
    <3>2. CASE j = k
      <4>1. d.data = new /\ Waits(e)
        BY <1>3, <1>4, <3>1, <3>2
      <4>2. Before(new, new)
        BY <1>2, BeforeItself
      <4> QED
        BY <1>2, <2>3, <4>1, <4>2, BeforeIsPaired
    <3>3. CASE j # k
      <4>1. j \in DOMAIN w /\ d.data = w[j]
        BY <1>3, <3>1, <3>3
      <4>2. CASE j < k
        <5>1. Before(d.data, new) /\ Waits(e)
          BY <1>2, <1>4, <1>6, <1>7, <1>9, <4>1, <4>2
        <5> QED
          BY <1>2, <2>0, <2>3, <5>1, BeforeIsPaired
      <4>3. CASE j > k
        <5>1. Before(new, d.data)
          BY <1>7, <1>9, <4>1, <4>3
        <5> QED
          BY <1>2, <2>0, <2>3, <5>1, BeforeIsPaired
      <4> QED
        BY <1>2, <1>6, <3>3, <4>1, <4>2, <4>3
    <3> QED
      BY <3>2, <3>3
  <2> QED
    BY <2>1, <2>2, <2>3
<1>10. ASSUME NEW c \in Contents(q), NEW d \in Contents(q), c.node = d.node, c.node \notin q.misplaced
       PROVE  Paired(c.data, d.data) /\ (~Waits(c) /\ Waits(d) => Before(c.data, d.data))
  <2>1. CASE c # e /\ d # e
    <3>1. c \in Contents(r) /\ d \in Contents(r) /\ c.node \notin r.misplaced
      BY <1>3, <1>4, <1>10, <2>1
    <3> QED
      BY <1>10, <3>1 DEF InOrder
  <2>2. CASE c = e
    BY <1>4, <1>9, <1>10, <2>2
  <2>3. CASE d = e
    BY <1>4, <1>9, <1>10, <2>3
  <2> QED
    BY <2>1, <2>2, <2>3
<1>11. FullLength(q.waiting)
  <2>1. FullLength(r.waiting)
    BY DEF InOrder
  <2>2. DOMAIN new = Inputs(n)
    BY <2>1, FullNewData DEF new
  <2> SUFFICES ASSUME NEW m \in Nodes, NEW j \in DOMAIN q.waiting[m]
               PROVE  DOMAIN q.waiting[m][j] = Inputs(m)
    BY DEF FullLength
  <2>3. CASE m # n
    BY <1>3, <2>1, <2>3 DEF FullLength
  <2>4. CASE m = n
    BY <1>2, <1>3, <2>1, <2>2, <2>4 DEF FullLength
  <2> QED
    BY <2>3, <2>4
<1>12. InOrder(q)
  BY <1>8, <1>10, <1>11 DEF InOrder
<1> QED
  BY <1>12 DEF q

-----------------------------------------------------------------------------
(* Handing on keeps each batch in one place *)

\* What has been handed on.
LEMMA HandedOnAre ==
    ASSUME NEW r
    PROVE  /\ \A h \in HandedOn(r) : \E l \in Followed(r) : \E k \in DOMAIN r.runData[l.from] :
                 /\ k > r.kept[l.from] /\ l.output \in r.runData[l.from][k].outs
                 /\ h = <<l, <<l.from, k - 1, l.output>> >>
           /\ \A l \in Followed(r) : \A k \in DOMAIN r.runData[l.from] :
                 k > r.kept[l.from] /\ l.output \in r.runData[l.from][k].outs =>
                    <<l, <<l.from, k - 1, l.output>> >> \in HandedOn(r)
<1>1. ASSUME NEW l \in Followed(r), NEW k \in DOMAIN r.runData[l.from],
             k > r.kept[l.from], l.output \in r.runData[l.from][k].outs
      PROVE  <<l, <<l.from, k - 1, l.output>> >> \in HandedOn(r)
  <2> DEFINE S == {<<l, <<l.from, j - 1, l.output>> >> :
                      j \in {i \in DOMAIN r.runData[l.from] :
                                i > r.kept[l.from] /\ l.output \in r.runData[l.from][i].outs}}
  <2>1. <<l, <<l.from, k - 1, l.output>> >> \in S
    BY <1>1
  <2>2. S \subseteq HandedOn(r)
    BY DEF HandedOn
  <2> QED
    BY <2>1, <2>2
<1>2. ASSUME NEW h \in HandedOn(r)
      PROVE  \E l \in Followed(r) : \E k \in DOMAIN r.runData[l.from] :
                 /\ k > r.kept[l.from] /\ l.output \in r.runData[l.from][k].outs
                 /\ h = <<l, <<l.from, k - 1, l.output>> >>
  BY DEF HandedOn
<1> QED
  BY <1>1, <1>2

\* What is handed on goes along a link from a node that has run, to one that takes part.
LEMMA HandedOnFacts ==
    ASSUME workflow \in Workflows, NEW r, TypeOK(r), NEW h \in HandedOn(r)
    PROVE  /\ h = <<h[1], h[2]>> /\ h[1] \in workflow.links /\ h[1] \in Links /\ h[2] \in AllBatches
           /\ h[1].from # r.destination /\ h[1].to \in r.filter
           /\ h[2] = <<h[1].from, h[2][2], h[1].output>>
           /\ Known(r, h[2])
<1>1. PICK l \in Followed(r) : \E k \in DOMAIN r.runData[l.from] :
          /\ k > r.kept[l.from] /\ l.output \in r.runData[l.from][k].outs
          /\ h = <<l, <<l.from, k - 1, l.output>> >>
  BY HandedOnAre
<1>2. PICK k \in DOMAIN r.runData[l.from] :
          /\ l.output \in r.runData[l.from][k].outs
          /\ h = <<l, <<l.from, k - 1, l.output>> >>
  BY <1>1
<1>3. l \in workflow.links /\ l \in Links /\ l.from # r.destination /\ l.to \in r.filter
  BY GraphFacts DEF Followed
<1>4. l.from \in Nodes /\ l.output \in Nat /\ k \in Nat /\ k - 1 \in Nat /\ k - 1 + 1 = k
  <2>1. r.runData[l.from] \in Seq(Tasks) /\ l.from \in Nodes /\ l.output \in Nat
    BY <1>3 DEF TypeOK, Records, Links
  <2>2. k \in 1..Len(r.runData[l.from]) /\ Len(r.runData[l.from]) \in Nat
    BY <2>1
  <2> QED
    BY <2>1, <2>2
<1>5. h[1] = l /\ h[2] = <<l.from, k - 1, l.output>> /\ h[2][2] = k - 1
  BY <1>2
<1>6. h[2] \in AllBatches
  BY <1>4, <1>5 DEF AllBatches
<1>7. Known(r, h[2])
  BY <1>2, <1>4, <1>5 DEF Known
<1> QED
  BY <1>2, <1>3, <1>5, <1>6, <1>7

\* It is determined by the runs and by where the execution ends.
SameRuns(r, q) ==
    q.runData = r.runData /\ q.kept = r.kept /\ q.destination = r.destination /\ q.filter = r.filter

\* What has been handed on depends on the runs only.
LEMMA SameHandedOn ==
    ASSUME NEW r, NEW q, SameRuns(r, q)
    PROVE  HandedOn(q) = HandedOn(r) /\ \A b : Known(q, b) <=> Known(r, b)
BY DEF SameRuns, HandedOn, Followed, Known

\* A link is given by its ends.
LEMMA LinkIs ==
    ASSUME NEW x \in Links, NEW y \in Links,
           x.from = y.from, x.output = y.output, x.to = y.to, x.input = y.input
    PROVE  x = y
<1>1. /\ x = [from |-> x.from, output |-> x.output, to |-> x.to, input |-> x.input]
      /\ y = [from |-> y.from, output |-> y.output, to |-> y.to, input |-> y.input]
  BY DEF Links
<1> QED
  BY <1>1

EachOnceBut(r, X) ==
    \A h \in HandedOn(r) : h[1].to \notin r.misplaced =>
        IF h \in X THEN Nowhere(r, h[1], h[2]) ELSE Once(r, h[1], h[2])

\* Adding a batch that was nowhere puts it in one place, and moves no other out of its own.
LEMMA AddKeepsOnce ==
    ASSUME workflow \in Workflows, NEW r, TypeOK(r), FullLength(r.waiting), NEW l \in workflow.links,
           NEW b \in AllBatches, b[1] = l.from, b[3] = l.output,
           NEW X, <<l, b>> \in X, EachOnceBut(r, X)
    PROVE  EachOnceBut(AddNodeToBeExecuted(r, l, b), X \ {<<l, b>>})
<1> DEFINE q == AddNodeToBeExecuted(r, l, b)
           n == l.to
           new == NewData(r, l, b)
           old == OldData(r, l)
<1>1. TypeOK(q) /\ Rest(r, q)
  BY AddFacts
<1>2. r.misplaced \subseteq q.misplaced
  BY AddedEntries
<1>3. PICK c, e : /\ Contents(q) = (Contents(r) \ {c}) \cup {e}
                  /\ e.node = n /\ e.data = new /\ c.node = n
                  /\ ~New(r, l) => c \in Contents(r) /\ c.data = old
                  /\ New(r, l) /\ n \notin q.misplaced => c \notin Contents(r)
  BY AddedHolds
<1>4. /\ l.input \in Inputs(n) /\ DOMAIN new = Inputs(n) /\ DOMAIN old = Inputs(n)
      /\ old[l.input] = Missing /\ new[l.input] = b
      /\ \A i \in Inputs(n) : i # l.input => new[i] = old[i]
      /\ New(r, l) => \A i \in Inputs(n) : old[i] = Missing
  BY FullNewData
<1>5. l \in Links
  BY GraphFacts
<1> HIDE DEF q, new, old
<1>6. HandedOn(q) = HandedOn(r)
  BY <1>1, SameHandedOn DEF Rest, SameRuns
<1> SUFFICES ASSUME NEW h \in HandedOn(q), h[1].to \notin q.misplaced
             PROVE  IF h \in X \ {<<l, b>>} THEN Nowhere(q, h[1], h[2]) ELSE Once(q, h[1], h[2])
  BY DEF EachOnceBut, q
<1>7. /\ h = <<h[1], h[2]>> /\ h[1] \in Links /\ h[2] \in AllBatches
      /\ h[2][1] = h[1].from /\ h[2][3] = h[1].output
  BY <1>1, HandedOnFacts
<1>8. IF h \in X THEN Nowhere(r, h[1], h[2]) ELSE Once(r, h[1], h[2])
  BY <1>2, <1>6 DEF EachOnceBut
<1> DEFINE m == h[1]
           a == h[2]
<1>9. ASSUME (Once(r, m, a) => Once(q, m, a)) /\ (Nowhere(r, m, a) => Nowhere(q, m, a)), h # <<l, b>>
      PROVE  IF h \in X \ {<<l, b>>} THEN Nowhere(q, m, a) ELSE Once(q, m, a)
  BY <1>8, <1>9
<1>10. CASE m.to # n
  <2>1. \A d : Has(d, m, a) => d # c /\ d # e
    BY <1>3, <1>10 DEF Has
  <2>2. (Once(r, m, a) => Once(q, m, a)) /\ (Nowhere(r, m, a) => Nowhere(q, m, a))
    BY <1>3, <2>1, OnceStays
  <2>3. h # <<l, b>>
    BY <1>10
  <2> QED
    BY <1>9, <2>2, <2>3
<1>11. CASE m.to = n /\ h # <<l, b>>
  <2>1. ~(m.input = l.input /\ a = b)
    <3> SUFFICES ASSUME m.input = l.input, a = b PROVE FALSE
      OBVIOUS
    <3>1. m.from = l.from /\ m.output = l.output
      BY <1>7
    <3>2. m = l
      BY <1>5, <1>7, <1>11, <3>1, LinkIs
    <3> QED
      BY <1>7, <1>11, <3>2
  <2>2. a # Missing
    BY <1>7, EngineAssumption
  <2>3. Has(e, m, a) <=> m.input \in Inputs(n) /\ old[m.input] = a
    BY <1>3, <1>4, <1>11, <2>1, <2>2 DEF Has, Carries
  <2>4. CASE ~New(r, l)
    <3>1. c \in Contents(r) /\ (Has(e, m, a) <=> Has(c, m, a))
      BY <1>3, <1>4, <1>11, <2>3, <2>4 DEF Has, Carries
    <3>2. (Once(r, m, a) => Once(q, m, a)) /\ (Nowhere(r, m, a) => Nowhere(q, m, a))
      BY <1>3, <3>1, OnceMoves
    <3> QED
      BY <1>9, <1>11, <3>2
  <2>5. CASE New(r, l)
    <3>1. ~Has(e, m, a)
      BY <1>4, <2>2, <2>3, <2>5
    <3>2. c \notin Contents(r)
      BY <1>3, <1>11, <2>5
    <3>3. (Once(r, m, a) => Once(q, m, a)) /\ (Nowhere(r, m, a) => Nowhere(q, m, a))
      BY <1>3, <3>1, <3>2, OnceStays
    <3> QED
      BY <1>9, <1>11, <3>3
  <2> QED
    BY <2>4, <2>5
<1>12. CASE h = <<l, b>>
  <2>1. m = l /\ a = b /\ Nowhere(r, l, b)
    BY <1>8, <1>12
  <2>2. e \in Contents(q) /\ Has(e, l, b) /\ \A d \in Contents(q) : d \in Contents(r) \/ d = e
    BY <1>3, <1>4 DEF Has, Carries
  <2>3. Once(q, l, b)
    BY <2>1, <2>2, OnceAppears
  <2> QED
    BY <1>12, <2>1, <2>3
<1> QED
  BY <1>10, <1>11, <1>12

\* What is short of input is not below the node that hands on.
NotBelow(r, n) == Acyclic => \A m \in Short(r) : n \notin Ancestors(m)

\* Adding the latest batch keeps what is held steady, if nothing short is below its source.
LEMMA AddKeepsSteady ==
    ASSUME workflow \in Workflows, NEW r, TypeOK(r), NEW l \in workflow.links,
           NEW b \in AllBatches, Known(r, b), Latest(r, b), Steady(r), NotBelow(r, l.from)
    PROVE  LET q == AddNodeToBeExecuted(r, l, b) IN Steady(q) /\ NotBelow(q, l.from)
<1> DEFINE q == AddNodeToBeExecuted(r, l, b)
           new == NewData(r, l, b)
           old == OldData(r, l)
<1>1. /\ TypeOK(q) /\ Rest(r, q) /\ q.stack = AddedStack(r, l, b)
      /\ Range(q.order) \subseteq Range(r.order) \cup {l.to}
  BY AddFacts
<1>2. PICK c, e : /\ Contents(q) = (Contents(r) \ {c}) \cup {e}
                  /\ e.node = l.to /\ e.data = new
                  /\ ~New(r, l) => c \in Contents(r) /\ c.data = old
  BY AddedHolds
<1>3. /\ DOMAIN new = Inputs(l.to) /\ DOMAIN old = Inputs(l.to) /\ new[l.input] = b
      /\ \A i \in Inputs(l.to) : i # l.input => new[i] = old[i]
      /\ \A i \in Inputs(l.to) : new[i] \in AllBatches \cup {Missing}
      /\ New(r, l) => \A i \in Inputs(l.to) : old[i] = Missing
      /\ l.to \in Nodes /\ new \in Data
  <2>1. FullLength(r.waiting)
    BY DEF Steady, InOrder
  <2> QED
    BY <2>1, FullNewData
<1>4. Missing \notin AllBatches /\ Empty \notin AllBatches /\ Empty # Missing
  BY EngineAssumption
<1>5. InOrder(q)
  BY AddKeepsOrder DEF Steady
<1>6. \A i \in DOMAIN q.stack : q.stack[i].node \in ToCome(r) \cup {l.to}
  <2>1. r.stack \in Seq(Items)
    BY DEF TypeOK, Records
  <2>2. \A i \in DOMAIN r.stack : r.stack[i].node \in ToCome(r)
    BY DEF ToCome
  <2>3. CASE Complete(r, l, b)
    <3> DEFINE x == Item(l.to, new)
    <3>1. q.stack = <<x>> \o r.stack
      BY <1>1, <2>3 DEF AddedStack
    <3>2. x \in Items /\ x.node = l.to
      BY <1>3 DEF Item, Items
    <3> HIDE DEF x, q
    <3>3. \A i \in DOMAIN q.stack : q.stack[i] = x \/ \E j \in DOMAIN r.stack : q.stack[i] = r.stack[j]
      BY <2>1, <3>1, <3>2, PushedIs
    <3> QED
      BY <2>2, <3>2, <3>3
  <2>4. CASE ~Complete(r, l, b)
    BY <1>1, <2>2, <2>4 DEF AddedStack
  <2> QED
    BY <2>3, <2>4
<1> HIDE DEF q, new, old
<1>7. \A a : Known(r, a) => Known(q, a)
  BY <1>1 DEF Rest, Known
<1>8. Sourced(q)
  <2>1. \A d \in Contents(r) : \A i \in DOMAIN d.data : d.data[i] \in AllBatches => Known(r, d.data[i])
    BY DEF Steady, Sourced
  <2>2. ASSUME NEW i \in DOMAIN new, new[i] \in AllBatches PROVE Known(r, new[i])
    <3>1. CASE i = l.input
      BY <1>3, <3>1
    <3>2. CASE i # l.input
      <4>1. new[i] = old[i] /\ ~New(r, l)
        BY <1>3, <1>4, <2>2, <3>2
      <4> QED
        BY <1>2, <1>3, <2>1, <2>2, <4>1
    <3> QED
      BY <3>1, <3>2
  <2>3. \A d \in Contents(q) : \A i \in DOMAIN d.data : d.data[i] \in AllBatches => Known(q, d.data[i])
    BY <1>2, <1>7, <2>1, <2>2
  <2>4. q.runData = r.runData
    BY <1>1 DEF Rest
  <2> QED
    BY <2>3, <2>4 DEF Steady, Sourced
<1>9. Short(q) \subseteq Short(r)
  <2>1. Empty \notin Range(e.data)
    BY <1>2, <1>3, <1>4 DEF Range
  <2> QED
    BY <1>2, <2>1 DEF Short
<1>10. ToCome(q) \subseteq ToCome(r) \cup {l.to}
  BY <1>1, <1>6 DEF ToCome
<1>11. NotBelow(q, l.from)
  BY <1>9 DEF NotBelow
<1>12. NothingAbove(q)
  <2> SUFFICES ASSUME Acyclic, NEW m \in Short(q) PROVE Ancestors(m) \cap ToCome(q) = {}
    BY DEF NothingAbove
  <2>1. Ancestors(m) \cap ToCome(r) = {} /\ l.from \notin Ancestors(m)
    BY <1>9 DEF Steady, NothingAbove, NotBelow
  <2>2. l.to \notin Ancestors(m)
    <3> SUFFICES ASSUME l.to \in Ancestors(m) PROVE FALSE
      OBVIOUS
    <3>1. l.from \in Ancestors(m)
      BY AncestorsAbove, SourceIsAbove
    <3> QED
      BY <2>1, <3>1
  <2> QED
    BY <1>10, <2>1, <2>2
<1> QED
  BY <1>5, <1>8, <1>11, <1>12 DEF Steady, q

\* One link after the other, each batch is put in one place.
Handing(r, n, index, X) ==
    /\ TypeOK(r) /\ Steady(r) /\ NotBelow(r, n) /\ EachOnceBut(r, X)
    /\ Len(r.runData[n]) = index + 1

\* One link of a node's outputs.
LEMMA HandStep ==
    ASSUME workflow \in Workflows, NEW r, NEW l \in workflow.links, NEW index \in Nat, NEW X,
           <<l, <<l.from, index, l.output>> >> \in X, Handing(r, l.from, index, X),
           l.output \in r.runData[l.from][index + 1].outs
    PROVE  Handing(HandOnStep(r, l.from, index, l), l.from, index,
                   X \ {<<l, <<l.from, index, l.output>> >>})
<1> DEFINE b == <<l.from, index, l.output>>
           q == AddNodeToBeExecuted(r, l, b)
<1>1. TypeOK(r) /\ Steady(r) /\ NotBelow(r, l.from) /\ EachOnceBut(r, X)
      /\ Len(r.runData[l.from]) = index + 1
  BY DEF Handing
<1>2. l \in Links /\ l.from \in Nodes /\ l.output \in Nat /\ b \in AllBatches
      /\ b[1] = l.from /\ b[2] = index /\ b[3] = l.output
  BY GraphFacts DEF Links, AllBatches
<1>3. r.runData[l.from] \in Seq(Tasks)
  BY <1>1, <1>2 DEF TypeOK, Records
<1> HIDE DEF b
<1>4. DOMAIN r.runData[l.from] = 1..(index + 1)
  BY <1>1, <1>3
<1>5. Known(r, b)
  BY <1>2, <1>4 DEF Known
<1>6. Latest(r, b)
  <2> SUFFICES ASSUME NEW c \in Contents(r), NEW i \in DOMAIN c.data, SameSource(c.data[i], b)
               PROVE  c.data[i][2] <= b[2]
    BY DEF Latest
  <2>1. c.data[i] \in AllBatches /\ c.data[i][1] = l.from
    <3>1. c.data[i] \in Values
      BY <1>1, ContentsAre
    <3> QED
      BY <1>2, <3>1 DEF SameSource, Values
  <2>2. Known(r, c.data[i])
    BY <1>1, <2>1 DEF Steady, Sourced
  <2>3. c.data[i][2] \in Nat /\ c.data[i][2] + 1 \in 1..(index + 1)
    BY <1>4, <2>1, <2>2 DEF Known, AllBatches
  <2> QED
    BY <1>2, <2>3
<1>7. Steady(q) /\ NotBelow(q, l.from)
  BY <1>1, <1>2, <1>5, <1>6, AddKeepsSteady
<1>8. EachOnceBut(q, X \ {<<l, b>>})
  <2>1. <<l, b>> \in X
    BY DEF b
  <2>2. FullLength(r.waiting)
    BY <1>1 DEF Steady, InOrder
  <2> QED
    BY <1>1, <1>2, <2>1, <2>2, AddKeepsOnce
<1>9. TypeOK(q) /\ q.runData = r.runData
  BY <1>1, <1>2, AddFacts DEF Rest
<1> QED
  BY <1>1, <1>7, <1>8, <1>9 DEF Handing, HandOnStep, b

ToHand(n, index, outs) ==
    {<<l, <<n, index, l.output>> >> : l \in {k \in workflow.links : k.from = n /\ k.output \in outs}}

\* The links that a run is handed on along, and the states between.
HandedOnAlong(r, n, index, outs) ==
    \E links, g : \E len \in Nat :
        /\ links \in Seq(workflow.links) /\ DOMAIN links = 1..len
        /\ {links[i] : i \in 1..len} = {k \in workflow.links : k.from = n /\ k.output \in outs}
        /\ \A i, j \in 1..len : i # j => links[i] # links[j]
        /\ g[0] = r /\ HandOn(r, n, index, NodesToAdd(n, outs)) = g[len]
        /\ \A k \in 1..len : g[k] = HandOnStep(g[k - 1], n, index, links[k])

\* The links that are handed on along are those whose outputs have items.
LEMMA LinksHandedOn ==
    ASSUME workflow \in Workflows, NEW r, NEW n, NEW index, NEW outs
    PROVE  HandedOnAlong(r, n, index, outs)
<1> DEFINE links == NodesToAdd(n, outs)
           len == Len(links)
<1>1. /\ links \in Seq(workflow.links)
      /\ {links[i] : i \in 1..len} = {k \in workflow.links : k.from = n /\ k.output \in outs}
      /\ \A i, j \in 1..len : i # j => links[i] # links[j]
  BY NodesToAddFacts
<1> HIDE DEF links
<1>2. len \in Nat /\ DOMAIN links = 1..len
  BY <1>1
<1>3. PICK g : /\ g[0] = r /\ HandOn(r, n, index, links) = g[len]
               /\ \A k \in 1..len : g[k] = HandOnStep(g[k - 1], n, index, links[k])
  BY <1>2, HandOnSteps
<1> HIDE DEF len
<1> QED
  BY <1>1, <1>2, <1>3 DEF links, HandedOnAlong

\* When every link has had its turn, nothing is left to hand on.
LEMMA HandOnHolds ==
    ASSUME workflow \in Workflows, NEW r, NEW n \in Nodes, NEW index \in Nat, NEW outs,
           Handing(r, n, index, ToHand(n, index, outs)),
           outs \subseteq r.runData[n][index + 1].outs
    PROVE  Handing(HandOn(r, n, index, NodesToAdd(n, outs)), n, index, {})
<1>1. PICK links, g :
        \E len \in Nat :
           /\ links \in Seq(workflow.links) /\ DOMAIN links = 1..len
           /\ {links[i] : i \in 1..len} = {k \in workflow.links : k.from = n /\ k.output \in outs}
           /\ \A i, j \in 1..len : i # j => links[i] # links[j]
           /\ g[0] = r /\ HandOn(r, n, index, NodesToAdd(n, outs)) = g[len]
           /\ \A k \in 1..len : g[k] = HandOnStep(g[k - 1], n, index, links[k])
  <2>1. HandedOnAlong(r, n, index, outs)
    BY LinksHandedOn
  <2> QED
    BY <2>1 DEF HandedOnAlong
<1>2. PICK len \in Nat :
        /\ links \in Seq(workflow.links) /\ DOMAIN links = 1..len
        /\ {links[i] : i \in 1..len} = {k \in workflow.links : k.from = n /\ k.output \in outs}
        /\ \A i, j \in 1..len : i # j => links[i] # links[j]
        /\ g[0] = r /\ HandOn(r, n, index, NodesToAdd(n, outs)) = g[len]
        /\ \A k \in 1..len : g[k] = HandOnStep(g[k - 1], n, index, links[k])
  BY <1>1
<1> DEFINE S == {k \in workflow.links : k.from = n /\ k.output \in outs}
           P(l) == <<l, <<n, index, l.output>> >>
           X(k) == {P(links[i]) : i \in {j \in 1..len : j > k}}
<1>3. len \in Nat /\ \A k \in 1..len : links[k] \in S
  BY <1>2
<1>4. X(0) = ToHand(n, index, outs)
  <2>1. {j \in 1..len : j > 0} = 1..len
    BY <1>3
  <2>2. X(0) = {P(links[i]) : i \in 1..len}
    BY <2>1
  <2>3. \A l \in S : \E i \in 1..len : l = links[i]
    BY <1>2
  <2> QED
    BY <1>3, <2>2, <2>3 DEF ToHand
<1>5. X(len) = {}
  <2>1. {j \in 1..len : j > len} = {}
    BY <1>3
  <2> QED
    BY <2>1
<1>6. ASSUME NEW k \in Nat, k + 1 \in 1..len
      PROVE  P(links[k + 1]) \in X(k) /\ X(k) \ {P(links[k + 1])} = X(k + 1)
  <2>1. k + 1 > k
    OBVIOUS
  <2>2. P(links[k + 1]) \in X(k)
    BY <1>6, <2>1
  <2>3. \A i \in 1..len : i > k <=> i = k + 1 \/ i > k + 1
    OBVIOUS
  <2>4. \A i \in 1..len : i > k + 1 => P(links[i]) # P(links[k + 1])
    BY <1>2, <1>6
  <2> HIDE DEF P
  <2> QED
    BY <1>6, <2>2, <2>3, <2>4
<1> DEFINE T == {k \in Nat : k <= len => Handing(g[k], n, index, X(k)) /\ g[k].runData = r.runData}
<1>7. 0 \in T
  BY <1>2, <1>4
<1>8. ASSUME NEW k \in Nat, k \in T PROVE k + 1 \in T
  <2> SUFFICES ASSUME k + 1 <= len
               PROVE  Handing(g[k + 1], n, index, X(k + 1)) /\ g[k + 1].runData = r.runData
    OBVIOUS
  <2>0. k + 1 \in 1..len /\ k + 1 - 1 = k
    BY <1>3
  <2> DEFINE l == links[k + 1]
  <2>1. l \in workflow.links /\ l.from = n /\ l.output \in outs
        /\ g[k + 1] = HandOnStep(g[k], n, index, l)
    BY <1>3, <1>2, <2>0
  <2>2. Handing(g[k], n, index, X(k)) /\ g[k].runData = r.runData
    BY <1>3, <1>8
  <2>3. P(l) \in X(k) /\ X(k) \ {P(l)} = X(k + 1)
    BY <1>6, <2>0
  <2>4. <<l, <<l.from, index, l.output>> >> = P(l)
    BY <2>1
  <2> HIDE DEF l, X, P, T
  <2>5. Handing(g[k + 1], n, index, X(k) \ {P(l)})
    <3>1. l.output \in g[k].runData[l.from][index + 1].outs
      BY <2>1, <2>2
    <3>2. Handing(g[k], l.from, index, X(k)) /\ <<l, <<l.from, index, l.output>> >> \in X(k)
      BY <2>1, <2>2, <2>3, <2>4
    <3>3. Handing(HandOnStep(g[k], l.from, index, l), l.from, index,
                  X(k) \ {<<l, <<l.from, index, l.output>> >>})
      BY <2>1, <3>1, <3>2, HandStep
    <3> QED
      BY <2>1, <2>4, <3>3
  <2>6. g[k + 1].runData = r.runData
    <3>1. <<n, index, l.output>> \in AllBatches
      BY <2>1, GraphFacts DEF Links, AllBatches
    <3>2. TypeOK(g[k])
      BY <2>2 DEF Handing
    <3>3. Rest(g[k], g[k + 1])
      BY <2>1, <3>1, <3>2, AddFacts DEF HandOnStep
    <3> QED
      BY <2>2, <3>3 DEF Rest
  <2> QED
    BY <2>3, <2>5, <2>6
<1>9. len \in T
  <2> HIDE DEF T
  <2> QED BY <1>3, <1>7, <1>8, Induct
<1>10. Handing(g[len], n, index, X(len))
  <2> HIDE DEF X
  <2> QED BY <1>3, <1>9
<1> HIDE DEF X
<1> QED
  BY <1>2, <1>5, <1>10

-----------------------------------------------------------------------------
(* Running a node that waits keeps what is held *)

\* The first entry of a waiting node becomes the item on the stack.
LEMMA RunOfHolds ==
    ASSUME workflow \in Workflows, NEW r, TypeOK(r), r.stack = << >>, NEW n \in Ready(r)
    PROVE  LET k == Min(DOMAIN r.waiting[n])
           IN  \E c \in Contents(r) : \E d :
                  /\ Contents(RunOf(r, n)) = (Contents(r) \ {c}) \cup {d}
                  /\ c.node = n /\ c.data = r.waiting[n][k] /\ Waits(c)
                  /\ d.node = n /\ d.data = Filled(r, n) /\ ~Waits(d)
<1> DEFINE q == RunOf(r, n)
           k == Min(DOMAIN r.waiting[n])
           w == r.waiting
           x == Item(n, Filled(r, n))
           c == Held(<<"waiting", n, k>>, n, w[n][k])
           d == Held(<<"stack", 1>>, n, Filled(r, n))
<1>1. /\ q.stack = <<x>> /\ q.waiting = LeftIn(w, n, k)
      /\ q.runData = r.runData /\ q.silent = r.silent
  BY RunOfFacts DEF Rest, LeftIn
<1>2. n \in Nodes /\ k \in DOMAIN w[n]
  BY ReadyFacts
<1>3. DOMAIN w = Nodes
  BY DEF TypeOK, Records, Waitings
<1>4. OnStack(r.stack) = {}
  BY DEF OnStack
<1>5. OnStack(<<x>>) = {d}
  <2> DEFINE s == <<x>>
  <2>1. DOMAIN s = {1} /\ Len(s) + 1 - 1 = 1 /\ s[1] = x
    OBVIOUS
  <2>2. x.node = n /\ x.data = Filled(r, n)
    BY DEF Item
  <2>3. \A e : e \in OnStack(s) <=> e = d
    <3> SUFFICES ASSUME NEW e PROVE e \in OnStack(s) <=> e = d
      OBVIOUS
    <3> HIDE DEF x, s
    <3>1. e \in OnStack(s) <=> \E i \in DOMAIN s :
             e = Held(<<"stack", Len(s) + 1 - i>>, s[i].node, s[i].data)
      BY OnStackIs
    <3>2. e \in OnStack(s) <=> e = Held(<<"stack", Len(s) + 1 - 1>>, s[1].node, s[1].data)
      BY <2>1, <3>1
    <3>3. Len(s) + 1 - 1 = 1
      BY <2>1
    <3> QED
      BY <2>1, <2>2, <3>2, <3>3
  <2> QED
    BY <2>3
<1>6. InWaiting(LeftIn(w, n, k)) = InWaiting(w) \ {c} /\ c \in InWaiting(w)
  <2> HIDE DEF k, w
  <2> QED BY <1>2, <1>3, WaitingChanges
<1>7. c.at[1] = "waiting" /\ c.node = n /\ c.data = w[n][k] /\ Waits(c)
  BY DEF Held, Waits
<1>8. d.node = n /\ d.data = Filled(r, n) /\ ~Waits(d)
  BY DEF Held, Waits
<1> HIDE DEF c, d, x, q
<1>9. c \notin InRuns(r.runData) /\ c \notin InSilent(r.silent)
  BY <1>7, PartsApart
<1>10. Contents(q) = (Contents(r) \ {c}) \cup {d}
  <2>1. Contents(q) = {d} \cup (InWaiting(w) \ {c}) \cup InRuns(r.runData) \cup InSilent(r.silent)
    BY <1>1, <1>5, <1>6 DEF Contents
  <2> QED
    BY <1>4, <1>9, <2>1 DEF Contents
<1>11. c \in Contents(r)
  BY <1>6 DEF Contents
<1> QED
  BY <1>7, <1>8, <1>10, <1>11 DEF q

\* To fill in empty inputs does not change what comes before what.
LEMMA FillingKeepsOrder ==
    ASSUME NEW x, NEW y, DOMAIN y = DOMAIN x, \A i \in DOMAIN x : y[i] = x[i] \/ y[i] = Empty, NEW z
    PROVE  /\ Before(x, z) => Before(y, z)
           /\ Paired(x, z) => Paired(y, z)
           /\ Paired(z, x) => Paired(z, y)
<1>1. \A i \in DOMAIN x : \A v : SameSource(y[i], v) \/ SameSource(v, y[i]) => y[i] = x[i]
  BY DEF SameSource
<1>2. Before(x, z) => Before(y, z)
  BY <1>1 DEF Before
<1>3. Paired(x, z) => Paired(y, z)
  BY <1>1 DEF Paired
<1>4. Paired(z, x) => Paired(z, y)
  BY <1>1 DEF Paired
<1> QED
  BY <1>2, <1>3, <1>4

\* A node that is run without some of its input, when nothing above it can come, stays so.
LEMMA RunOfSteady ==
    ASSUME workflow \in Workflows, NEW r, TypeOK(r), r.stack = << >>, NEW n \in Ready(r), Steady(r)
    PROVE  Steady(RunOf(r, n))
<1> DEFINE q == RunOf(r, n)
           k == Min(DOMAIN r.waiting[n])
           w == r.waiting[n]
           full == Filled(r, n)
<1>1. /\ TypeOK(q) /\ q.runData = r.runData /\ q.misplaced = r.misplaced
      /\ q.stack = <<Item(n, full)>> /\ Range(q.order) \subseteq Range(r.order)
      /\ q.waiting = [r.waiting EXCEPT ![n] = Left(r.waiting, n, k)]
  BY RunOfFacts DEF Rest
<1>2. /\ n \in Nodes /\ k \in Nat /\ k \in DOMAIN w /\ \A j \in DOMAIN w : k <= j
      /\ full \in Data /\ DOMAIN full = Inputs(n)
      /\ \A i \in Inputs(n) : full[i] = IF w[k][i] = Missing THEN Empty ELSE w[k][i]
  <2>1. FullLength(r.waiting)
    BY DEF Steady, InOrder
  <2> QED
    BY <2>1, ReadyFacts DEF FullLength, HasInput
<1>3. /\ DOMAIN w \subseteq Nat /\ w[k] \in Data /\ DOMAIN w[k] = Inputs(n)
  BY <1>2, EntriesFacts DEF Steady, InOrder, FullLength
<1>3a. PICK c \in Contents(r) : \E d :
         /\ Contents(q) = (Contents(r) \ {c}) \cup {d}
         /\ c.node = n /\ c.data = w[k] /\ Waits(c)
         /\ d.node = n /\ d.data = full /\ ~Waits(d)
  BY RunOfHolds
<1>4. PICK d :
         /\ Contents(q) = (Contents(r) \ {c}) \cup {d}
         /\ c.node = n /\ c.data = w[k] /\ Waits(c)
         /\ d.node = n /\ d.data = full /\ ~Waits(d)
  BY <1>3a
<1>5. Empty \notin AllBatches
  BY EngineAssumption
<1>6. DOMAIN r.waiting = Nodes
  BY DEF TypeOK, Records, Waitings
<1>7. n \in Range(r.order) /\ Ancestors(n) \cap Range(r.order) \subseteq {n}
  BY DEF Ready, CanRun
<1>8. /\ \A m \in Nodes : m # n => q.waiting[m] = r.waiting[m]
      /\ \A j \in DOMAIN q.waiting[n] : j \in DOMAIN w /\ q.waiting[n][j] = w[j]
  BY <1>1, <1>2, <1>6 DEF Left
<1>9. ToCome(q) \subseteq Range(r.order)
  <2>1. \A i \in DOMAIN q.stack : q.stack[i].node = n
    BY <1>1 DEF Item
  <2> QED
    BY <1>1, <1>7, <2>1 DEF ToCome
<1> HIDE DEF q, k, full
<1>10. Sourced(q)
  <2>1. \A b : Known(r, b) => Known(q, b)
    BY <1>1 DEF Known
  <2>2. \A e \in Contents(r) : \A i \in DOMAIN e.data : e.data[i] \in AllBatches => Known(r, e.data[i])
    BY DEF Steady, Sourced
  <2>3. ASSUME NEW e \in Contents(q), NEW i \in DOMAIN e.data, e.data[i] \in AllBatches
        PROVE  Known(q, e.data[i])
    <3>1. CASE e = d
      <4>1. i \in DOMAIN c.data /\ c.data[i] = e.data[i]
        BY <1>2, <1>3, <1>4, <1>5, <2>3, <3>1
      <4> QED
        BY <2>1, <2>2, <2>3, <4>1
    <3>2. CASE e # d
      BY <1>4, <2>1, <2>2, <2>3, <3>2
    <3> QED
      BY <3>1, <3>2
  <2> QED
    BY <1>1, <2>3 DEF Steady, Sourced
<1>11. \A i \in DOMAIN w[k] : full[i] = w[k][i] \/ full[i] = Empty
  BY <1>2, <1>3
<1>12. ASSUME NEW y \in Contents(r), y.node = n, n \notin r.misplaced
       PROVE  /\ Paired(full, y.data) /\ Paired(y.data, full)
              /\ Waits(y) => Before(full, y.data)
  <2>1. Paired(w[k], y.data) /\ Paired(y.data, w[k])
    BY <1>4, <1>12 DEF Steady, InOrder
  <2>2. ASSUME Waits(y) PROVE Before(w[k], y.data)
    <3>1. PICK j \in DOMAIN w : y.data = w[j]
      BY <1>12, <2>2, WaitingIsEntry
    <3>2. CASE j = k
      BY <1>3, <3>1, <3>2, BeforeItself
    <3>3. CASE j # k
      <4>1. k < j
        BY <1>2, <1>3, <3>3
      <4> QED
        BY <1>2, <1>12, <3>1, <4>1 DEF Steady, InOrder
    <3> QED
      BY <3>2, <3>3
  <2> QED
    BY <1>2, <1>3, <1>11, <2>1, <2>2, FillingKeepsOrder
<1>13. Paired(full, full)
  BY <1>2, BeforeItself, BeforeIsPaired
<1>14. ASSUME NEW x \in Contents(q), NEW y \in Contents(q), x.node = y.node, x.node \notin q.misplaced
       PROVE  Paired(x.data, y.data) /\ (~Waits(x) /\ Waits(y) => Before(x.data, y.data))
  <2>1. CASE x # d /\ y # d
    <3>1. x \in Contents(r) /\ y \in Contents(r) /\ x.node \notin r.misplaced
      BY <1>1, <1>4, <1>14, <2>1
    <3> QED
      BY <1>14, <3>1 DEF Steady, InOrder
  <2>2. CASE x = d /\ y = d
    BY <1>4, <1>13, <2>2
  <2>3. CASE x = d /\ y # d
    BY <1>1, <1>4, <1>12, <1>14, <2>3
  <2>4. CASE x # d /\ y = d
    BY <1>1, <1>4, <1>12, <1>14, <2>4
  <2> QED
    BY <2>1, <2>2, <2>3, <2>4
<1>15. ASSUME NEW m \in Nodes \ q.misplaced, NEW j \in DOMAIN q.waiting[m],
              NEW i \in DOMAIN q.waiting[m], j < i
       PROVE  /\ Before(q.waiting[m][j], q.waiting[m][i])
              /\ \A p \in Inputs(m) :
                    q.waiting[m][j][p] = Missing => q.waiting[m][i][p] = Missing
  <2>1. /\ j \in DOMAIN r.waiting[m] /\ q.waiting[m][j] = r.waiting[m][j]
        /\ i \in DOMAIN r.waiting[m] /\ q.waiting[m][i] = r.waiting[m][i]
    BY <1>8
  <2> QED
    BY <1>1, <1>15, <2>1 DEF Steady, InOrder
<1>16. InOrder(q)
  <2>1. FullLength(r.waiting)
    BY DEF Steady, InOrder
  <2>2. FullLength(q.waiting)
    BY <1>8, <2>1 DEF FullLength
  <2> QED
    BY <1>14, <1>15, <2>2 DEF InOrder
<1>17. NothingAbove(q)
  <2> SUFFICES ASSUME Acyclic, NEW m \in Short(q) PROVE Ancestors(m) \cap ToCome(q) = {}
    BY DEF NothingAbove
  <2>1. CASE m = n
    <3>1. n \notin Ancestors(n)
      BY <1>2 DEF Acyclic
    <3> QED
      BY <1>7, <1>9, <2>1, <3>1
  <2>2. CASE m # n
    <3>1. m \in Short(r)
      BY <1>4, <2>2 DEF Short
    <3> QED
      BY <1>9, <3>1 DEF Steady, NothingAbove, ToCome
  <2> QED
    BY <2>1, <2>2
<1>18. Steady(q)
  BY <1>10, <1>16, <1>17 DEF Steady
<1> QED
  BY <1>18 DEF q

\* Soundness without what concerns single batches, and that.
LEMMA SoundIs ==
    ASSUME NEW r
    PROVE  Sound(r) <=> Steady(r) /\ EachOnce(r)
BY DEF Sound, Steady

\* Running a node that waits moves its entry to the stack.
LEMMA RunOfOnce ==
    ASSUME workflow \in Workflows, NEW r, TypeOK(r), FullLength(r.waiting), r.stack = << >>,
           NEW n \in Ready(r), EachOnce(r)
    PROVE  EachOnce(RunOf(r, n))
<1> DEFINE q == RunOf(r, n)
           k == Min(DOMAIN r.waiting[n])
           w == r.waiting[n]
           full == Filled(r, n)
<1>1. TypeOK(q) /\ SameRuns(r, q) /\ q.misplaced = r.misplaced
  BY RunOfFacts DEF Rest, SameRuns
<1>2. /\ n \in Nodes /\ k \in DOMAIN w /\ full \in [Inputs(n) -> AllBatches \cup {Empty}]
      /\ \A i \in Inputs(n) : full[i] = IF w[k][i] = Missing THEN Empty ELSE w[k][i]
  BY ReadyFacts DEF FullLength, HasInput
<1>3. DOMAIN full = Inputs(n) /\ DOMAIN w[k] = Inputs(n)
  BY <1>2 DEF FullLength
<1>3a. PICK c \in Contents(r) : \E d :
         /\ Contents(q) = (Contents(r) \ {c}) \cup {d}
         /\ c.node = n /\ c.data = w[k] /\ d.node = n /\ d.data = full
  BY RunOfHolds
<1>4. PICK d :
         /\ Contents(q) = (Contents(r) \ {c}) \cup {d}
         /\ c.node = n /\ c.data = w[k] /\ d.node = n /\ d.data = full
  BY <1>3a
<1>5. HandedOn(q) = HandedOn(r)
  BY <1>1, SameHandedOn
<1> HIDE DEF q, k, full
<1>6. ASSUME NEW h \in HandedOn(q), h[1].to \notin q.misplaced PROVE Once(q, h[1], h[2])
  <2>1. h[2] # Missing /\ h[2] # Empty
    BY <1>1, <1>6, HandedOnFacts, EngineAssumption
  <2>2. Has(d, h[1], h[2]) <=> Has(c, h[1], h[2])
    BY <1>2, <1>3, <1>4, <2>1 DEF Has, Carries
  <2>3. Once(r, h[1], h[2])
    BY <1>1, <1>5, <1>6 DEF EachOnce
  <2> QED
    BY <1>4, <2>2, <2>3, OnceMoves
<1> QED
  BY <1>6 DEF EachOnce, q

\* Looking at the waiting nodes keeps what is held.
LEMMA RunWaitingSound ==
    ASSUME workflow \in Workflows, NEW r, TypeOK(r), Sound(r)
    PROVE  Sound(RunWaiting(r))
<1>1. r \in Records
  BY DEF TypeOK
<1>2. CASE RunWaiting(r) = r
  BY <1>2
<1>3. CASE r.stack = << >> /\ ~NoneReady(r)
  <2>1. PICK n \in Ready(r) : RunWaiting(r) = RunOf(r, n)
    BY <1>1, <1>3, RunWaitingIs
  <2>2. Steady(RunOf(r, n)) /\ EachOnce(RunOf(r, n))
    BY <1>3, SoundIs, RunOfSteady, RunOfOnce DEF Sound, InOrder
  <2> QED
    BY <2>1, <2>2, SoundIs
<1> QED
  BY <1>1, <1>2, <1>3, RunWaitingIs

\* What leaves the contents as they are, and hands nothing on, leaves all in order.
LEMMA SoundStays ==
    ASSUME NEW r, NEW q, Sound(r), HandedOn(q) \subseteq HandedOn(r),
           \A b \in AllBatches : Known(r, b) => Known(q, b), OutsOfSuccess(q),
           Contents(q) = Contents(r), q.misplaced = r.misplaced, q.waiting = r.waiting,
           ToCome(q) \subseteq ToCome(r)
    PROVE  Sound(q)
<1>1. Within(q, r)
  BY DEF Within
<1>2. Steady(q)
  BY <1>1, SoundIs, SteadyWithin
<1>3. EachOnce(q)
  BY DEF Sound, EachOnce, Once
<1> QED
  BY <1>2, <1>3, SoundIs

\* Soundness depends on what is held, what may come and what has run.
LEMMA SameSound ==
    ASSUME NEW r, NEW q, Sound(r), SameRuns(r, q), Contents(q) = Contents(r),
           q.misplaced = r.misplaced, q.waiting = r.waiting, ToCome(q) \subseteq ToCome(r)
    PROVE  Sound(q) /\ HandedOn(q) = HandedOn(r)
<1>1. HandedOn(q) = HandedOn(r) /\ \A b : Known(q, b) <=> Known(r, b)
  BY SameHandedOn
<1>2. OutsOfSuccess(q)
  BY DEF Sound, Sourced, OutsOfSuccess, SameRuns
<1> QED
  BY <1>1, <1>2, SoundStays

\* The fields that what is held is made of.
SameHeld(r, q) ==
    /\ q.stack = r.stack /\ q.waiting = r.waiting /\ q.order = r.order /\ q.runData = r.runData
    /\ q.silent = r.silent /\ q.misplaced = r.misplaced

\* The same, when stack, waiting entries and runs are the same.
LEMMA SameHeldSound ==
    ASSUME NEW r, NEW q, SameHeld(r, q)
    PROVE  /\ Contents(q) = Contents(r) /\ ToCome(q) = ToCome(r)
           /\ Sound(r) /\ SameRuns(r, q) => Sound(q) /\ HandedOn(q) = HandedOn(r)
<1>1. Contents(q) = Contents(r)
  BY DEF Contents, SameHeld
<1>2. ToCome(q) = ToCome(r)
  BY DEF ToCome, SameHeld
<1>3. q.misplaced = r.misplaced /\ q.waiting = r.waiting
  BY DEF SameHeld
<1>4. ASSUME Sound(r), SameRuns(r, q) PROVE Sound(q) /\ HandedOn(q) = HandedOn(r)
  BY <1>1, <1>2, <1>3, <1>4, SameSound
<1> QED
  BY <1>1, <1>2, <1>4

-----------------------------------------------------------------------------
(* A run is added *)

\* The runs with one more: the others stay where they are.
LEMMA OneMoreIs ==
    ASSUME NEW d \in [Nodes -> Seq(Tasks)], NEW n \in Nodes, NEW task \in Tasks
    PROVE  LET D == OneMore(d, n, task)
           IN  /\ \A m \in Nodes : \A k \in DOMAIN d[m] : k \in DOMAIN D[m] /\ D[m][k] = d[m][k]
               /\ \A m \in Nodes : \A k \in DOMAIN D[m] :
                     \/ k \in DOMAIN d[m] /\ D[m][k] = d[m][k]
                     \/ m = n /\ k = Len(d[n]) + 1 /\ D[m][k] = task
               /\ Len(d[n]) \in Nat /\ Len(d[n]) + 1 \notin DOMAIN d[n]
               /\ Len(D[n]) = Len(d[n]) + 1 /\ D[n][Len(d[n]) + 1] = task
<1> DEFINE len == Len(d[n])
           D == [d EXCEPT ![n] = Append(@, task)]
<1>1. d[n] \in Seq(Tasks) /\ len \in Nat /\ DOMAIN d[n] = 1..len
  OBVIOUS
<1>2. /\ DOMAIN D[n] = 1..(len + 1) /\ D[n][len + 1] = task /\ Len(D[n]) = len + 1
      /\ \A k \in 1..len : D[n][k] = d[n][k]
      /\ \A m \in Nodes \ {n} : D[m] = d[m]
  BY <1>1
<1>3. \A m \in Nodes : \A k \in DOMAIN d[m] : k \in DOMAIN D[m] /\ D[m][k] = d[m][k]
  BY <1>1, <1>2
<1>4. \A m \in Nodes : \A k \in DOMAIN D[m] :
         (k \in DOMAIN d[m] /\ D[m][k] = d[m][k]) \/ (m = n /\ k = len + 1 /\ D[m][k] = task)
  BY <1>1, <1>2
<1>5. len + 1 \notin DOMAIN d[n]
  BY <1>1
<1>6. D = OneMore(d, n, task)
  BY DEF OneMore
<1> HIDE DEF D
<1> QED
  BY <1>1, <1>2, <1>3, <1>4, <1>5, <1>6

\* What has been taken away can be added again.
LEMMA LastTakenIs ==
    ASSUME NEW d \in [Nodes -> Seq(Tasks)], NEW n \in Nodes, d[n] # << >>
    PROVE  /\ Last(d[n]) \in Tasks /\ LastTaken(d, n) \in [Nodes -> Seq(Tasks)]
           /\ d = OneMore(LastTaken(d, n), n, Last(d[n]))
<1> DEFINE s == d[n]
           f == Front(s)
           e == LastTaken(d, n)
<1>1. s \in Seq(Tasks) /\ Len(s) \in Nat /\ Len(s) >= 1
  OBVIOUS
<1>2. Last(s) = s[Len(s)] /\ Last(s) \in Tasks
  BY <1>1 DEF Last
<1>3. f = SubSeq(s, 1, Len(s) - 1)
  BY DEF Front
<1>4. f \in Seq(Tasks) /\ Len(f) = Len(s) - 1 /\ \A i \in 1..(Len(s) - 1) : f[i] = s[i]
  <2> DEFINE m == Len(s) - 1
  <2>1. m \in Nat /\ 1 \in Int /\ m \in Int /\ \A i \in 1..m : s[i] \in Tasks
    BY <1>1
  <2> HIDE DEF m, s
  <2>2. SubSeq(s, 1, m) \in Seq(Tasks)
    BY <2>1, SubSeqProperties
  <2>3. Len(SubSeq(s, 1, m)) = m /\ \A i \in 1..m : SubSeq(s, 1, m)[i] = s[i]
    BY <1>1, <2>1
  <2> QED
    BY <1>3, <2>2, <2>3 DEF m
<1>5. Append(f, Last(s)) = s
  <2>1. Append(f, Last(s)) \in Seq(Tasks) /\ Len(Append(f, Last(s))) = Len(s)
    BY <1>1, <1>2, <1>4
  <2>2. \A i \in 1..Len(s) : Append(f, Last(s))[i] = s[i]
    BY <1>1, <1>2, <1>4
  <2> QED
    BY <1>1, <2>1, <2>2, SeqEqual
<1>6. e \in [Nodes -> Seq(Tasks)]
  BY LastTakenFacts
<1>7. e[n] = f /\ \A m \in Nodes : m # n => e[m] = d[m]
  BY DEF LastTaken
<1> HIDE DEF f, e
<1>8. OneMore(e, n, Last(s))[n] = Append(e[n], Last(s)) /\ \A m \in Nodes : m # n => OneMore(e, n, Last(s))[m] = e[m]
  BY <1>6 DEF OneMore
<1>9. DOMAIN OneMore(e, n, Last(s)) = Nodes /\ OneMore(e, n, Last(s)) = [m \in Nodes |-> OneMore(e, n, Last(s))[m]]
  BY <1>6 DEF OneMore
<1>10. \A m \in Nodes : OneMore(e, n, Last(s))[m] = d[m]
  BY <1>5, <1>7, <1>8
<1>11. d = OneMore(e, n, Last(s))
  BY <1>9, <1>10
<1> QED
  BY <1>2, <1>6, <1>11 DEF e

\* The batches of a run are handed on with it, and are not before.
HandsOnMore(r, q, n, task) ==
    LET X == ToHand(n, Len(r.runData[n]), task.outs)
    IN  /\ HandedOn(r) \subseteq HandedOn(q) /\ HandedOn(q) \subseteq HandedOn(r) \cup X
        /\ HandedOn(r) \cap X = {}
        /\ n = r.destination \/ task.outs = {} => HandedOn(q) \subseteq HandedOn(r)
        /\ \A b \in AllBatches : Known(r, b) => Known(q, b)
        /\ \A b \in AllBatches : task.outs = {} /\ Known(q, b) => Known(r, b)
        /\ \A h \in X : ~Known(r, h[2])

\* One more run hands on what it outputs, and takes back nothing.
LEMMA RunHandsOn ==
    ASSUME workflow \in Workflows, NEW r, TypeOK(r), NEW q, TypeOK(q), NEW n \in Nodes, NEW task \in Tasks,
           q.runData = OneMore(r.runData, n, task), q.kept = r.kept,
           q.destination = r.destination, q.filter = r.filter
    PROVE  HandsOnMore(r, q, n, task)
<1> DEFINE index == Len(r.runData[n])
           X == ToHand(n, index, task.outs)
           d == r.runData
           D == q.runData
<1>0. d \in [Nodes -> Seq(Tasks)] /\ D = OneMore(d, n, task)
  BY DEF TypeOK, Records
<1>1. /\ \A m \in Nodes : \A k \in DOMAIN d[m] : k \in DOMAIN D[m] /\ D[m][k] = d[m][k]
      /\ \A m \in Nodes : \A k \in DOMAIN D[m] :
            \/ k \in DOMAIN d[m] /\ D[m][k] = d[m][k]
            \/ m = n /\ k = index + 1 /\ D[m][k] = task
      /\ index \in Nat /\ index + 1 \notin DOMAIN d[n]
  <2> HIDE DEF d, D
  <2>1. /\ \A m \in Nodes : \A k \in DOMAIN d[m] : k \in DOMAIN D[m] /\ D[m][k] = d[m][k]
        /\ \A m \in Nodes : \A k \in DOMAIN D[m] :
              \/ k \in DOMAIN d[m] /\ D[m][k] = d[m][k]
              \/ m = n /\ k = Len(d[n]) + 1 /\ D[m][k] = task
        /\ Len(d[n]) \in Nat /\ Len(d[n]) + 1 \notin DOMAIN d[n]
    BY <1>0, OneMoreIs
  <2> QED
    BY <2>1 DEF d
<1>2. Followed(q) = Followed(r)
  BY DEF Followed
<1>3. \A l \in Followed(r) : l \in workflow.links /\ l.from \in Nodes /\ l.from # r.destination
  BY GraphFacts DEF Followed, Links
<1>4. \A b \in AllBatches : b[1] \in Nodes
  BY DEF AllBatches
<1>5. \A b \in AllBatches : Known(r, b) => Known(q, b)
  BY <1>1, <1>4 DEF Known
<1>6. \A b \in AllBatches : task.outs = {} /\ Known(q, b) => Known(r, b)
  BY <1>1, <1>4 DEF Known
<1>7. \A h \in X : ~Known(r, h[2])
  BY <1>1 DEF ToHand, Known
<1>8. HandedOn(r) \cap X = {}
  BY <1>7, HandedOnFacts
<1>9. ASSUME NEW h \in HandedOn(r) PROVE h \in HandedOn(q)
  <2>1. PICK l \in Followed(r) : \E k \in DOMAIN d[l.from] :
            k > r.kept[l.from] /\ l.output \in d[l.from][k].outs /\ h = <<l, <<l.from, k - 1, l.output>> >>
    BY HandedOnAre
  <2>2. PICK k \in DOMAIN d[l.from] :
            k > r.kept[l.from] /\ l.output \in d[l.from][k].outs /\ h = <<l, <<l.from, k - 1, l.output>> >>
    BY <2>1
  <2>3. k \in DOMAIN D[l.from] /\ D[l.from][k] = d[l.from][k]
    BY <1>1, <1>3
  <2> QED
    BY <1>2, <2>2, <2>3, HandedOnAre
<1>10. ASSUME NEW h \in HandedOn(q)
       PROVE  h \in HandedOn(r) \/ (h \in X /\ n # r.destination /\ task.outs # {})
  <2>1. PICK l \in Followed(q) : \E k \in DOMAIN D[l.from] :
            k > q.kept[l.from] /\ l.output \in D[l.from][k].outs /\ h = <<l, <<l.from, k - 1, l.output>> >>
    BY HandedOnAre
  <2>2. PICK k \in DOMAIN D[l.from] :
            k > q.kept[l.from] /\ l.output \in D[l.from][k].outs /\ h = <<l, <<l.from, k - 1, l.output>> >>
    BY <2>1
  <2>3. CASE k \in DOMAIN d[l.from] /\ D[l.from][k] = d[l.from][k]
    BY <1>2, <2>2, <2>3, HandedOnAre
  <2>4. CASE l.from = n /\ k = index + 1 /\ D[l.from][k] = task
    <3>1. k - 1 = index
      BY <1>1, <2>4
    <3>2. h = <<l, <<n, index, l.output>> >> /\ l \in workflow.links /\ l.from = n /\ l.output \in task.outs
      BY <1>2, <1>3, <2>2, <2>4, <3>1
    <3>3. h \in X
      BY <3>2 DEF ToHand
    <3> QED
      BY <1>2, <1>3, <3>2, <3>3
  <2> QED
    BY <1>1, <1>2, <1>3, <2>3, <2>4
<1> HIDE DEF X
<1>11. /\ HandedOn(r) \subseteq HandedOn(q) /\ HandedOn(q) \subseteq HandedOn(r) \cup X
       /\ n = r.destination \/ task.outs = {} => HandedOn(q) \subseteq HandedOn(r)
  BY <1>9, <1>10
<1> QED
  BY <1>5, <1>6, <1>7, <1>8, <1>11 DEF X, HandsOnMore

\* What is on top of the stack may be held elsewhere, or nowhere, instead.
LEMMA TopMovesWithin ==
    ASSUME NEW r, TypeOK(r), r.stack # << >>, NEW q, NEW d,
           Contents(q) \subseteq (Contents(r) \ {TopHeld(r)}) \cup {d},
           d.node = Head(r.stack).node, d.data = Head(r.stack).data, ~Waits(d)
    PROVE  Within(q, r)
BY TopGoes DEF Within

\* A success: its batches are new, and nowhere yet.
LEMMA SuccessHolds ==
    ASSUME workflow \in Workflows, NEW r, TypeOK(r), r.stack # << >>, Sound(r), NEW task \in Tasks,
           task.status = "success", task.data = Head(r.stack).data,
           NEW q, TypeOK(q), RanShape(r, q, Head(r.stack).node, task), q.stack = Tail(r.stack)
    PROVE  LET n == Head(r.stack).node
           IN  /\ Steady(q) /\ NotBelow(q, n)
               /\ EachOnceBut(q, ToHand(n, Len(r.runData[n]), task.outs))
               /\ n = r.destination => Sound(q) /\ HandedOn(q) = HandedOn(r)
<1> DEFINE n == Head(r.stack).node
           index == Len(r.runData[n])
           X == ToHand(n, index, task.outs)
<1>1. /\ n \in Nodes /\ q.runData = OneMore(r.runData, n, task) /\ q.waiting = r.waiting
      /\ q.order = r.order /\ q.kept = r.kept /\ q.destination = r.destination
      /\ q.filter = r.filter /\ q.misplaced = r.misplaced
  BY DEF RanShape
<1>2. PICK d : /\ Contents(q) = (Contents(r) \ {TopHeld(r)}) \cup {d}
               /\ d.node = n /\ d.data = Head(r.stack).data /\ ~Waits(d)
  BY TopRuns
<1>3. /\ TopHeld(r) \in Contents(r) /\ TopHeld(r).node = n /\ TopHeld(r).data = Head(r.stack).data
      /\ n \in ToCome(r) /\ \A i \in DOMAIN Tail(r.stack) : Tail(r.stack)[i].node \in ToCome(r)
  BY TopGoes
<1> HIDE DEF n
<1>4. /\ HandedOn(r) \subseteq HandedOn(q) /\ HandedOn(q) \subseteq HandedOn(r) \cup X
      /\ HandedOn(r) \cap X = {}
      /\ n = r.destination => HandedOn(q) \subseteq HandedOn(r)
      /\ \A b \in AllBatches : Known(r, b) => Known(q, b)
      /\ \A h \in X : ~Known(r, h[2])
  <2>1. HandsOnMore(r, q, n, task)
    BY <1>1, RunHandsOn
  <2> QED
    BY <2>1 DEF HandsOnMore
<1> HIDE DEF X
<1>5. OutsOfSuccess(q)
  <2>1. r.runData \in [Nodes -> Seq(Tasks)]
    BY DEF TypeOK, Records
  <2>2. \A m \in Nodes : \A k \in DOMAIN q.runData[m] :
           \/ k \in DOMAIN r.runData[m] /\ q.runData[m][k] = r.runData[m][k]
           \/ q.runData[m][k] = task
    <3> DEFINE e == r.runData
    <3>1. e \in [Nodes -> Seq(Tasks)] /\ q.runData = OneMore(e, n, task)
      BY <1>1, <2>1
    <3> HIDE DEF e
    <3>2. \A m \in Nodes : \A k \in DOMAIN q.runData[m] :
             \/ k \in DOMAIN e[m] /\ q.runData[m][k] = e[m][k]
             \/ q.runData[m][k] = task
      BY <1>1, <3>1, OneMoreIs
    <3> QED
      BY <3>2 DEF e
  <2> QED
    BY <2>2 DEF OutsOfSuccess, Sound, Sourced
<1>6. ToCome(q) \subseteq ToCome(r)
  BY <1>1, <1>3 DEF ToCome
<1>7. Within(q, r)
  BY <1>2, TopMovesWithin DEF n
<1>8. Steady(q) /\ Short(q) \subseteq Short(r)
  BY <1>1, <1>4, <1>5, <1>6, <1>7, SoundIs, SteadyWithin
<1>9. NotBelow(q, n)
  BY <1>3, <1>8 DEF NotBelow, Sound, NothingAbove
<1>10. ASSUME NEW h \in HandedOn(q), h[1].to \notin q.misplaced
       PROVE  IF h \in X THEN Nowhere(q, h[1], h[2]) ELSE Once(q, h[1], h[2])
  <2>1. h[2] \in AllBatches
    BY <1>10, HandedOnFacts
  <2>2. Has(d, h[1], h[2]) <=> Has(TopHeld(r), h[1], h[2])
    BY <1>2, <1>3 DEF Has
  <2>3. CASE h \in X
    <3>1. ~Known(r, h[2])
      BY <1>4, <2>3
    <3>2. Nowhere(r, h[1], h[2])
      BY <2>1, <3>1 DEF Nowhere, Has, Carries, Sound, Sourced
    <3> QED
      BY <1>2, <1>3, <2>2, <2>3, <3>2, OnceMoves
  <2>4. CASE h \notin X
    <3>1. Once(r, h[1], h[2])
      BY <1>1, <1>4, <1>10, <2>4 DEF Sound, EachOnce
    <3> QED
      BY <1>2, <1>3, <2>2, <2>4, <3>1, OnceMoves
  <2> QED
    BY <2>3, <2>4
<1>11. EachOnceBut(q, X)
  BY <1>10 DEF EachOnceBut
<1>12. ASSUME n = r.destination PROVE Sound(q) /\ HandedOn(q) = HandedOn(r)
  <2>1. HandedOn(q) = HandedOn(r)
    BY <1>4, <1>12
  <2>2. EachOnce(q)
    BY <1>4, <1>11, <2>1 DEF EachOnce, EachOnceBut
  <2> QED
    BY <1>8, <2>1, <2>2, SoundIs
<1> QED
  BY <1>8, <1>9, <1>11, <1>12 DEF X, n

\* A failure or a wait: the item stays on the stack.
LEMMA TriedHolds ==
    ASSUME workflow \in Workflows, NEW r, TypeOK(r), Sound(r), NEW n \in Nodes, NEW task \in Tasks,
           task.status # "success", task.outs = {},
           NEW q, TypeOK(q), RanShape(r, q, n, task), q.stack = r.stack
    PROVE  Sound(q) /\ HandedOn(q) = HandedOn(r)
<1>1. /\ q.runData = OneMore(r.runData, n, task) /\ q.waiting = r.waiting
      /\ q.order = r.order /\ q.kept = r.kept /\ q.destination = r.destination
      /\ q.filter = r.filter /\ q.misplaced = r.misplaced /\ q.silent = r.silent
  BY DEF RanShape
<1>2. Contents(q) = Contents(r)
  BY <1>1, TriesHoldNothing
<1>3. HandedOn(q) = HandedOn(r) /\ \A b \in AllBatches : Known(r, b) => Known(q, b)
  <2>1. HandsOnMore(r, q, n, task)
    BY <1>1, RunHandsOn
  <2> QED
    BY <2>1 DEF HandsOnMore
<1>4. OutsOfSuccess(q)
  <2> DEFINE e == r.runData
  <2>1. e \in [Nodes -> Seq(Tasks)] /\ q.runData = OneMore(e, n, task)
    BY <1>1 DEF TypeOK, Records
  <2>2. OutsOfSuccess(r)
    BY DEF Sound, Sourced, OutsOfSuccess
  <2> HIDE DEF e
  <2>3. \A m \in Nodes : \A k \in DOMAIN q.runData[m] :
           \/ k \in DOMAIN e[m] /\ q.runData[m][k] = e[m][k]
           \/ q.runData[m][k] = task
    BY <2>1, OneMoreIs
  <2> QED
    BY <2>2, <2>3 DEF OutsOfSuccess, e
<1>5. ToCome(q) \subseteq ToCome(r)
  BY <1>1 DEF ToCome
<1> QED
  BY <1>1, <1>2, <1>3, <1>4, <1>5, SoundStays

\* A run that has not succeeded is taken away.
LEMMA TakenHolds ==
    ASSUME workflow \in Workflows, NEW r, TypeOK(r), Sound(r), NEW n \in Nodes, r.runData[n] # << >>,
           Last(r.runData[n]).status # "success",
           NEW q, TypeOK(q), q.runData = LastTaken(r.runData, n), q.kept = r.kept,
           q.destination = r.destination, q.filter = r.filter, q.misplaced = r.misplaced,
           q.waiting = r.waiting, q.silent = r.silent, OnStack(q.stack) = OnStack(r.stack),
           ToCome(q) \subseteq ToCome(r)
    PROVE  Sound(q) /\ HandedOn(q) = HandedOn(r)
<1> DEFINE t == Last(r.runData[n])
<1>1. Contents(q) = Contents(r)
  BY TriesHoldNothing
<1>2. r.runData \in [Nodes -> Seq(Tasks)]
  BY DEF TypeOK, Records
<1>3. t \in Tasks /\ r.runData = OneMore(q.runData, n, t) /\ q.runData \in [Nodes -> Seq(Tasks)]
  <2> DEFINE d == r.runData
  <2>1. d \in [Nodes -> Seq(Tasks)] /\ d[n] # << >>
    BY <1>2
  <2> HIDE DEF d
  <2>2. Last(d[n]) \in Tasks /\ LastTaken(d, n) \in [Nodes -> Seq(Tasks)]
        /\ d = OneMore(LastTaken(d, n), n, Last(d[n]))
    BY <2>1, LastTakenIs
  <2> QED
    BY <2>2 DEF d
<1>4. t.outs = {}
  <2>1. Len(r.runData[n]) \in DOMAIN r.runData[n] /\ t = r.runData[n][Len(r.runData[n])]
    BY <1>2 DEF Last
  <2> QED
    BY <2>1 DEF Sound, Sourced
<1> HIDE DEF t
<1>5. HandedOn(q) = HandedOn(r) /\ \A b \in AllBatches : Known(r, b) => Known(q, b)
  <2>1. HandsOnMore(q, r, n, t)
    BY <1>3, RunHandsOn
  <2> QED
    BY <1>4, <2>1 DEF HandsOnMore
<1>6. OutsOfSuccess(q)
  <2> DEFINE e == q.runData
  <2>1. e \in [Nodes -> Seq(Tasks)] /\ r.runData = OneMore(e, n, t)
    BY <1>3
  <2> HIDE DEF e
  <2>2. \A m \in Nodes : \A k \in DOMAIN e[m] : k \in DOMAIN r.runData[m] /\ r.runData[m][k] = e[m][k]
    BY <1>3, <2>1, OneMoreIs
  <2> QED
    BY <2>2 DEF OutsOfSuccess, Sound, Sourced, e
<1> QED
  BY <1>1, <1>5, <1>6, SoundStays

-----------------------------------------------------------------------------
(* What the run and the row hold: one lemma for each action *)

\* The step from r to q has handed nothing on.
HandsOnNothing(r, q) == ~q.marred => HandedOn(q) \subseteq HandedOn(r)

\* When the run has gone on to p, and the row has been given q's data and the same run.
LEMMA ProgressHolds ==
    ASSUME workflow \in Workflows, StandInv(run, row), HoldInv(run, row), run.status = "running",
           NEW n \in Nodes, NEW task \in Tasks,
           NEW p, TypeOK(p), p.marred = run.marred, p.destination = run.destination,
           p.kept = run.kept, p.filter = run.filter, p.runData = OneMore(run.runData, n, task),
           NEW q, TypeOK(q), q.status = "running", q.marred = run.marred,
           p.status # "waiting" => SameRuns(p, q),
           ~run.marred => Sound(p), ~run.marred /\ p.status # "waiting" => Sound(q)
    PROVE  HoldInv(p, Progress(q, n, task))
<1> DEFINE w == Progress(q, n, task)
<1>1. TypeOK(run) /\ TypeOK(row) /\ Agree(run, row)
  BY DEF StandInv
<1>2. row.status = "running" /\ row.marred = run.marred
  BY <1>1 DEF Agree
<1>3. CASE ~workflow.saveProgress
  <2>1. w = row
    BY <1>3 DEF Progress
  <2>2. ~OutOfStep(run, row)
    BY <1>3 DEF OutOfStep
  <2>3. HandedOn(run) \subseteq HandedOn(p)
    <3>1. HandsOnMore(run, p, n, task)
      BY <1>1, RunHandsOn
    <3> QED
      BY <3>1 DEF HandsOnMore
  <2> HIDE DEF w
  <2>4. HoldInv(p, w)
    BY <2>1, <2>2, <2>3 DEF HoldInv
  <2> QED
    BY <2>4 DEF w
<1>4. CASE workflow.saveProgress
  <2>1. SavedShape(q, w, n, task)
    BY <1>1, <1>4, ProgressIs
  <2> HIDE DEF w
  <2>2. ASSUME ~w.marred, ~OutOfStep(p, w) PROVE Sound(w) /\ HandedOn(w) \subseteq HandedOn(p)
    <3>1. w.status = "running" /\ w.marred = run.marred /\ w.destination = row.destination
          /\ w.waitTill = row.waitTill
      BY <2>1 DEF SavedShape
    <3>2. p.status # "waiting" /\ ~row.waitTill /\ row.destination = run.destination
      BY <1>4, <2>2, <3>1 DEF OutOfStep
    <3>3. ~OutOfStep(run, row)
      BY <3>2 DEF OutOfStep
    <3>4. row.runData = run.runData /\ row.kept = run.kept /\ row.filter = run.filter
      BY <1>1, <1>2, <1>4, <3>3 DEF Agree
    <3>5. SameRuns(p, q) /\ SameRuns(q, w)
      BY <2>1, <3>2, <3>4 DEF SavedShape, SameRuns
    <3>6. SameHeld(q, w)
      BY <2>1, <3>5 DEF SavedShape, SameHeld, SameRuns
    <3>7. Sound(w) /\ HandedOn(w) = HandedOn(q)
      BY <2>2, <3>1, <3>2, <3>5, <3>6, SameHeldSound
    <3>8. HandedOn(q) = HandedOn(p)
      BY <3>5, SameHandedOn
    <3> QED
      BY <3>7, <3>8
  <2>3. HoldInv(p, w)
    BY <2>2 DEF HoldInv
  <2> QED
    BY <2>3 DEF w
<1> QED
  BY <1>3, <1>4

\* The run goes on to p, and the row stays as it is.
LEMMA RowHolds ==
    ASSUME HoldInv(run, row), run.status = "running", NEW p, p.status = "running",
           p.marred = run.marred, SameRuns(run, p), ~run.marred => Sound(p)
    PROVE  HoldInv(p, row)
<1>1. HandedOn(p) = HandedOn(run)
  BY SameHandedOn
<1>2. OutOfStep(p, row) <=> OutOfStep(run, row)
  BY DEF OutOfStep, SameRuns
<1> QED
  BY <1>1, <1>2 DEF HoldInv

\* What a success has handed on is all in one place.
LEMMA AddedSound ==
    ASSUME workflow \in Workflows, StandInv(run, row), Turn, Sound(run), NEW outs \in Outcomes(Top)
    PROVE  Sound(Added(run, outs))
<1> DEFINE ran == Passed(run, outs)
           task == Task("success", Top.data, outs)
           n == Top.node
           index == Len(run.runData[n])
<1>1. TypeOK(run) /\ run.stack # << >> /\ n \in Nodes /\ task \in Tasks /\ index \in Nat
  BY TurnFacts
<1>2. TypeOK(ran) /\ RanShape(run, ran, n, task) /\ ran.stack = Tail(run.stack)
  BY AddedFacts
<1>3. task.status = "success" /\ task.data = Top.data /\ task.outs = outs
  BY DEF Task
<1>4. Added(run, outs) = HandOn(ran, n, index, NodesToAdd(n, outs))
  BY DEF Added, Top
<1>5. n = Head(run.stack).node /\ Top.data = Head(run.stack).data
  BY DEF Top
<1> HIDE DEF ran, task, n
<1>6. Steady(ran) /\ NotBelow(ran, n) /\ EachOnceBut(ran, ToHand(n, index, outs))
  BY <1>1, <1>2, <1>3, <1>5, SuccessHolds
<1>7. Len(ran.runData[n]) = index + 1 /\ ran.runData[n][index + 1] = task
  <2> DEFINE e == run.runData
  <2>1. e \in [Nodes -> Seq(Tasks)] /\ ran.runData = OneMore(e, n, task)
    BY <1>1, <1>2 DEF TypeOK, Records, RanShape
  <2> HIDE DEF e
  <2>2. Len(OneMore(e, n, task)[n]) = Len(e[n]) + 1 /\ OneMore(e, n, task)[n][Len(e[n]) + 1] = task
    BY <1>1, <2>1, OneMoreIs
  <2> QED
    BY <2>1, <2>2 DEF e
<1> HIDE DEF index
<1>8. Handing(ran, n, index, ToHand(n, index, outs))
  BY <1>2, <1>6, <1>7 DEF Handing
<1>9. outs \subseteq ran.runData[n][index + 1].outs
  BY <1>3, <1>7
<1>10. Handing(HandOn(ran, n, index, NodesToAdd(n, outs)), n, index, {})
  BY <1>1, <1>8, <1>9, HandOnHolds
<1> DEFINE q == HandOn(ran, n, index, NodesToAdd(n, outs))
<1> HIDE DEF q
<1>11. Steady(q) /\ EachOnceBut(q, {})
  BY <1>10 DEF Handing, q
<1>12. EachOnce(q)
  BY <1>11 DEF EachOnce, EachOnceBut
<1> QED
  BY <1>4, <1>11, <1>12, SoundIs DEF q

\* A node that succeeds.
LEMMA NodeSucceedsHold ==
    ASSUME workflow \in Workflows, StandInv(run, row), HoldInv(run, row), NEW outs, NodeSucceeds(outs)
    PROVE  HoldInv(run', row')
<1> DEFINE added == Added(run, outs)
           ran == Passed(run, outs)
           task == Task("success", Top.data, outs)
           q == Saved(added)
           p == RunWaiting(added)
           n == Top.node
<1>1. Turn /\ outs \in Outcomes(Top) /\ run' = p /\ row' = Progress(q, n, task)
  BY SuccessIs
<1>2. TypeOK(run) /\ run.status = "running" /\ n \in Nodes /\ task \in Tasks
  BY <1>1, TurnFacts
<1>3. RanShape(run, ran, n, task) /\ TypeOK(added) /\ Rest(ran, added)
  BY <1>1, AddedFacts
<1>4. ~run.marred => Sound(added)
  BY <1>1, AddedSound DEF HoldInv
<1> HIDE DEF n, task, ran, added
<1>5. TypeOK(p) /\ Rest(added, p) /\ (~run.marred => Sound(p))
  BY <1>3, <1>4, RunWaitingFacts, RunWaitingSound
<1>6. TypeOK(q) /\ SameRuns(added, q) /\ SameHeld(added, q) /\ q.status = added.status /\ q.marred = added.marred
  BY <1>3, SavedFacts DEF SameRuns, SameHeld
<1> HIDE DEF p, q
<1>7. ~run.marred => Sound(q)
  BY <1>4, <1>6, SameHeldSound
<1>8. /\ p.marred = run.marred /\ p.destination = run.destination
      /\ p.kept = run.kept /\ p.filter = run.filter /\ p.runData = OneMore(run.runData, n, task)
      /\ q.status = "running" /\ q.marred = run.marred /\ SameRuns(p, q)
  BY <1>2, <1>3, <1>5, <1>6 DEF RanShape, Rest, SameRuns
<1>9. HoldInv(p, Progress(q, n, task))
  BY <1>2, <1>5, <1>6, <1>7, <1>8, ProgressHolds
<1> QED
  BY <1>1, <1>9

\* The destination succeeds, and hands on nothing.
LEMMA DestinationSucceedsHold ==
    ASSUME workflow \in Workflows, StandInv(run, row), HoldInv(run, row), NEW outs, DestinationSucceeds(outs)
    PROVE  HoldInv(run', row') /\ HandsOnNothing(run, run')
<1> DEFINE q == Ended(run, outs)
           task == Task("success", Top.data, outs)
           n == Top.node
<1>1. Turn /\ outs \in Outcomes(Top) /\ run' = q /\ row' = Progress(q, n, task) /\ n = run.destination
  BY DEF DestinationSucceeds, Ended, RanOn, Top
<1>2. TypeOK(run) /\ run.status = "running" /\ n \in Nodes /\ task \in Tasks
      /\ run.stack # << >> /\ Tail(run.stack) \in Seq(Items)
  BY <1>1, TurnFacts
<1>3. TypeOK(q) /\ RanShape(run, q, n, task) /\ q.stack = Tail(run.stack)
  BY ZenonT(30), <1>2, RanFacts DEF Ended, Top
<1>4. task.status = "success" /\ task.data = Head(run.stack).data /\ n = Head(run.stack).node
  BY DEF Task, Top
<1> HIDE DEF q, n, task
<1>5. ~run.marred => Sound(q) /\ HandedOn(q) = HandedOn(run)
  BY <1>1, <1>2, <1>3, <1>4, SuccessHolds DEF HoldInv
<1>6. /\ q.marred = run.marred /\ q.destination = run.destination /\ q.kept = run.kept
      /\ q.filter = run.filter /\ q.runData = OneMore(run.runData, n, task)
      /\ q.status = "running" /\ SameRuns(q, q)
  BY <1>2, <1>3 DEF RanShape, SameRuns
<1>7. HoldInv(q, Progress(q, n, task))
  BY <1>2, <1>3, <1>5, <1>6, ProgressHolds
<1> QED
  BY <1>1, <1>5, <1>6, <1>7 DEF HandsOnNothing

\* What is on top of the stack goes: it may become a silent run.
LEMMA TopGoesHolds ==
    ASSUME workflow \in Workflows, NEW r, TypeOK(r), r.stack # << >>, Sound(r),
           NEW q, TypeOK(q), q.stack = Tail(r.stack), SameRuns(r, q), q.waiting = r.waiting,
           q.order = r.order, q.misplaced = r.misplaced,
           \/ q.silent = r.silent \cup {Head(r.stack)}
           \/ q.silent = r.silent /\ Head(r.stack).node \notin r.filter
    PROVE  Sound(q)
<1> DEFINE n == Head(r.stack).node
           c == TopHeld(r)
<1>1. /\ c \in Contents(r) /\ ~Waits(c) /\ c.node = n /\ c.data = Head(r.stack).data
      /\ \A i \in DOMAIN Tail(r.stack) : Tail(r.stack)[i].node \in ToCome(r)
  BY TopGoes
<1>2. HandedOn(q) = HandedOn(r) /\ \A b : Known(q, b) <=> Known(r, b)
  BY SameHandedOn
<1>3. OutsOfSuccess(q)
  BY DEF Sound, Sourced, OutsOfSuccess, SameRuns
<1>4. ToCome(q) \subseteq ToCome(r)
  BY <1>1 DEF ToCome
<1>5. q.runData = r.runData
  BY DEF SameRuns
<1> HIDE DEF c
<1>6. CASE q.silent = r.silent \cup {Head(r.stack)}
  <2>1. PICK d : /\ Contents(q) = (Contents(r) \ {c}) \cup {d}
                 /\ d.node = n /\ d.data = Head(r.stack).data /\ ~Waits(d)
    BY <1>5, <1>6, TopIsSilent DEF c
  <2>2. Within(q, r)
    BY <1>1, <2>1 DEF Within
  <2>3. Steady(q)
    BY <1>2, <1>3, <1>4, <2>2, SoundIs, SteadyWithin
  <2>4. ASSUME NEW h \in HandedOn(q), h[1].to \notin q.misplaced PROVE Once(q, h[1], h[2])
    <3>1. Has(d, h[1], h[2]) <=> Has(c, h[1], h[2])
      BY <1>1, <2>1 DEF Has
    <3>2. Once(r, h[1], h[2])
      BY <1>2, <2>4 DEF Sound, EachOnce
    <3> QED
      BY <1>1, <2>1, <3>1, <3>2, OnceMoves
  <2> QED
    BY <2>3, <2>4, SoundIs DEF EachOnce
<1>7. CASE q.silent = r.silent /\ n \notin r.filter
  <2>1. Contents(q) = Contents(r) \ {c}
    BY <1>5, <1>7, TopIsDropped DEF c
  <2>2. Within(q, r)
    BY <2>1 DEF Within
  <2>3. Steady(q)
    BY <1>2, <1>3, <1>4, <2>2, SoundIs, SteadyWithin
  <2>4. ASSUME NEW h \in HandedOn(q), h[1].to \notin q.misplaced PROVE Once(q, h[1], h[2])
    <3>1. h[1].to \in r.filter
      BY <1>2, <2>4, HandedOnFacts
    <3>2. \A e \in Contents(r) : Has(e, h[1], h[2]) => e \in Contents(q)
      BY <1>1, <1>7, <2>1, <3>1 DEF Has
    <3>3. \A e \in Contents(q) : Has(e, h[1], h[2]) => e \in Contents(r)
      BY <2>1
    <3>4. Once(r, h[1], h[2])
      BY <1>2, <2>4 DEF Sound, EachOnce
    <3> QED
      BY <3>2, <3>3, <3>4, OnceStays
  <2> QED
    BY <2>3, <2>4, SoundIs DEF EachOnce
<1> QED
  BY <1>6, <1>7

\* A node that has waited is passed over.
LEMMA PassOverHold ==
    ASSUME workflow \in Workflows, StandInv(run, row), HoldInv(run, row), PassOver
    PROVE  HoldInv(run', row') /\ HandsOnNothing(run, run')
<1> DEFINE q == Dropped(run)
<1>1. run.status = "running" /\ run.stack # << >> /\ run' = q /\ row' = row
      /\ Head(run.stack).node \notin run.filter
  BY DEF PassOver, Dropped, Top
<1>2. TypeOK(run)
  BY DEF StandInv
<1>3. /\ TypeOK(q) /\ q.stack = Tail(run.stack) /\ q.waiting = run.waiting /\ q.order = run.order
      /\ SameRuns(run, q) /\ q.silent = run.silent /\ q.misplaced = run.misplaced
      /\ q.status = run.status /\ q.marred = run.marred
  BY <1>1, <1>2, DroppedFacts DEF SameRuns
<1> HIDE DEF q
<1>4. ~run.marred => Sound(q)
  BY <1>1, <1>2, <1>3, TopGoesHolds DEF HoldInv
<1>5. HoldInv(q, row)
  BY <1>1, <1>3, <1>4, RowHolds
<1>6. HandedOn(q) = HandedOn(run)
  BY <1>3, SameHandedOn
<1> QED
  BY <1>1, <1>5, <1>6 DEF HandsOnNothing

\* A node returns nothing.
LEMMA NodeReturnsNothingHold ==
    ASSUME workflow \in Workflows, StandInv(run, row), HoldInv(run, row), NodeReturnsNothing
    PROVE  HoldInv(run', row') /\ HandsOnNothing(run, run')
<1>1. PICK last \in {run.last, Top.node} : run' = Silenced(run, last)
  BY DEF NodeReturnsNothing, Silenced, Top
<1>2. run.status = "running" /\ run.stack # << >> /\ row' = row /\ TypeOK(run)
  BY DEF NodeReturnsNothing, Turn, StandInv
<1> DEFINE q == Silenced(run, last)
<1>3. /\ TypeOK(q) /\ q.stack = Tail(run.stack) /\ q.waiting = run.waiting /\ q.order = run.order
      /\ SameRuns(run, q) /\ q.silent = run.silent \cup {Head(run.stack)}
      /\ q.misplaced = run.misplaced /\ q.status = run.status /\ q.marred = run.marred
  <2>1. IsSilenced(run, q)
    BY DEF Top, IsSilenced
  <2> HIDE DEF q
  <2>2. TypeOK(q) /\ TopGoesSilent(run, q)
    BY <1>2, <2>1, SilencedFacts
  <2> QED
    BY <2>2 DEF SameRuns, TopGoesSilent
<1> HIDE DEF q
<1>4. ~run.marred => Sound(q)
  BY <1>2, <1>3, TopGoesHolds DEF HoldInv
<1>5. HoldInv(q, row)
  BY <1>2, <1>3, <1>4, RowHolds
<1>6. HandedOn(q) = HandedOn(run)
  BY <1>3, SameHandedOn
<1> QED
  BY <1>1, <1>2, <1>5, <1>6 DEF q, HandsOnNothing

\* A node fails, and stays on the stack.
LEMMA NodeFailsHold ==
    ASSUME workflow \in Workflows, StandInv(run, row), HoldInv(run, row), NodeFails
    PROVE  HoldInv(run', row') /\ HandsOnNothing(run, run')
<1> DEFINE q == Tried(run, "error")
           p == Failed(run)
           task == Task("error", Top.data, {})
           n == Top.node
<1>1. Turn
  BY DEF NodeFails
<1>2. run.status = "running" /\ n \in Nodes /\ task \in Tasks /\ TypeOK(run)
  BY <1>1, TurnFacts
<1>3. TypeOK(q) /\ RanShape(run, q, n, task) /\ q.stack = run.stack /\ Ran(run, n, task) = q
  BY <1>1, TriedFacts
<1>4. /\ TypeOK(p) /\ SameHeld(q, p) /\ SameRuns(q, p) /\ p.status = "error" /\ p.marred = q.marred
      /\ q.status = "running" => [p EXCEPT !.status = "running"] = q
  BY <1>3, FailedFacts DEF Failed, SameHeld, SameRuns
<1>5. q.status = "running" /\ q.marred = run.marred
      /\ q.runData = OneMore(run.runData, n, task) /\ q.destination = run.destination
      /\ q.filter = run.filter /\ q.kept = run.kept
  BY <1>2, <1>3 DEF RanShape
<1>6. run' = p /\ row' = Progress(q, n, task)
  BY <1>3, <1>4, <1>5 DEF NodeFails, Failed
<1>7. task.status # "success" /\ task.outs = {}
  BY DEF Task
<1> HIDE DEF q, p, n, task
<1>8. ~run.marred => Sound(q) /\ HandedOn(q) = HandedOn(run)
  BY <1>2, <1>3, <1>7, TriedHolds DEF HoldInv
<1>9. ~run.marred => Sound(p)
  BY <1>4, <1>8, SameHeldSound
<1>10. SameRuns(p, q)
  BY <1>4 DEF SameRuns
<1>11. p.runData = OneMore(run.runData, n, task) /\ p.destination = run.destination
       /\ p.filter = run.filter /\ p.kept = run.kept
  BY <1>4, <1>5 DEF SameRuns
<1>12. HoldInv(p, Progress(q, n, task))
  BY <1>2, <1>3, <1>4, <1>5, <1>8, <1>9, <1>10, <1>11, ProgressHolds
<1>13. ~run.marred => HandedOn(p) = HandedOn(run)
  BY <1>4, <1>8, SameHandedOn
<1>14. p.marred = run.marred
  BY <1>4, <1>5
<1> QED
  BY <1>6, <1>12, <1>13, <1>14 DEF HandsOnNothing

\* A node waits, and stays on the stack.
LEMMA NodeWaitsHold ==
    ASSUME workflow \in Workflows, StandInv(run, row), HoldInv(run, row), NodeWaits
    PROVE  HoldInv(run', row') /\ HandsOnNothing(run, run')
<1> DEFINE t == Tried(run, "waiting")
           task == Task("waiting", Top.data, {})
           n == Top.node
           xs == Waiter(run)
           p == Pause(t, xs)
           q == PauseSave(t, xs, Tail(run.stack))
<1>1. Turn
  BY DEF NodeWaits
<1>2. /\ run.status = "running" /\ n \in Nodes /\ task \in Tasks /\ TypeOK(run)
      /\ Tail(run.stack) \in Seq(Items) /\ xs \in SUBSET (Nodes \X Data)
  BY <1>1, TurnFacts, WaiterFacts
<1>3. /\ run' = p /\ row' = Progress(q, n, task)
      /\ TypeOK(t) /\ RanShape(run, t, n, task) /\ t.stack = run.stack
  BY WaitIs
<1>4. task.status # "success" /\ task.outs = {}
  BY DEF Task
<1> HIDE DEF t, n, task, xs
<1>5. ~run.marred => Sound(t) /\ HandedOn(t) = HandedOn(run)
  BY <1>2, <1>3, <1>4, TriedHolds DEF HoldInv
<1>6. /\ TypeOK(p) /\ PausedShape(t, p, xs)
      /\ TypeOK(q) /\ PauseSavedShape(t, q, xs, Tail(run.stack))
  BY <1>2, <1>3, PausedFacts
<1> HIDE DEF p, q
<1>7. SameHeld(t, p) /\ SameRuns(t, p) /\ p.status = "waiting" /\ p.marred = t.marred
  BY <1>6 DEF PausedShape, SameHeld, SameRuns
<1>8. ~run.marred => Sound(p) /\ HandedOn(p) = HandedOn(run)
  BY <1>5, <1>7, SameHeldSound
<1>9. /\ q.status = "running" /\ q.marred = run.marred /\ p.marred = run.marred
      /\ p.runData = OneMore(run.runData, n, task) /\ p.destination = run.destination
      /\ p.filter = run.filter /\ p.kept = run.kept
  BY <1>2, <1>3, <1>6, <1>7 DEF RanShape, PauseSavedShape, SameRuns
<1>10. HoldInv(p, Progress(q, n, task))
  BY <1>2, <1>6, <1>7, <1>8, <1>9, ProgressHolds
<1> QED
  BY <1>3, <1>8, <1>9, <1>10 DEF HandsOnNothing

\* How an execution stands has no part in what it holds.
LEMMA SameButSound ==
    ASSUME NEW r, NEW q, SameBut(r, q)
    PROVE  (Sound(r) => Sound(q)) /\ HandedOn(q) = HandedOn(r)
<1>1. SameHeld(r, q) /\ SameRuns(r, q)
  BY DEF SameBut, SameHeld, SameRuns
<1> QED
  BY <1>1, SameHeldSound, SameHandedOn

\* The execution ends.
LEMMA FinishHold ==
    ASSUME workflow \in Workflows, StandInv(run, row), HoldInv(run, row), Finish
    PROVE  HoldInv(run', row') /\ HandsOnNothing(run, run')
<1>1. SameBut(run, run') /\ SameBut(run, row') /\ run'.marred = run.marred /\ row'.marred = run.marred
  BY FinishStand
<1>2. (Sound(run) => Sound(run') /\ Sound(row')) /\ HandedOn(row') = HandedOn(run')
      /\ HandedOn(run') = HandedOn(run)
  BY <1>1, SameButSound
<1> QED
  BY <1>1, <1>2 DEF HoldInv, HandsOnNothing

\* The process ends, and the row is left as it is.
LEMMA CrashHold ==
    ASSUME workflow \in Workflows, StandInv(run, row), HoldInv(run, row), Crash
    PROVE  HoldInv(run', row') /\ HandsOnNothing(run, run')
<1>1. /\ SameBut(run, run') /\ SameBut(row, row') /\ run'.marred = run.marred
      /\ row'.marred = (row.marred \/ OutOfStep(run, row))
  BY CrashStand
<1>2. /\ Sound(run) => Sound(run')
      /\ Sound(row) => Sound(row')
      /\ HandedOn(run') = HandedOn(run) /\ HandedOn(row') = HandedOn(row)
  BY <1>1, SameButSound
<1>3. ~row'.marred => ~row.marred /\ ~OutOfStep(run, row)
  BY <1>1
<1> QED
  BY <1>1, <1>2, <1>3 DEF HoldInv, HandsOnNothing

\* What a restart does to the data keeps what it holds.
LEMMA RestartHolds ==
    ASSUME workflow \in Workflows, NEW r, TypeOK(r), r.waitTill => r.stack # << >>,
           Sound(r), WaitIsOnTop(r)
    PROVE  Sound(Restarted(r)) /\ HandedOn(Restarted(r)) = HandedOn(r)
<1> DEFINE q == Restarted(r)
<1>1. TypeOK(q) /\ RestartShape(r, q)
  BY RestartFacts
<1> HIDE DEF q
<1>2. /\ q.waiting = r.waiting /\ q.order = r.order /\ q.destination = r.destination
      /\ q.filter = r.filter /\ q.kept = r.kept /\ q.silent = r.silent /\ q.misplaced = r.misplaced
  <2>1. FullLength(r.waiting)
    BY DEF Sound, InOrder
  <2>2. q.waiting = r.waiting
    BY <1>1, <2>1, ReadWaitingFacts DEF RestartShape
  <2> QED
    BY <1>1, <2>2 DEF RestartShape
<1>3. /\ OnStack(q.stack) = OnStack(r.stack)
      /\ \A i \in DOMAIN q.stack : i \in DOMAIN r.stack /\ q.stack[i].node = r.stack[i].node
  <2>1. r.stack \in Seq(Items)
    BY DEF TypeOK, Records
  <2>2. q.stack = TakenUp(r)
    BY <1>1 DEF RestartShape
  <2>3. q.stack \in Seq(Items) /\ SameItems(r.stack, q.stack)
    BY <2>1, <2>2, TakenUpFacts
  <2> QED
    BY <2>1, <2>3, SameItemsHoldTheSame
<1>4. ToCome(q) \subseteq ToCome(r)
  BY <1>2, <1>3 DEF ToCome
<1>5. CASE r.waitTill
  <2>1. q.runData = LastTaken(r.runData, r.last)
    BY <1>1, <1>5 DEF RestartShape
  <2>2. /\ r.last \in Nodes /\ r.runData[r.last] # << >>
        /\ Last(r.runData[r.last]).status # "success"
    BY <1>5 DEF WaitIsOnTop
  <2>3. Sound(q) /\ HandedOn(q) = HandedOn(r)
    BY <1>1, <1>2, <1>3, <1>4, <2>1, <2>2, TakenHolds
  <2> QED
    BY <2>3 DEF q
<1>6. CASE ~r.waitTill
  <2>1. q.runData = r.runData /\ SameRuns(r, q)
    BY <1>1, <1>2, <1>6 DEF RestartShape, SameRuns
  <2>2. Contents(q) = Contents(r)
    BY <1>2, <1>3, <2>1 DEF Contents
  <2>3. Sound(q) /\ HandedOn(q) = HandedOn(r)
    BY <1>2, <1>4, <2>1, <2>2, SameSound
  <2> QED
    BY <2>3 DEF q
<1> QED
  BY <1>5, <1>6

\* A waiting execution is taken up.
LEMMA ResumeHold ==
    ASSUME workflow \in Workflows, StandInv(run, row), HoldInv(run, row), ResumeByTimer \/ ResumeByWebhook
    PROVE  HoldInv(run', row') /\ HandsOnNothing(run, run')
<1>1. /\ run' = Restarted(row) /\ (SameBut(row, row') \/ row' = run')
      /\ row.status # "running" /\ (row.waitTill => row.stack # <<>>) /\ row'.marred = row.marred
  BY ResumeStand
<1>2. TypeOK(row) /\ ~OutOfStep(run, row)
  BY <1>1 DEF StandInv, OutOfStep
<1>3. run'.marred = row.marred
  BY <1>1, <1>2, RestartFacts DEF RestartShape
<1>4. ASSUME ~row.marred
      PROVE  Sound(run') /\ HandedOn(run') = HandedOn(row) /\ Sound(row)
             /\ HandedOn(row) \subseteq HandedOn(run)
  <2>1. Sound(row) /\ WaitIsOnTop(row) /\ HandedOn(row) \subseteq HandedOn(run)
    BY <1>2, <1>4 DEF StandInv, HoldInv
  <2> QED
    BY <1>1, <1>2, <2>1, RestartHolds
<1>5. ASSUME ~row.marred PROVE Sound(row') /\ HandedOn(row') \subseteq HandedOn(run')
  <2>1. CASE row' = run'
    BY <1>4, <1>5, <2>1
  <2>2. CASE SameBut(row, row')
    BY <1>4, <1>5, <2>2, SameButSound
  <2> QED
    BY <1>1, <2>1, <2>2
<1> QED
  BY <1>1, <1>3, <1>4, <1>5 DEF HoldInv, HandsOnNothing

\* So does a retry.
LEMMA RetriedHolds ==
    ASSUME workflow \in Workflows, NEW r, TypeOK(r), Sound(r)
    PROVE  Sound(Retried(r)) /\ HandedOn(Retried(r)) = HandedOn(r)
<1> DEFINE q == Retried(r)
<1>1. TypeOK(q) /\ RetriedShape(r, q)
  BY RetriedFacts
<1> HIDE DEF q
<1>2. /\ q.stack = r.stack /\ q.waiting = r.waiting /\ q.order = r.order
      /\ q.destination = r.destination /\ q.filter = r.filter /\ q.kept = r.kept
      /\ q.silent = r.silent /\ q.misplaced = r.misplaced
  BY <1>1 DEF RetriedShape
<1>3. CASE EndsInError(r)
  <2>1. q.runData = LastTaken(r.runData, r.last)
    BY <1>1, <1>3 DEF RetriedShape
  <2>2. r.last \in Nodes
    BY <1>3 DEF EndsInError, TypeOK, Records
  <2>3. r.runData[r.last] # << >> /\ Last(r.runData[r.last]).status # "success"
    BY <1>3 DEF EndsInError
  <2>4. ToCome(q) \subseteq ToCome(r)
    BY <1>2 DEF ToCome
  <2>5. Sound(q) /\ HandedOn(q) = HandedOn(r)
    BY <1>1, <1>2, <2>1, <2>2, <2>3, <2>4, TakenHolds
  <2> QED
    BY <2>5 DEF q
<1>4. CASE ~EndsInError(r)
  <2>1. SameHeld(r, q) /\ SameRuns(r, q)
    BY <1>1, <1>2, <1>4 DEF RetriedShape, SameHeld, SameRuns
  <2> QED
    BY <2>1, SameHeldSound DEF q
<1> QED
  BY <1>3, <1>4

\* A failed execution is retried.
LEMMA RetryHold ==
    ASSUME workflow \in Workflows, StandInv(run, row), HoldInv(run, row), Retry
    PROVE  HoldInv(run', row') /\ HandsOnNothing(run, run')
<1> DEFINE data == Retried(row)
<1>1. /\ run' = Restarted(data) /\ row' = data /\ TypeOK(data) /\ RetriedShape(row, data)
      /\ row.status # "running" /\ (data.waitTill => data.stack # <<>>)
      /\ ~data.marred => WaitIsOnTop(data)
  BY RetryStand
<1>2. TypeOK(row) /\ ~OutOfStep(run, row)
  BY <1>1 DEF StandInv, OutOfStep
<1>3. ASSUME ~row.marred PROVE Sound(data) /\ HandedOn(data) \subseteq HandedOn(run)
  <2>1. Sound(row) /\ HandedOn(row) \subseteq HandedOn(run)
    BY <1>2, <1>3 DEF HoldInv
  <2> QED
    BY <1>2, <2>1, RetriedHolds
<1> HIDE DEF data
<1>4. data.marred = row.marred
  BY <1>1 DEF RetriedShape
<1>5. run'.marred = data.marred
  BY <1>1, RestartFacts DEF RestartShape
<1>6. ASSUME ~row.marred PROVE Sound(run') /\ HandedOn(run') = HandedOn(data)
  BY <1>1, <1>3, <1>4, <1>6, RestartHolds
<1> QED
  BY <1>1, <1>3, <1>4, <1>5, <1>6 DEF HoldInv, HandsOnNothing

-----------------------------------------------------------------------------
(* The invariant, in every state *)

\* The invariant is about the run and the row, whatever step they come from.
LEMMA HoldTransfers ==
    ASSUME workflow' = workflow, HoldInv(run', row')
    PROVE  HoldInv(run, row)'
<1>1. \A n : Inputs(n)' = Inputs(n)
  BY DEF Inputs, LinksTo
<1>2. \A n : Ancestors(n)' = Ancestors(n)
  BY DEF Ancestors, Closed, LinksTo
<1>3. Acyclic' <=> Acyclic
  BY <1>2 DEF Acyclic
<1>4. Contents(run)' = Contents(run')
  BY DEF Contents, OnStack, InWaiting, InRuns, InSilent, Held
<1>5. HandedOn(run)' = HandedOn(run')
  BY DEF HandedOn, Followed
<1>6. Sourced(run)' <=> Sourced(run')
  BY <1>4 DEF Sourced, Known
<1>7. EachOnce(run)' <=> EachOnce(run')
  BY <1>4, <1>5 DEF EachOnce, Once, Has, Carries
<1>8. InOrder(run)' <=> InOrder(run')
  BY <1>1, <1>4 DEF InOrder, FullLength, Waits, Before, Paired, SameSource
<1>9. NothingAbove(run)' <=> NothingAbove(run')
  BY <1>2, <1>3, <1>4 DEF NothingAbove, Short, ToCome, Waits
<1>10. Sound(run)' <=> Sound(run')
  BY <1>6, <1>7, <1>8, <1>9 DEF Sound
<1>11. Contents(row)' = Contents(row')
  BY DEF Contents, OnStack, InWaiting, InRuns, InSilent, Held
<1>12. HandedOn(row)' = HandedOn(row')
  BY DEF HandedOn, Followed
<1>13. Sourced(row)' <=> Sourced(row')
  BY <1>11 DEF Sourced, Known
<1>14. EachOnce(row)' <=> EachOnce(row')
  BY <1>11, <1>12 DEF EachOnce, Once, Has, Carries
<1>15. InOrder(row)' <=> InOrder(row')
  BY <1>1, <1>11 DEF InOrder, FullLength, Waits, Before, Paired, SameSource
<1>16. NothingAbove(row)' <=> NothingAbove(row')
  BY <1>2, <1>3, <1>11 DEF NothingAbove, Short, ToCome, Waits
<1>17. Sound(row)' <=> Sound(row')
  BY <1>13, <1>14, <1>15, <1>16 DEF Sound
<1>18. OutOfStep(run, row)' <=> OutOfStep(run', row')
  BY DEF OutOfStep
<1> QED
  BY <1>10, <1>17, <1>5, <1>12, <1>18 DEF HoldInv

\* An execution that has not run anything.
LEMMA FreshSound ==
    ASSUME workflow \in Workflows, NEW r, TypeOK(r), \A n \in Nodes : r.runData[n] = << >> /\ r.waiting[n] = << >>,
           r.silent = {}, r.order = << >>,
           \A i \in DOMAIN r.stack : r.stack[i].data = [j \in {0} |-> Given]
    PROVE  Sound(r) /\ HandedOn(r) = {}
<1>1. \A c \in Contents(r) : c.data = [j \in {0} |-> Given] /\ ~Waits(c)
  <2>0. \A n \in Nodes : DOMAIN r.waiting[n] = {} /\ DOMAIN r.runData[n] = {}
    OBVIOUS
  <2>1. InWaiting(r.waiting) = {} /\ InRuns(r.runData) = {} /\ InSilent(r.silent) = {}
    BY <2>0, InWaitingIs, InRunsIs, InSilentIs
  <2>2. Contents(r) = OnStack(r.stack)
    BY <2>1 DEF Contents
  <2>3. ASSUME NEW c \in OnStack(r.stack) PROVE c.data = [j \in {0} |-> Given] /\ ~Waits(c)
    <3>1. PICK i \in DOMAIN r.stack : c = Held(<<"stack", Len(r.stack) + 1 - i>>, r.stack[i].node, r.stack[i].data)
      BY OnStackIs
    <3> QED
      BY <3>1 DEF Held, Waits
  <2> QED
    BY <2>2, <2>3
<1>2. Given \notin AllBatches /\ Given # Empty
  BY EngineAssumption
<1>3. \A c \in Contents(r) : DOMAIN c.data = {0} /\ c.data[0] = Given
  BY <1>1
<1>4. Sourced(r)
  BY <1>2, <1>3 DEF Sourced
<1>5. HandedOn(r) = {}
  <2> SUFFICES ASSUME NEW h \in HandedOn(r) PROVE FALSE
    OBVIOUS
  <2>1. PICK l \in Followed(r) : \E k \in DOMAIN r.runData[l.from] : l.output \in r.runData[l.from][k].outs
    BY HandedOnAre
  <2>2. l.from \in Nodes
    BY GraphFacts DEF Followed, Links
  <2> QED
    BY <2>1, <2>2
<1>6. InOrder(r)
  <2>1. ASSUME NEW c \in Contents(r), NEW d \in Contents(r) PROVE Paired(c.data, d.data)
    <3>1. \A i \in DOMAIN c.data \cap DOMAIN d.data : ~SameSource(c.data[i], d.data[i])
      BY <1>3 DEF SameSource
    <3> QED
      BY <3>1 DEF Paired
  <2> QED
    BY <1>1, <2>1 DEF InOrder, FullLength
<1>7. Short(r) = {}
  BY <1>2, <1>3 DEF Short, Range
<1> QED
  BY <1>4, <1>5, <1>6, <1>7 DEF Sound, EachOnce, NothingAbove

\* The first state.
LEMMA HoldInit ==
    ASSUME Init
    PROVE  HoldInv(run, row)
<1> DEFINE item == Item(Start, [i \in {0} |-> Given])
           started == [Blank EXCEPT !.stack = <<item>>]
           Fresh(r) == /\ \A n \in Nodes : r.runData[n] = << >> /\ r.waiting[n] = << >>
                       /\ r.silent = {} /\ r.order = << >>
                       /\ \A i \in DOMAIN r.stack : r.stack[i].data = [j \in {0} |-> Given]
<1>1. workflow \in Workflows /\ TypeOK(run) /\ TypeOK(row)
  BY StandingInit DEF Standing, StandInv
<1>2. /\ \A n \in Nodes : Blank.runData[n] = << >> /\ Blank.waiting[n] = << >>
      /\ Blank.silent = {} /\ Blank.order = << >> /\ Blank.stack = << >>
  BY DEF Blank
<1>3. /\ started.runData = Blank.runData /\ started.waiting = Blank.waiting
      /\ started.silent = Blank.silent /\ started.order = Blank.order /\ started.stack = <<item>>
  <2> HIDE DEF item
  <2> QED BY DEF Blank
<1>4. /\ run.runData = started.runData /\ run.waiting = started.waiting
      /\ run.silent = started.silent /\ run.order = started.order /\ run.stack = started.stack
  <2>1. CASE run = [started EXCEPT !.stored = TRUE]
    <3> HIDE DEF item
    <3> QED BY <2>1 DEF Blank
  <2>2. ASSUME NEW d, run = [started EXCEPT !.destination = d, !.filter = Ancestors(d) \cup {d}]
        PROVE  /\ run.runData = started.runData /\ run.waiting = started.waiting
               /\ run.silent = started.silent /\ run.order = started.order /\ run.stack = started.stack
    <3> DEFINE f == Ancestors(d) \cup {d}
    <3> HIDE DEF item, f
    <3>1. run = [started EXCEPT !.destination = d, !.filter = f]
      BY <2>2 DEF f
    <3> QED BY <3>1 DEF Blank
  <2> QED
    BY <2>1, <2>2 DEF Init
<1>5. \A i \in DOMAIN <<item>> : <<item>>[i].data = [j \in {0} |-> Given]
  <2>1. item.data = [j \in {0} |-> Given]
    BY DEF Item
  <2> HIDE DEF item
  <2> QED BY <2>1
<1> HIDE DEF item, started
<1>6. Fresh(run) /\ Fresh(Blank)
  BY <1>2, <1>3, <1>4, <1>5
<1>7. Sound(run)
  BY <1>1, <1>6, FreshSound
<1>8. CASE row = run
  BY <1>7, <1>8 DEF HoldInv
<1>9. CASE row = Blank
  <2>1. Sound(row) /\ HandedOn(row) = {}
    BY <1>1, <1>6, <1>9, FreshSound
  <2> QED
    BY <1>7, <2>1 DEF HoldInv
<1> QED
  BY <1>8, <1>9 DEF Init

\* Every step.
LEMMA IInvNext ==
    ASSUME IInv, [Next]_vars
    PROVE  IInv'
<1>1. workflow \in Workflows /\ StandInv(run, row) /\ HoldInv(run, row)
  BY DEF IInv
<1>2. Standing'
  BY <1>1, StandingNext DEF Standing
<1>3. HoldInv(run, row)'
  <2>1. CASE UNCHANGED vars
    <3>1. workflow' = workflow /\ HoldInv(run', row')
      BY <1>1, <2>1 DEF vars
    <3> QED
      BY <3>1, HoldTransfers
  <2>2. CASE Next
    <3>1. workflow' = workflow
      BY <2>2 DEF Next, NodeSucceeds, DestinationSucceeds, Turn, PassOver, NodeReturnsNothing,
                  NodeFails, NodeWaits, Finish, Crash, ResumeByTimer, ResumeByWebhook, Retry
    <3>2. HoldInv(run', row')
      BY <1>1, <2>2, NodeSucceedsHold, DestinationSucceedsHold, PassOverHold, NodeReturnsNothingHold,
         NodeFailsHold, NodeWaitsHold, FinishHold, CrashHold, ResumeHold, RetryHold DEF Next
    <3> QED
      BY <3>1, <3>2, HoldTransfers
  <2> QED
    BY <2>1, <2>2
<1> QED
  BY <1>2, <1>3 DEF IInv, Standing

\* What the stack, the waiting entries, the runs and the silent runs of an execution hold, in the
\* process and in the row: each batch that has been handed on once, entries in the order in
\* which they have been put together, and nothing above a node that has run without some input.
THEOREM IInvAlways == Spec => []IInv
<1>1. Init => IInv
  BY StandingInit, HoldInit DEF Standing, IInv
<1>2. IInv /\ [Next]_vars => IInv'
  BY IInvNext
<1> QED
  BY <1>1, <1>2, PTL DEF Spec

-----------------------------------------------------------------------------
(* What follows from the invariant *)

\* Of the four parts, an element that is there once is in one, and there once.
LEMMA OneOf ==
    ASSUME NEW S, NEW x \in S, \A y \in S : y = x
    PROVE  Cardinality(S) = 1
<1>1. S = {x}
  OBVIOUS
<1> QED
  BY <1>1, FS_Singleton

\* Of a part without elements there are none.
LEMMA NoneOf ==
    ASSUME NEW S, \A y \in S : FALSE
    PROVE  Cardinality(S) = 0
<1>1. S = {}
  OBVIOUS
<1> QED
  BY <1>1, FS_EmptySet

\* A batch that one element has is counted in one place.
LEMMA OnceIsOnePlace ==
    ASSUME NEW r, TypeOK(r), NEW l, l.to \in Nodes, l.input \in Inputs(l.to), NEW b, Once(r, l, b)
    PROVE  PlacesOf(r, l, b) = 1
<1> DEFINE n == l.to
           A == {i \in DOMAIN r.stack : r.stack[i].node = n /\ Carries(r.stack[i].data, l.input, b)}
           B == {k \in DOMAIN r.waiting[n] : Carries(r.waiting[n][k], l.input, b)}
           C == {k \in Succeeded(r, n) : Carries(r.runData[n][k].data, l.input, b)}
           D == {x \in r.silent : x.node = n /\ Carries(x.data, l.input, b)}
           a(i) == Held(<<"stack", Len(r.stack) + 1 - i>>, r.stack[i].node, r.stack[i].data)
           w(k) == Held(<<"waiting", n, k>>, n, r.waiting[n][k])
           d(k) == Held(<<"run", n, k>>, n, r.runData[n][k].data)
           s(x) == Held(<<"silent", x>>, x.node, x.data)
<1>1. PICK c \in Contents(r) : Has(c, l, b) /\ \A e \in Contents(r) : Has(e, l, b) => e = c
  BY DEF Once
<1>2. r.stack \in Seq(Items)
  BY DEF TypeOK, Records
<1>4. \A i \in A : a(i) = c
  <2> SUFFICES ASSUME NEW i \in A PROVE a(i) = c
    OBVIOUS
  <2>1. a(i) \in Contents(r)
    BY OnStackIs DEF Contents
  <2>2. Has(a(i), l, b)
    BY DEF Has, Held
  <2> HIDE DEF a
  <2> QED
    BY <1>1, <2>1, <2>2
<1>5. \A k \in B : w(k) = c
  <2> SUFFICES ASSUME NEW k \in B PROVE w(k) = c
    OBVIOUS
  <2>1. w(k) \in Contents(r)
    BY InWaitingIs DEF Contents
  <2>2. Has(w(k), l, b)
    BY DEF Has, Held, Carries
  <2> HIDE DEF w
  <2> QED
    BY <1>1, <2>1, <2>2
<1>6. \A k \in C : d(k) = c
  <2> SUFFICES ASSUME NEW k \in C PROVE d(k) = c
    OBVIOUS
  <2>1. d(k) \in Contents(r)
    BY InRunsIs DEF Contents, Succeeded
  <2>2. Has(d(k), l, b)
    BY DEF Has, Held
  <2> HIDE DEF d
  <2> QED
    BY <1>1, <2>1, <2>2
<1>7. \A x \in D : s(x) = c
  <2> SUFFICES ASSUME NEW x \in D PROVE s(x) = c
    OBVIOUS
  <2>1. s(x) \in Contents(r)
    BY InSilentIs DEF Contents
  <2>2. Has(s(x), l, b)
    BY DEF Has, Held
  <2> HIDE DEF s
  <2> QED
    BY <1>1, <2>1, <2>2
<1>8. /\ \A i \in A : c.at = <<"stack", Len(r.stack) + 1 - i>>
      /\ \A k \in B : c.at = <<"waiting", n, k>>
      /\ \A k \in C : c.at = <<"run", n, k>>
      /\ \A x \in D : c.at = <<"silent", x>>
  BY <1>4, <1>5, <1>6, <1>7 DEF Held
<1>9. /\ \A i \in A : i \in 1..Len(r.stack) /\ Len(r.stack) \in Nat
      /\ \A i \in A : c.at[1] = "stack" /\ c.at[2] = Len(r.stack) + 1 - i
      /\ \A k \in B : c.at[1] = "waiting" /\ c.at[3] = k
      /\ \A k \in C : c.at[1] = "run" /\ c.at[3] = k
      /\ \A x \in D : c.at[1] = "silent" /\ c.at[2] = x
  BY <1>2, <1>8
<1>10. \/ \E i \in DOMAIN r.stack : c = a(i)
       \/ \E m \in Nodes : \E k \in DOMAIN r.waiting[m] : c = Held(<<"waiting", m, k>>, m, r.waiting[m][k])
       \/ \E m \in Nodes : \E k \in DOMAIN r.runData[m] :
             r.runData[m][k].status = "success" /\ c = Held(<<"run", m, k>>, m, r.runData[m][k].data)
       \/ \E x \in r.silent : c = s(x)
  <2>1. \/ c \in OnStack(r.stack) \/ c \in InWaiting(r.waiting)
        \/ c \in InRuns(r.runData) \/ c \in InSilent(r.silent)
    BY <1>1 DEF Contents
  <2>2. CASE c \in OnStack(r.stack)
    BY <2>2, OnStackIs
  <2>3. CASE c \in InWaiting(r.waiting)
    BY <2>3, InWaitingIs
  <2>4. CASE c \in InRuns(r.runData)
    BY <2>4, InRunsIs
  <2>5. CASE c \in InSilent(r.silent)
    BY <2>5, InSilentIs
  <2> QED
    BY <2>1, <2>2, <2>3, <2>4, <2>5
<1>11. (\E i \in A : TRUE) \/ (\E k \in B : TRUE) \/ (\E k \in C : TRUE) \/ (\E x \in D : TRUE)
  <2>1. c.node = n /\ Carries(c.data, l.input, b)
    BY <1>1 DEF Has
  <2>2. ASSUME NEW i \in DOMAIN r.stack, c = a(i) PROVE i \in A
    BY <2>1, <2>2 DEF Held
  <2>3. ASSUME NEW m \in Nodes, NEW k \in DOMAIN r.waiting[m], c = Held(<<"waiting", m, k>>, m, r.waiting[m][k])
        PROVE  k \in B
    BY <2>1, <2>3 DEF Held, Carries
  <2>4. ASSUME NEW m \in Nodes, NEW k \in DOMAIN r.runData[m], r.runData[m][k].status = "success",
               c = Held(<<"run", m, k>>, m, r.runData[m][k].data)
        PROVE  k \in C
    BY <2>1, <2>4 DEF Held, Succeeded
  <2>5. ASSUME NEW x \in r.silent, c = s(x) PROVE x \in D
    BY <2>1, <2>5 DEF Held
  <2> HIDE DEF A, B, C, D, a, s
  <2> QED
    BY <1>10, <2>2, <2>3, <2>4, <2>5
<1>12. PlacesOf(r, l, b) = Cardinality(A) + Cardinality(B) + Cardinality(C) + Cardinality(D)
  BY DEF PlacesOf
<1> HIDE DEF A, B, C, D, n
<1>13. CASE \E i \in A : TRUE
  <2>0. PICK i \in A : TRUE
    BY <1>13
  <2>1. ASSUME NEW j \in A PROVE j = i
    <3>1. i \in Int /\ j \in Int /\ Len(r.stack) \in Int
      BY <1>9, <2>0
    <3>2. Len(r.stack) + 1 - i = Len(r.stack) + 1 - j
      BY <1>9, <2>0
    <3> QED
      BY <3>1, <3>2
  <2>2. (\A k \in B : FALSE) /\ (\A k \in C : FALSE) /\ (\A x \in D : FALSE)
    BY <1>9, <1>13
  <2>3. Cardinality(A) = 1
    BY <2>0, <2>1, OneOf
  <2> QED
    BY <1>12, <2>2, <2>3, NoneOf
<1>14. CASE \E k \in B : TRUE
  <2>1. PICK k \in B : \A j \in B : j = k
    BY <1>9, <1>14
  <2>2. (\A i \in A : FALSE) /\ (\A j \in C : FALSE) /\ (\A x \in D : FALSE)
    BY <1>9, <1>14
  <2> QED
    BY <1>12, <2>1, <2>2, OneOf, NoneOf
<1>15. CASE \E k \in C : TRUE
  <2>1. PICK k \in C : \A j \in C : j = k
    BY <1>9, <1>15
  <2>2. (\A i \in A : FALSE) /\ (\A j \in B : FALSE) /\ (\A x \in D : FALSE)
    BY <1>9, <1>15
  <2> QED
    BY <1>12, <2>1, <2>2, OneOf, NoneOf
<1>16. CASE \E x \in D : TRUE
  <2>1. PICK x \in D : \A y \in D : y = x
    BY <1>9, <1>16
  <2>2. (\A i \in A : FALSE) /\ (\A j \in B : FALSE) /\ (\A k \in C : FALSE)
    BY <1>9, <1>16
  <2> QED
    BY <1>12, <2>1, <2>2, OneOf, NoneOf
<1> QED
  BY <1>11, <1>13, <1>14, <1>15, <1>16

\* Every batch that a node has handed on (addNodeToBeExecuted) is in one place: none is lost and
\* none is processed twice, across failures, waits, crashes and retries, unless the process
\* ended when the row was out of step or entries have been numbered over one another.
THEOREM BatchesKeptAlways == Spec => []BatchesKept
<1>1. ASSUME IInv PROVE BatchesKept
  <2> USE <1>1 DEF IInv
  <2> SUFFICES ASSUME NEW h \in HandedOn(run), h[1].to \notin run.misplaced, ~run.marred
               PROVE  PlacesOf(run, h[1], h[2]) = 1
    BY DEF BatchesKept
  <2>1. TypeOK(run) /\ Sound(run)
    BY DEF StandInv, HoldInv
  <2>2. h[1] \in workflow.links /\ h[1] \in Links
    BY <2>1, HandedOnFacts
  <2>3. h[1].to \in Nodes /\ h[1].input \in Inputs(h[1].to)
    BY <2>2, InputsFacts DEF Links
  <2>4. Once(run, h[1], h[2])
    BY <2>1 DEF Sound, EachOnce
  <2> QED
    BY <2>1, <2>3, <2>4, OnceIsOnePlace
<1> QED
  BY <1>1, IInvAlways, PTL

\* What a node with several inputs gets from two rounds of a loop is not mixed, in its waiting entries
\* (addNodeToBeExecuted takes the first that lacks the input) and in its runs.
THEOREM PairedInOrderAlways == Spec => []PairedInOrder
<1>1. ASSUME IInv PROVE PairedInOrder
  <2> USE <1>1 DEF IInv
  <2> DEFINE of(n) == Entries(run, n) \cup {run.runData[n][k].data : k \in Succeeded(run, n)}
  <2>1. ASSUME NEW n \in Nodes \ run.misplaced, ~run.marred, NEW x \in of(n), NEW y \in of(n)
        PROVE  Paired(x, y)
    <3>1. InOrder(run)
      BY <2>1 DEF HoldInv, Sound
    <3>2. \A z \in of(n) : \E c \in Contents(run) : c.node = n /\ c.data = z
      <4>1. ASSUME NEW k \in DOMAIN run.waiting[n]
            PROVE  \E c \in Contents(run) : c.node = n /\ c.data = run.waiting[n][k]
        BY EntryIsHeld
      <4>2. ASSUME NEW k \in Succeeded(run, n)
            PROVE  \E c \in Contents(run) : c.node = n /\ c.data = run.runData[n][k].data
        <5> DEFINE c == Held(<<"run", n, k>>, n, run.runData[n][k].data)
        <5>1. c \in InRuns(run.runData)
          BY InRunsIs DEF Succeeded
        <5>2. c.node = n /\ c.data = run.runData[n][k].data
          BY DEF Held
        <5> HIDE DEF c
        <5> QED
          BY <5>1, <5>2 DEF Contents
      <4> QED
        BY <4>1, <4>2 DEF Entries
    <3> HIDE DEF of
    <3>3. PICK c \in Contents(run) : c.node = n /\ c.data = x
      BY <3>2
    <3>4. PICK d \in Contents(run) : d.node = n /\ d.data = y
      BY <3>2
    <3> QED
      BY <3>1, <3>3, <3>4 DEF InOrder
  <2> QED
    BY <2>1 DEF PairedInOrder, Paired, SameSource
<1> QED
  BY <1>1, IInvAlways, PTL

\* Once a node has been run without some of its input, no step sends it anything: the search for
\* waiting nodes that may run anyway (the ancestors that wait too) does not give up too early.
THEOREM NoLateDataAlways == Spec => NoLateData
<1> DEFINE Late == \A n \in RanShort(run) \cap RanShort(run') : Acyclic /\ ~run'.marred =>
                      \A h \in HandedOn(run') \ HandedOn(run) : h[1].to # n
<1>1. ASSUME IInv, [Next]_vars PROVE [Late]_vars
  <2> USE <1>1 DEF IInv
  <2>1. CASE HandsOnNothing(run, run')
    BY <2>1 DEF HandsOnNothing
  <2>2. ASSUME NEW outs, NodeSucceeds(outs) PROVE Late
    <3> DEFINE added == Added(run, outs)
               ran == Passed(run, outs)
               task == Task("success", Top.data, outs)
               p == RunWaiting(added)
               m == Top.node
               X == ToHand(m, Len(run.runData[m]), task.outs)
    <3>1. Turn /\ outs \in Outcomes(Top) /\ run' = p
      BY <2>2, SuccessIs
    <3>2. TypeOK(run) /\ m \in Nodes /\ task \in Tasks /\ run.stack # << >> /\ m \in ToCome(run)
      BY <3>1, TurnFacts, TopGoes DEF Top
    <3>3. TypeOK(ran) /\ RanShape(run, ran, m, task) /\ TypeOK(added) /\ Rest(ran, added)
      BY <3>1, AddedFacts
    <3> HIDE DEF added, ran, task, m
    <3>4. Rest(added, p)
      BY <3>3, RunWaitingFacts
    <3> HIDE DEF p
    <3>5. p.marred = run.marred /\ SameRuns(ran, p)
      BY <3>3, <3>4 DEF Rest, RanShape, SameRuns
    <3>6. HandedOn(p) \subseteq HandedOn(run) \cup X
      <4>1. HandsOnMore(run, ran, m, task)
        BY <3>2, <3>3, RunHandsOn DEF RanShape
      <4>2. HandedOn(p) = HandedOn(ran)
        BY <3>5, SameHandedOn
      <4> QED
        BY <4>1, <4>2 DEF HandsOnMore
    <3>7. ASSUME NEW n \in RanShort(run), Acyclic, ~run.marred, NEW h \in X PROVE h[1].to # n
      <4>1. n \in Short(run)
        <5>1. PICK k \in Succeeded(run, n) : Empty \in Range(run.runData[n][k].data)
          BY <3>7 DEF RanShort
        <5>2. n \in Nodes
          BY <3>7 DEF RanShort
        <5> DEFINE c == Held(<<"run", n, k>>, n, run.runData[n][k].data)
        <5>3. c \in InRuns(run.runData)
          BY <5>2, InRunsIs DEF Succeeded
        <5>4. c.node = n /\ c.data = run.runData[n][k].data /\ ~Waits(c)
          BY DEF Held, Waits
        <5> HIDE DEF c
        <5> QED
          BY <5>1, <5>3, <5>4 DEF Contents, Short
      <4>2. m \notin Ancestors(n)
        BY <3>2, <3>7, <4>1 DEF HoldInv, Sound, NothingAbove
      <4>3. h[1] \in workflow.links /\ h[1].from = m
        BY <3>7 DEF ToHand
      <4> QED
        BY <4>2, <4>3, SourceIsAbove
    <3> HIDE DEF X
    <3> QED
      BY <3>1, <3>5, <3>6, <3>7
  <2>3. CASE UNCHANGED vars
    BY <2>3
  <2> QED
    BY <2>1, <2>2, <2>3, DestinationSucceedsHold, PassOverHold, NodeReturnsNothingHold, NodeFailsHold,
       NodeWaitsHold, FinishHold, CrashHold, ResumeHold, RetryHold DEF Next
<1>2. [][Late]_vars <=> NoLateData
  BY DEF NoLateData
<1> HIDE DEF Late
<1> QED
  BY <1>1, <1>2, IInvAlways, PTL DEF Spec
=============================================================================
