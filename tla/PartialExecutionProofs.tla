------------------------ MODULE PartialExecutionProofs ------------------------
(***************************************************************************)
(* Theorems about partial executions, one upon the other, and about what    *)
(* the engine makes of them: the cycles that are found, the nodes started   *)
(* from, how run and row stand, that old results and new are not mixed, and *)
(* that the chosen node is reached.                                        *)
(***************************************************************************)
EXTENDS PartialExecution, WorkflowEngineProofs

-----------------------------------------------------------------------------
(* One after the other *)

\* F[<<k, x>>] is what comes after x in the k-th step; h are the steps from a on.
StepsIn(S) == [Nat \X S -> S]
AreSteps(h, S, a, F) ==
    h \in [Nat -> S] /\ h[0] = a /\ \A k \in Nat : h[k + 1] = F[<<k, h[k]>>]

\* What is computed step by step from a value is there for every number of steps.
LEMMA Iterated ==
    ASSUME NEW S, NEW a \in S, NEW F \in StepsIn(S)
    PROVE  \E h : AreSteps(h, S, a, F)
<1> USE DEF StepsIn, AreSteps
<1> DEFINE Ok(g, n) == /\ g \in [0..n -> S] /\ g[0] = a
                       /\ \A k \in Nat : k + 1 \in 0..n => g[k + 1] = F[<<k, g[k]>>]
           T == {n \in Nat : \E g : Ok(g, n)}
<1>1. 0 \in T
  <2> DEFINE g == [k \in 0..0 |-> a]
  <2>1. g \in [0..0 -> S] /\ g[0] = a /\ \A k \in Nat : k + 1 \notin 0..0
    OBVIOUS
  <2>2. Ok(g, 0)
    BY <2>1
  <2> QED
    BY <2>2
<1>2. ASSUME NEW n \in Nat, n \in T PROVE n + 1 \in T
  <2>1. PICK g : Ok(g, n)
    BY <1>2
  <2> DEFINE e == [k \in 0..(n + 1) |-> IF k = n + 1 THEN F[<<n, g[n]>>] ELSE g[k]]
  <2>2. n \in 0..n /\ g[n] \in S /\ F[<<n, g[n]>>] \in S
    BY <2>1
  <2>3. \A k \in 0..(n + 1) : k # n + 1 => k \in 0..n
    OBVIOUS
  <2>4. e \in [0..(n + 1) -> S] /\ e[0] = a
    BY <2>1, <2>2, <2>3
  <2>5. ASSUME NEW k \in Nat, k + 1 \in 0..(n + 1) PROVE e[k + 1] = F[<<k, e[k]>>]
    <3>1. CASE k = n
      <4>1. e[k] = g[n] /\ e[k + 1] = F[<<n, g[n]>>]
        BY <3>1
      <4> QED
        BY <3>1, <4>1
    <3>2. CASE k # n
      <4>1. k \in 0..n /\ k + 1 \in 0..n /\ k + 1 # n + 1 /\ k # n + 1
        BY <2>5, <3>2
      <4>2. e[k] = g[k] /\ e[k + 1] = g[k + 1]
        BY <4>1
      <4> QED
        BY <2>1, <4>1, <4>2
    <3> QED
      BY <3>1, <3>2
  <2> HIDE DEF e
  <2>6. Ok(e, n + 1)
    BY <2>4, <2>5
  <2> QED
    BY <2>6
<1>3. Nat \subseteq T
  <2> HIDE DEF T
  <2> QED BY <1>1, <1>2, Induct
<1>4. ASSUME NEW m \in Nat, NEW n \in Nat, m <= n, NEW e, Ok(e, m), NEW g, Ok(g, n)
      PROVE  e[m] = g[m]
  <2> DEFINE U == {k \in Nat : k <= m => e[k] = g[k]}
  <2>1. 0 \in U
    BY <1>4
  <2>2. ASSUME NEW k \in Nat, k \in U PROVE k + 1 \in U
    <3> SUFFICES ASSUME k + 1 <= m PROVE e[k + 1] = g[k + 1]
      OBVIOUS
    <3>1. k <= m /\ k + 1 \in 0..m /\ k + 1 \in 0..n
      BY <1>4
    <3>2. e[k] = g[k]
      BY <2>2, <3>1
    <3>3. e[k + 1] = F[<<k, e[k]>>] /\ g[k + 1] = F[<<k, g[k]>>]
      BY <1>4, <3>1
    <3> QED
      BY <3>2, <3>3
  <2>3. Nat \subseteq U
    <3> HIDE DEF U
    <3> QED BY <2>1, <2>2, Induct
  <2> QED
    BY <2>3
<1> DEFINE c == [n \in Nat |-> CHOOSE g : Ok(g, n)]
           h == [n \in Nat |-> c[n][n]]
<1>5. \A n \in Nat : Ok(c[n], n)
  BY <1>3
<1>6. h \in [Nat -> S] /\ h[0] = a
  <2>1. ASSUME NEW n \in Nat PROVE c[n][n] \in S
    <3> HIDE DEF c
    <3>1. n \in 0..n /\ c[n] \in [0..n -> S]
      BY <1>5
    <3> QED
      BY <3>1
  <2> HIDE DEF c
  <2>2. c[0][0] = a
    BY <1>5
  <2> QED
    BY <2>1, <2>2
<1>7. ASSUME NEW k \in Nat PROVE h[k + 1] = F[<<k, h[k]>>]
  <2>1. Ok(c[k], k) /\ Ok(c[k + 1], k + 1) /\ k + 1 \in Nat /\ k <= k + 1
    <3> HIDE DEF c, Ok
    <3> QED BY <1>5
  <2>2. c[k][k] = c[k + 1][k]
    <3> HIDE DEF c, Ok
    <3> QED BY <1>4, <2>1
  <2>3. c[k + 1][k + 1] = F[<<k, c[k + 1][k]>>]
    <3>1. k + 1 \in 0..(k + 1)
      OBVIOUS
    <3> HIDE DEF c
    <3> QED
      BY <2>1, <3>1
  <2> HIDE DEF c, Ok
  <2> QED
    BY <2>1, <2>2, <2>3
<1> HIDE DEF h
<1> QED
  BY <1>6, <1>7
-----------------------------------------------------------------------------
(* What can be reached *)

Next1(links, ns) == ns \cup {l.to : l \in {m \in links : m.from \in ns}}

\* The search goes on from link to link: h[k] is what can be reached in k steps.
Searches(links, ns, h) ==
    /\ h \in [Nat -> SUBSET Nodes]
    /\ h[0] = ns /\ Reach(links, ns) = h[Cardinality(Nodes)]
    /\ \A k \in Nat : h[k + 1] = Next1(links, h[k])

LEMMA ReachIs ==
    ASSUME NEW links, \A l \in links : l.to \in Nodes, NEW ns \in SUBSET Nodes
    PROVE  \E h : Searches(links, ns, h)
<1> DEFINE F == [x \in Nat \X SUBSET Nodes |-> Next1(links, x[2])]
           Eq(f) == f = [k \in Nat |-> IF k = 0 THEN ns ELSE Next1(links, f[k - 1])]
<1>1. F \in [Nat \X SUBSET Nodes -> SUBSET Nodes]
  BY DEF Next1
<1>2. PICK h \in [Nat -> SUBSET Nodes] : h[0] = ns /\ \A k \in Nat : h[k + 1] = F[<<k, h[k]>>]
  <2> DEFINE S == SUBSET Nodes
  <2>1. F \in [Nat \X S -> S] /\ ns \in S
    BY <1>1
  <2> HIDE DEF F, S
  <2>2. \E h : AreSteps(h, S, ns, F)
    BY <2>1, Iterated DEF StepsIn
  <2> QED BY <2>2 DEF S, AreSteps
<1>3. \A k \in Nat : h[k + 1] = Next1(links, h[k])
  <2> SUFFICES ASSUME NEW k \in Nat PROVE h[k + 1] = Next1(links, h[k])
    OBVIOUS
  <2>1. h[k] \in SUBSET Nodes /\ <<k, h[k]>> \in Nat \X SUBSET Nodes
    BY <1>2
  <2>2. h[k + 1] = F[<<k, h[k]>>]
    BY <1>2
  <2> QED
    BY <2>1, <2>2
<1>4. Eq(h)
  <2>1. h = [k \in Nat |-> h[k]]
    BY <1>2
  <2>2. \A k \in Nat : h[k] = IF k = 0 THEN ns ELSE Next1(links, h[k - 1])
    <3> SUFFICES ASSUME NEW k \in Nat, k # 0 PROVE h[k] = Next1(links, h[k - 1])
      BY <1>2
    <3>1. k - 1 \in Nat /\ (k - 1) + 1 = k
      OBVIOUS
    <3> QED
      BY <1>3, <3>1
  <2> QED
    BY <2>1, <2>2
<1> DEFINE it == CHOOSE f : Eq(f)
<1>5. Eq(it)
  BY <1>4
<1>6. Reach(links, ns) = it[Cardinality(Nodes)]
  BY DEF Reach, Next1
<1>7. \A k \in Nat : it[k] = h[k]
  <2> DEFINE T == {k \in Nat : it[k] = h[k]}
  <2> HIDE DEF it
  <2>1. 0 \in T
    BY <1>2, <1>5
  <2>2. ASSUME NEW k \in Nat, k \in T PROVE k + 1 \in T
    <3>1. k + 1 \in Nat /\ k + 1 # 0 /\ (k + 1) - 1 = k
      OBVIOUS
    <3>2. it[k + 1] = Next1(links, it[k])
      BY <1>5, <3>1
    <3> QED
      BY <1>3, <2>2, <3>2
  <2>3. Nat \subseteq T
    <3> HIDE DEF T
    <3> QED BY <2>1, <2>2, Induct
  <2> QED
    BY <2>3
<1>8. Cardinality(Nodes) \in Nat
  BY EngineAssumption, FS_CardinalityType
<1> HIDE DEF it
<1>9. Searches(links, ns, h)
  BY <1>2, <1>3, <1>6, <1>7, <1>8 DEF Searches
<1> QED
  BY <1>9

\* A search of as many steps as there are nodes has found all that can be reached, and nothing
\* else.
LEMMA ReachFacts ==
    ASSUME NEW links, \A l \in links : l.to \in Nodes, NEW ns \in SUBSET Nodes
    PROVE  /\ ns \subseteq Reach(links, ns) /\ Reach(links, ns) \subseteq Nodes
           /\ \A l \in links : l.from \in Reach(links, ns) => l.to \in Reach(links, ns)
           /\ \A S : ns \subseteq S /\ (\A l \in links : l.from \in S => l.to \in S) =>
                 Reach(links, ns) \subseteq S
<1>0. PICK h : Searches(links, ns, h)
  BY ReachIs
<1>1. /\ h \in [Nat -> SUBSET Nodes]
      /\ h[0] = ns /\ Reach(links, ns) = h[Cardinality(Nodes)]
      /\ \A k \in Nat : h[k + 1] = Next1(links, h[k])
  BY <1>0 DEF Searches
<1> DEFINE c == Cardinality(Nodes)
<1>2. c \in Nat /\ IsFiniteSet(Nodes)
  BY EngineAssumption, FS_CardinalityType
<1> HIDE DEF c
<1>3. ASSUME NEW S, ns \subseteq S, \A l \in links : l.from \in S => l.to \in S
      PROVE  h[c] \subseteq S
  <2> DEFINE T == {k \in Nat : h[k] \subseteq S}
  <2>1. 0 \in T
    BY <1>1, <1>3
  <2>2. ASSUME NEW k \in Nat, k \in T PROVE k + 1 \in T
    BY <1>1, <1>3, <2>2 DEF Next1
  <2>3. Nat \subseteq T
    <3> HIDE DEF T
    <3> QED BY <2>1, <2>2, Induct
  <2> QED
    BY <1>2, <2>3
<1>4. ns \subseteq h[c]
  <2> DEFINE T == {k \in Nat : ns \subseteq h[k]}
  <2>1. 0 \in T
    BY <1>1
  <2>2. ASSUME NEW k \in Nat, k \in T PROVE k + 1 \in T
    BY <1>1, <2>2 DEF Next1
  <2>3. Nat \subseteq T
    <3> HIDE DEF T
    <3> QED BY <2>1, <2>2, Induct
  <2> QED
    BY <1>2, <2>3
<1>5. \A k \in Nat : IsFiniteSet(h[k]) /\ Cardinality(h[k]) \in Nat /\ Cardinality(h[k]) <= c
  BY <1>1, <1>2, FS_Subset, FS_CardinalityType DEF c
<1>6. \A k \in Nat : h[k + 1] = h[k] \/ k <= Cardinality(h[k])
  <2> DEFINE T == {k \in Nat : h[k + 1] = h[k] \/ k <= Cardinality(h[k])}
  <2>1. 0 \in T
    BY <1>5
  <2>2. ASSUME NEW k \in Nat, k \in T PROVE k + 1 \in T
    <3>1. h[k + 1] = Next1(links, h[k]) /\ h[(k + 1) + 1] = Next1(links, h[k + 1]) /\ k + 1 \in Nat
      BY <1>1
    <3>2. CASE h[k + 1] = h[k]
      BY <3>1, <3>2
    <3>3. CASE h[k + 1] # h[k]
      <4>1. h[k] \subseteq h[k + 1]
        BY <3>1 DEF Next1
      <4>2. Cardinality(h[k]) <= Cardinality(h[k + 1]) /\ Cardinality(h[k]) # Cardinality(h[k + 1])
        BY <1>5, <3>1, <3>3, <4>1, FS_Subset
      <4>3. k <= Cardinality(h[k])
        BY <2>2, <3>3
      <4>4. /\ Cardinality(h[k]) \in Nat /\ Cardinality(h[k + 1]) \in Nat
        BY <1>5, <3>1
      <4> QED
        BY <3>1, <4>2, <4>3, <4>4
    <3> QED
      BY <3>2, <3>3
  <2>3. Nat \subseteq T
    <3> HIDE DEF T
    <3> QED BY <2>1, <2>2, Induct
  <2> QED
    BY <2>3
<1>7. h[c + 1] = h[c]
  <2>1. CASE c <= Cardinality(h[c])
    <3>1. Cardinality(h[c]) = Cardinality(Nodes)
      BY <1>2, <1>5, <2>1 DEF c
    <3>2. h[c] = Nodes
      BY <1>1, <1>2, <3>1, FS_Subset
    <3>3. h[c + 1] = Next1(links, h[c])
      BY <1>1, <1>2
    <3> QED
      BY <3>2, <3>3 DEF Next1
  <2> QED
    BY <1>2, <1>6, <2>1
<1>8. \A l \in links : l.from \in h[c] => l.to \in h[c]
  <2>1. h[c] = Next1(links, h[c])
    BY <1>1, <1>2, <1>7
  <2> QED
    BY <2>1 DEF Next1
<1> QED
  BY <1>1, <1>2, <1>3, <1>4, <1>8 DEF c

-----------------------------------------------------------------------------
(* One after the other: the members of a set *)

\* Each member of a finite set has a place of its own when they are put in order.
LEMMA SortedFacts ==
    ASSUME NEW S, IsFiniteSet(S), NEW place, \A x \in S : place[x] \in Nat,
           \A x, y \in S : place[x] = place[y] => x = y
    PROVE  LET s == Sorted(S, place)
           IN  /\ s \in Seq(S) /\ Len(s) = Cardinality(S)
               /\ \A x \in S : \E k \in 1..Len(s) : s[k] = x
<1> DEFINE s == Sorted(S, place)
           c == Cardinality(S)
           Less(x) == {y \in S : place[y] < place[x]}
           f == [x \in S |-> Cardinality(Less(x))]
<1>1. c \in Nat
  BY FS_CardinalityType
<1>2. \A x \in S : IsFiniteSet(Less(x)) /\ Cardinality(Less(x)) \in 0..(c - 1)
  <2> SUFFICES ASSUME NEW x \in S
               PROVE  IsFiniteSet(Less(x)) /\ Cardinality(Less(x)) \in 0..(c - 1)
    OBVIOUS
  <2>1. Less(x) \subseteq S /\ x \notin Less(x)
    OBVIOUS
  <2>2. /\ IsFiniteSet(Less(x)) /\ Cardinality(Less(x)) <= c
        /\ c = Cardinality(Less(x)) => Less(x) = S
    <3> HIDE DEF Less
    <3> QED BY <2>1, FS_Subset
  <2>3. Cardinality(Less(x)) \in Nat
    BY <2>2, FS_CardinalityType
  <2> HIDE DEF Less, c
  <2> QED
    BY <1>1, <2>1, <2>2, <2>3
<1>3. \A x, y \in S : Cardinality(Less(x)) = Cardinality(Less(y)) => x = y
  <2>1. ASSUME NEW x \in S, NEW y \in S, place[x] < place[y]
        PROVE  Cardinality(Less(x)) # Cardinality(Less(y))
    <3>1. Less(x) \subseteq Less(y) /\ x \in Less(y) /\ x \notin Less(x)
      BY <2>1
    <3> HIDE DEF Less
    <3> QED
      BY <1>2, <3>1, FS_Subset
  <2>2. \A x, y \in S : x = y \/ place[x] < place[y] \/ place[y] < place[x]
    OBVIOUS
  <2> HIDE DEF Less
  <2> QED
    BY <2>1, <2>2
<1>4. f \in Injection(S, 0..(c - 1))
  <2> HIDE DEF Less, c
  <2> QED BY <1>2, <1>3 DEF Injection, IsInjective
<1>5. IsFiniteSet(0..(c - 1)) /\ Cardinality(0..(c - 1)) = c
  <2> HIDE DEF c
  <2>1. c - 1 \in Int /\ 0 \in Int
    BY <1>1
  <2>2. /\ IsFiniteSet(0..(c - 1))
        /\ Cardinality(0..(c - 1)) = IF 0 > c - 1 THEN 0 ELSE (c - 1) - 0 + 1
    BY <2>1, FS_Interval
  <2> QED
    BY <1>1, <2>2
<1>6. f \in Surjection(S, 0..(c - 1))
  <2> HIDE DEF f
  <2> QED BY <1>4, <1>5, FS_Injection DEF c
<1>7. \A k \in 1..c : \E x \in S : Cardinality(Less(x)) = k - 1
  <2> SUFFICES ASSUME NEW k \in 1..c PROVE \E x \in S : Cardinality(Less(x)) = k - 1
    OBVIOUS
  <2> HIDE DEF c, Less
  <2>1. k - 1 \in 0..(c - 1)
    BY <1>1
  <2> QED
    BY <1>6, <2>1 DEF Surjection
<1>8. s = [k \in 1..c |-> CHOOSE x \in S : Cardinality(Less(x)) = k - 1]
  BY DEF Sorted
<1> HIDE DEF Less, s, c
<1>9. s \in [1..c -> S] /\ \A k \in 1..c : Cardinality(Less(s[k])) = k - 1
  BY <1>7, <1>8
<1>10. \A x \in S : \E k \in 1..c : s[k] = x
  <2> SUFFICES ASSUME NEW x \in S PROVE \E k \in 1..c : s[k] = x
    OBVIOUS
  <2> DEFINE k == Cardinality(Less(x)) + 1
  <2>1. k \in 1..c /\ k - 1 = Cardinality(Less(x))
    BY <1>1, <1>2
  <2> HIDE DEF k
  <2>2. s[k] \in S /\ Cardinality(Less(s[k])) = Cardinality(Less(x))
    BY <1>9, <2>1
  <2> QED
    BY <1>3, <2>1, <2>2
<1>11. s \in Seq(S) /\ Len(s) = c
  BY <1>1, <1>9
<1> QED
  BY <1>10, <1>11 DEF s, c

-----------------------------------------------------------------------------
(* The subgraph *)

\* The links that lead back to the trigger are what the workflow has between the nodes they
\* join, but for those from the destination on.
LEMMA LinksBackFacts ==
    ASSUME workflow \in Workflows, NEW d \in Nodes
    PROVE  LET back == LinksBack(workflow.links, d)
               nodes == {Start} \cup Ends(back)
           IN  /\ back \subseteq workflow.links
               /\ \A l \in workflow.links :
                     l.from \in nodes /\ l.to \in nodes /\ l.from # d => l \in back
<1> DEFINE links == workflow.links
           followed == UNION {ns \in SUBSET (Nodes \ {Start, d}) :
                          \A n \in ns : \E l \in links : l.to = n /\ l.from \in ns \cup {Start}}
           back == {l \in links : l.from \in followed \cup {Start} /\ l.to # Start}
           turned == {[from |-> l.to, to |-> l.from] : l \in back}
           above == Reach(turned, {d} \ {Start})
           led == LinksBack(links, d)
<1>1. \A l \in links : l.from \in Nodes /\ l.to \in Nodes /\ l.to # Start
  BY GraphFacts, PartialAssumption DEF Links
<1>2. led = {l \in back : l.to \in above}
  BY DEF LinksBack
<1> HIDE DEF followed, led, links
<1>3. \A l \in turned : l.to \in Nodes
  BY <1>1
<1>4. \A l \in back : l.to \in above => l.from \in above
  <2>1. \A l \in turned : l.from \in above => l.to \in above
    <3> HIDE DEF turned
    <3> QED BY <1>3, ReachFacts
  <2>2. \A l \in back : [from |-> l.to, to |-> l.from] \in turned
    OBVIOUS
  <2> HIDE DEF above, back, turned
  <2>3. ASSUME NEW l \in back, l.to \in above PROVE l.from \in above
    <3>1. [from |-> l.to, to |-> l.from].from \in above => [from |-> l.to, to |-> l.from].to \in above
      BY <2>1, <2>2
    <3> QED
      BY <2>3, <3>1
  <2> QED
    BY <2>3
<1>5. above \subseteq {d} \cup {l.from : l \in back}
  <2> DEFINE S == {d} \cup {l.from : l \in back}
  <2>1. {d} \ {Start} \subseteq S /\ \A l \in turned : l.from \in S => l.to \in S
    OBVIOUS
  <2> HIDE DEF turned, S
  <2>2. above \subseteq S
    <3> DEFINE ns == {d} \ {Start}
    <3>1. ns \in SUBSET Nodes
      OBVIOUS
    <3> HIDE DEF ns
    <3>2. \A U : ns \subseteq U /\ (\A l \in turned : l.from \in U => l.to \in U) =>
                   Reach(turned, ns) \subseteq U
      BY <1>3, <3>1, ReachFacts
    <3>3. Reach(turned, ns) \subseteq S
      BY <2>1, <3>2 DEF ns
    <3> QED
      BY <3>3 DEF ns
  <2> QED
    BY <2>2 DEF S
<1> HIDE DEF above
<1>6. ASSUME NEW l \in links, l.from \in {Start} \cup Ends(led), l.to \in {Start} \cup Ends(led),
             l.from # d
      PROVE  l \in led
  <2>1. l.from \in followed \cup {Start}
    BY <1>2, <1>5, <1>6 DEF Ends
  <2>2. l \in back
    BY <1>1, <2>1
  <2>3. l.to \in above
    BY <1>1, <1>2, <1>4, <1>6 DEF Ends
  <2> QED
    BY <1>2, <2>2, <2>3
<1> QED
  BY <1>2, <1>6 DEF led, links

LEMMA SubgraphFacts ==
    ASSUME workflow \in Workflows, NEW d \in Nodes
    PROVE  LET graph == Subgraph(d)
           IN  /\ graph.nodes \subseteq Nodes /\ Start \in graph.nodes
               /\ graph.links \subseteq workflow.links
               /\ \A l \in graph.links : l.from \in graph.nodes /\ l.to \in graph.nodes
               /\ \A l \in workflow.links :
                     l.from \in graph.nodes /\ l.to \in graph.nodes /\ l.from # d =>
                         l \in graph.links
<1> DEFINE back == LinksBack(workflow.links, d)
           nodes == {Start} \cup Ends(back)
<1>1. Subgraph(d) = [nodes |-> nodes, links |-> back]
  BY DEF Subgraph
<1>2. /\ back \subseteq workflow.links
      /\ \A l \in workflow.links : l.from \in nodes /\ l.to \in nodes /\ l.from # d => l \in back
  BY LinksBackFacts
<1> HIDE DEF back
<1>3. nodes \subseteq Nodes /\ \A l \in back : l.from \in nodes /\ l.to \in nodes
  BY <1>2, GraphFacts, EngineAssumption DEF Links, Ends
<1> QED
  BY <1>1, <1>2, <1>3

\* What is cleaned are the node's runs and those of all that comes after it or is elsewhere.
LEMMA CleanFacts ==
    ASSUME workflow \in Workflows, NEW d \in Nodes, NEW ns \in SUBSET Nodes,
           NEW runData \in [Nodes -> Seq(Tasks)]
    PROVE  LET graph == Subgraph(d)
               below == Below(graph, ns)
               data == CleanRunData(runData, graph, ns)
           IN  /\ ns \subseteq below /\ below \subseteq Nodes
               /\ \A l \in graph.links : l.from \in below => l.to \in below
               /\ data \in [Nodes -> Seq(Tasks)]
               /\ \A n \in Nodes : data[n] = IF n \in below \/ n \notin graph.nodes
                                             THEN <<>> ELSE runData[n]
<1> DEFINE graph == Subgraph(d)
           below == Below(graph, ns)
           data == CleanRunData(runData, graph, ns)
<1>1. \A l \in graph.links : l.to \in Nodes
  BY SubgraphFacts
<1>2. data = [n \in Nodes |-> IF n \in below \/ n \notin graph.nodes THEN <<>> ELSE runData[n]]
  BY DEF CleanRunData
<1>3. << >> \in Seq(Tasks)
  OBVIOUS
<1> HIDE DEF graph, data
<1>4. /\ ns \subseteq below /\ below \subseteq Nodes
      /\ \A l \in graph.links : l.from \in below => l.to \in below
  BY <1>1, ReachFacts DEF Below
<1> HIDE DEF below
<1>5. data \in [Nodes -> Seq(Tasks)]
  BY <1>2, <1>3
<1> QED
  BY <1>2, <1>4, <1>5 DEF graph, below, data

-----------------------------------------------------------------------------
(* The links of a group *)

\* Of the links from a set that lead to one input, one comes first.
EarlierThan(rank, k, l) == \/ rank[k.from] < rank[l.from]
                           \/ k.from = l.from /\ k.output < l.output
LEMMA FirstLink ==
    ASSUME NEW rank \in Orders, NEW n, NEW i, NEW S \in SUBSET Links, S # {},
           \A l \in S : l.to = n /\ l.input = i
    PROVE  \E l \in S : \A k \in S : k = l \/ EarlierThan(rank, l, k)
<1>1. rank \in [Nodes -> Nat] /\ \A m, o \in Nodes : rank[m] = rank[o] => m = o
  BY PartialAssumption DEF IsInjective
<1>2. PICK f \in S : \A k \in S : rank[f.from] <= rank[k.from]
  <2> DEFINE T == {rank[l.from] : l \in S}
  <2>1. T \in SUBSET Nat /\ T # {}
    BY <1>1 DEF Links
  <2>2. PICK t \in T : \A m \in T : t <= m
    BY <2>1, LeastNumber
  <2> QED
    BY <2>2
<1> DEFINE U == {l \in S : l.from = f.from}
<1>3. PICK l \in U : \A k \in U : l.output <= k.output
  <2> DEFINE T == {k.output : k \in U}
  <2>1. T \in SUBSET Nat /\ T # {}
    BY <1>2 DEF Links
  <2>2. PICK t \in T : \A m \in T : t <= m
    BY <2>1, LeastNumber
  <2> QED
    BY <2>2
<1>4. ASSUME NEW k \in S, k # l PROVE EarlierThan(rank, l, k)
  <2>1. l \in S /\ l.from = f.from /\ rank[l.from] <= rank[k.from]
    BY <1>2, <1>3
  <2>2. /\ l.from \in Nodes /\ k.from \in Nodes /\ l.output \in Nat /\ k.output \in Nat
        /\ rank[l.from] \in Nat /\ rank[k.from] \in Nat
    BY <1>1, <2>1 DEF Links
  <2>3. CASE k.from = l.from
    <3>1. l.output <= k.output
      BY <1>3, <2>1, <2>3
    <3>2. l.output # k.output
      <4>1. l \in Links /\ k \in Links /\ l.to = k.to /\ l.input = k.input
        BY <2>1
      <4> QED
        BY <1>4, <2>3, <4>1 DEF Links
    <3> QED
      BY <2>2, <2>3, <3>1, <3>2 DEF EarlierThan
  <2>4. CASE k.from # l.from
    <3>1. rank[k.from] # rank[l.from]
      BY <1>1, <2>2, <2>4
    <3> QED
      BY <2>1, <2>2, <3>1 DEF EarlierThan
  <2> QED
    BY <2>3, <2>4
<1> QED
  BY <1>3, <1>4

\* A group has links of the set, one per input, and at least one if there are any.
IsGroup(group, links) ==
    group \subseteq links /\ \A k, l \in group : k.input = l.input => k = l
LEMMA FirstGroupFacts ==
    ASSUME NEW rank \in Orders, NEW n, NEW links \in SUBSET Links, \A l \in links : l.to = n,
           NEW runData
    PROVE  LET group == FirstGroup(links, runData, rank)
           IN  IsGroup(group, links) /\ (links # {} => group # {})
<1> DEFINE at(i) == {l \in links : l.input = i}
           inputs == {i \in {l.input : l \in links} :
                         \A j \in Min({l.input : l \in links})..i : at(j) # {}}
           ready(i) == {l \in at(i) : runData[l.from] # <<>>}
           Of(i) == IF ready(i) # {} THEN ready(i) ELSE at(i)
           Pick(i) == CHOOSE l \in Of(i) : \A k \in Of(i) : k = l \/ EarlierThan(rank, l, k)
           group == FirstGroup(links, runData, rank)
<1>1. group = {Pick(i) : i \in inputs}
  BY DEF FirstGroup, EarlierThan
<1>2. ASSUME NEW i \in inputs PROVE Pick(i) \in links /\ Pick(i).input = i
  <2>1. at(i) # {}
    OBVIOUS
  <2>2. Of(i) # {} /\ Of(i) \subseteq at(i)
    BY <2>1
  <2> DEFINE S == Of(i)
  <2>3. S \in SUBSET Links /\ S # {} /\ \A l \in S : l.to = n /\ l.input = i
    BY <2>2
  <2> HIDE DEF S
  <2>4. \E l \in S : \A k \in S : k = l \/ EarlierThan(rank, l, k)
    BY <2>3, FirstLink
  <2>5. Pick(i) \in S
    BY <2>4 DEF S
  <2> QED
    BY <2>2, <2>5 DEF S
<1>3. ASSUME links # {} PROVE inputs # {}
  <2> DEFINE T == {l.input : l \in links}
             m == Min(T)
  <2>1. T \in SUBSET Nat /\ T # {}
    BY <1>3 DEF Links
  <2>2. m \in T
    <3> HIDE DEF T
    <3> QED BY <2>1, MinIsLeast
  <2>3. \A j \in m..m : j = m
    BY <2>1, <2>2
  <2>4. at(m) # {}
    BY <2>2
  <2> QED
    BY <2>2, <2>3, <2>4
<1> HIDE DEF group, Pick, inputs
<1> QED
  BY <1>1, <1>2, <1>3 DEF IsGroup, group

\* As long as links are left, another group is taken, so that each link is in one.
LEMMA SourceGroupsFacts ==
    ASSUME NEW rank \in Orders, NEW n, NEW links \in SUBSET Links, IsFiniteSet(links),
           \A l \in links : l.to = n, NEW runData
    PROVE  LET groups == SourceGroups(links, runData, rank)
           IN  /\ groups \in Seq({group \in SUBSET links : IsGroup(group, links)})
               /\ \A l \in links : \E k \in 1..Len(groups) : l \in groups[k]
<1> DEFINE First(ls) == FirstGroup(ls, runData, rank)
           Eq(f) == f = [k \in Nat |-> IF k = 0 THEN links ELSE f[k - 1] \ First(f[k - 1])]
           S == SUBSET links
           F == [x \in Nat \X S |-> x[2] \ First(x[2])]
           left == CHOOSE f : Eq(f)
           empty == {k \in 0..Cardinality(links) : left[k] = {}}
           count == Min(empty)
           groups == SourceGroups(links, runData, rank)
           Groups == {group \in SUBSET links : IsGroup(group, links)}
<1>1. \E h : Eq(h)
  <2>1. F \in [Nat \X S -> S] /\ links \in S
    OBVIOUS
  <2>2. \A k \in Nat : \A ls \in S : F[<<k, ls>>] = ls \ First(ls)
    OBVIOUS
  <2> HIDE DEF F, S, First
  <2>3. PICK h : AreSteps(h, S, links, F)
    BY <2>1, Iterated DEF StepsIn
  <2>4. h \in [Nat -> S] /\ h[0] = links /\ \A k \in Nat : h[k + 1] = F[<<k, h[k]>>]
    BY <2>3 DEF AreSteps
  <2>5. \A k \in Nat : k # 0 => h[k] = h[k - 1] \ First(h[k - 1])
    <3> SUFFICES ASSUME NEW k \in Nat, k # 0 PROVE h[k] = h[k - 1] \ First(h[k - 1])
      OBVIOUS
    <3>1. k - 1 \in Nat /\ (k - 1) + 1 = k
      OBVIOUS
    <3>2. h[k - 1] \in S
      BY <2>4, <3>1
    <3> QED
      BY <2>2, <2>4, <3>1, <3>2
  <2>6. h = [k \in Nat |-> h[k]]
    BY <2>4
  <2>7. Eq(h)
    BY <2>4, <2>5, <2>6
  <2> QED
    BY <2>7
<1>2. Eq(left)
  BY <1>1
<1>3. groups = [k \in 1..count |-> First(left[k - 1])]
  BY DEF SourceGroups
<1> HIDE DEF left, groups, First
<1>4. left[0] = links /\ \A k \in Nat : left[k + 1] = left[k] \ First(left[k])
  <2>1. \A k \in Nat : left[k] = IF k = 0 THEN links ELSE left[k - 1] \ First(left[k - 1])
    BY <1>2
  <2>2. \A k \in Nat : k + 1 \in Nat /\ k + 1 # 0 /\ (k + 1) - 1 = k
    OBVIOUS
  <2> HIDE DEF Eq
  <2> QED
    BY <2>1, <2>2
<1>5. \A ls \in SUBSET links : IsGroup(First(ls), ls) /\ (ls # {} => First(ls) # {})
  <2> SUFFICES ASSUME NEW ls \in SUBSET links
               PROVE  IsGroup(First(ls), ls) /\ (ls # {} => First(ls) # {})
    OBVIOUS
  <2>1. ls \in SUBSET Links /\ \A l \in ls : l.to = n
    OBVIOUS
  <2> QED
    BY <2>1, FirstGroupFacts DEF First
<1> DEFINE c == Cardinality(links)
<1>6. c \in Nat
  BY FS_CardinalityType
<1> HIDE DEF c, Eq
<1>7. \A k \in Nat : /\ left[k] \subseteq links
                     /\ left[k] = {} \/ Cardinality(left[k]) + k <= c
  <2> DEFINE T == {k \in Nat : /\ left[k] \subseteq links
                               /\ left[k] = {} \/ Cardinality(left[k]) + k <= c}
  <2>1. 0 \in T
    BY <1>4, <1>6 DEF c
  <2>2. ASSUME NEW k \in Nat, k \in T PROVE k + 1 \in T
    <3>1. left[k] \subseteq links /\ left[k + 1] = left[k] \ First(left[k])
      BY <1>4, <2>2
    <3>2. CASE left[k] = {}
      BY <3>1, <3>2
    <3>3. CASE left[k] # {}
      <4>1. First(left[k]) \subseteq left[k] /\ First(left[k]) # {}
        BY <1>5, <3>1, <3>3 DEF IsGroup
      <4>2. left[k + 1] \subseteq left[k] /\ left[k + 1] # left[k]
        BY <3>1, <4>1
      <4>3. IsFiniteSet(left[k]) /\ IsFiniteSet(left[k + 1])
        BY <3>1, <4>2, FS_Subset
      <4>4. Cardinality(left[k + 1]) <= Cardinality(left[k])
            /\ Cardinality(left[k + 1]) # Cardinality(left[k])
        BY <4>2, <4>3, FS_Subset
      <4>5. Cardinality(left[k]) \in Nat /\ Cardinality(left[k + 1]) \in Nat
        BY <4>3, FS_CardinalityType
      <4>6. Cardinality(left[k]) + k <= c
        BY <2>2, <3>3
      <4>7. Cardinality(left[k + 1]) + (k + 1) <= c
        BY <1>6, <4>4, <4>5, <4>6
      <4>8. k + 1 \in Nat /\ left[k + 1] \subseteq links
        BY <3>1, <4>2
      <4> QED
        BY <4>7, <4>8
    <3> QED
      BY <3>2, <3>3
  <2>3. Nat \subseteq T
    <3> HIDE DEF T
    <3> QED BY <2>1, <2>2, Induct
  <2> QED
    BY <2>3
<1>8. left[c] = {}
  <2> SUFFICES ASSUME left[c] # {} PROVE FALSE
    OBVIOUS
  <2>1. left[c] \subseteq links /\ Cardinality(left[c]) + c <= c
    BY <1>6, <1>7
  <2>2. IsFiniteSet(left[c]) /\ Cardinality(left[c]) \in Nat
    BY <2>1, FS_Subset, FS_CardinalityType
  <2>3. Cardinality(left[c]) = 0
    BY <1>6, <2>1, <2>2
  <2> QED
    BY <2>2, <2>3, FS_EmptySet
<1>9. count \in Nat /\ left[count] = {}
  <2>1. c \in empty
    BY <1>6, <1>8 DEF c
  <2>2. empty \in SUBSET Nat
    BY <1>6 DEF c
  <2> HIDE DEF empty
  <2>3. count \in empty /\ empty \in SUBSET Nat
    BY <2>1, <2>2, MinIsLeast
  <2> HIDE DEF count
  <2> QED
    BY <2>3 DEF empty
<1> HIDE DEF count
<1>10. groups \in [1..count -> Groups]
  <2>1. ASSUME NEW k \in 1..count PROVE First(left[k - 1]) \in Groups
    <3>1. k - 1 \in Nat
      BY <1>9
    <3>2. left[k - 1] \subseteq links
      BY <1>7, <3>1
    <3>3. IsGroup(First(left[k - 1]), left[k - 1])
      BY <1>5, <3>2
    <3> QED
      BY <3>2, <3>3 DEF IsGroup
  <2> HIDE DEF Groups
  <2> QED
    BY <1>3, <2>1
<1>11. ASSUME NEW l \in links PROVE \E k \in 1..count : l \in groups[k]
  <2> DEFINE T == {k \in Nat : l \notin left[k]}
  <2>1. count \in T
    BY <1>9
  <2> HIDE DEF T
  <2>2. PICK k \in T : \A m \in T : k <= m
    <3>1. T \in SUBSET Nat /\ T # {}
      BY <2>1 DEF T
    <3> QED
      BY <3>1, LeastNumber
  <2>3. k \in Nat /\ l \notin left[k] /\ k <= count
    BY <2>1, <2>2 DEF T
  <2>4. k # 0
    BY <1>4, <2>3
  <2>5. k - 1 \in Nat /\ (k - 1) + 1 = k
    BY <2>3, <2>4
  <2>6. l \in left[k - 1]
    <3>1. k - 1 \notin T
      BY <2>2, <2>3, <2>5
    <3> QED
      BY <2>5, <3>1 DEF T
  <2>7. left[k] = left[k - 1] \ First(left[k - 1])
    BY <1>4, <2>5
  <2>8. k \in 1..count
    BY <1>9, <2>3, <2>4
  <2> QED
    BY <1>3, <2>3, <2>6, <2>7, <2>8
<1>12. Len(groups) = count
  BY <1>9, <1>10
<1> QED
  BY <1>9, <1>10, <1>11, <1>12 DEF groups

-----------------------------------------------------------------------------
(* The stack and the waiting entries are put together *)

\* What is taken over is the first batch of the source.
LEMMA BatchFacts ==
    ASSUME workflow \in Workflows, NEW runData \in [Nodes -> Seq(Tasks)],
           NEW l \in workflow.links, HasBatch(runData, l)
    PROVE  LET b == Batch(runData, l)
           IN  /\ b \in AllBatches /\ b[1] = l.from /\ b[3] = l.output
               /\ b[2] + 1 \in DOMAIN runData[l.from]
               /\ l.output \in runData[l.from][b[2] + 1].outs
<1> DEFINE S == RunsWithItems(runData, l.from, l.output)
           m == Min(S)
           b == Batch(runData, l)
<1>1. l.from \in Nodes /\ l.output \in Nat
  BY GraphFacts DEF Links
<1>2. DOMAIN runData[l.from] = 1..Len(runData[l.from]) /\ Len(runData[l.from]) \in Nat
  BY <1>1
<1>3. S \in SUBSET Nat /\ S # {} /\ \A k \in S : k \in 1..Len(runData[l.from])
  BY <1>2 DEF RunsWithItems, HasBatch
<1>4. m \in S
  <2> HIDE DEF S
  <2> QED BY <1>3, MinIsLeast
<1>5. b = <<l.from, m - 1, l.output>>
  BY DEF Batch
<1>6. \A k \in S : k \in DOMAIN runData[l.from] /\ l.output \in runData[l.from][k].outs
  BY DEF RunsWithItems
<1> HIDE DEF m, b, S
<1>7. m - 1 \in Nat /\ (m - 1) + 1 = m
  BY <1>3, <1>4
<1> QED
  BY <1>1, <1>4, <1>5, <1>6, <1>7 DEF AllBatches, b

\* What the sources of a group have for the node, one after the other and by input.
With(d, group) == {l \in group : HasBatch(d, l)}
GroupData(d, group) ==
    LET with == With(d, group)
        inTurn == Sorted(with, [l \in with |-> l.input])
    IN  [k \in 0..(Cardinality(with) - 1) |-> Batch(d, inTurn[k + 1])]
GroupEntry(d, group) ==
    [i \in {l.input : l \in With(d, group)} |->
        Batch(d, CHOOSE l \in With(d, group) : l.input = i)]
LeadsTo(group, n) == IsGroup(group, workflow.links) /\ \A l \in group : l.to = n

\* Each is the batch of a link of the group.
LEMMA GroupHolds ==
    ASSUME workflow \in Workflows, NEW d \in [Nodes -> Seq(Tasks)], NEW n \in Nodes,
           NEW group, LeadsTo(group, n)
    PROVE  /\ GroupData(d, group) \in Data
           /\ \A i \in DOMAIN GroupData(d, group) :
                 \E l \in With(d, group) : GroupData(d, group)[i] = Batch(d, l)
           /\ GroupEntry(d, group) \in Data
           /\ With(d, group) # {} => GroupEntry(d, group) \in EntryOf(n)
           /\ \A i \in DOMAIN GroupEntry(d, group) :
                 \E l \in With(d, group) : l.input = i /\ GroupEntry(d, group)[i] = Batch(d, l)
           /\ \A l \in group : /\ l.input \in Inputs(n)
                               /\ ~HasBatch(d, l) => ~HasInput(GroupEntry(d, group), l.input)
<1> DEFINE with == With(d, group)
           place == [l \in with |-> l.input]
           inTurn == Sorted(with, place)
           c == Cardinality(with)
           data == GroupData(d, group)
           entry == GroupEntry(d, group)
<1>1. /\ with \subseteq workflow.links /\ IsFiniteSet(with) /\ Inputs(n) \subseteq Nat
      /\ \A l \in group : l.input \in Inputs(n) /\ l \in workflow.links
      /\ \A k, l \in group : k.input = l.input => k = l
  <2>1. group \subseteq workflow.links
    BY DEF LeadsTo, IsGroup
  <2>2. with \subseteq workflow.links
    BY <2>1 DEF With
  <2>3. IsFiniteSet(with)
    BY <2>2, GraphFacts, FS_Subset
  <2> QED
    BY <2>1, <2>2, <2>3, InputsFacts DEF LeadsTo, IsGroup
<1>2. \A l \in with : l \in group /\ HasBatch(d, l) /\ Batch(d, l) \in AllBatches
  BY <1>1, BatchFacts DEF With
<1>3. data = [k \in 0..(c - 1) |-> Batch(d, inTurn[k + 1])]
  BY DEF GroupData
<1>4. entry = [i \in {l.input : l \in with} |-> Batch(d, CHOOSE l \in with : l.input = i)]
  BY DEF GroupEntry
<1>5. inTurn \in Seq(with) /\ Len(inTurn) = c
  <2>1. \A l \in with : place[l] \in Nat
    BY <1>1, <1>2
  <2>2. \A k, l \in with : place[k] = place[l] => k = l
    BY <1>1, <1>2
  <2> HIDE DEF place, with
  <2> QED
    BY <1>1, <2>1, <2>2, SortedFacts
<1>6. c \in Nat
  BY <1>1, FS_CardinalityType
<1> HIDE DEF with, inTurn, data, entry, c
<1>7. ASSUME NEW k \in 0..(c - 1) PROVE inTurn[k + 1] \in with
  <2>1. k + 1 \in 1..Len(inTurn)
    BY <1>5, <1>6
  <2> QED
    BY <1>5, <2>1
<1>8. DOMAIN data = 0..(c - 1) /\ \A k \in 0..(c - 1) : data[k] = Batch(d, inTurn[k + 1])
  BY <1>3
<1>9. data \in [0..(c - 1) -> Values] /\ 0..(c - 1) \subseteq Nat
  BY <1>2, <1>3, <1>6, <1>7 DEF Values
<1>10. data \in Data
  BY <1>9 DEF Data
<1>11. ASSUME NEW i \in DOMAIN entry
       PROVE  /\ i \in Inputs(n) /\ entry[i] \in AllBatches \cup {Missing}
              /\ \E l \in with : l.input = i /\ entry[i] = Batch(d, l)
  <2> DEFINE x == CHOOSE l \in with : l.input = i
  <2>1. x \in with /\ x.input = i
    BY <1>4
  <2>2. entry[i] = Batch(d, x)
    BY <1>4
  <2> HIDE DEF x
  <2> QED
    BY <1>1, <1>2, <2>1, <2>2
<1>12. /\ DOMAIN entry = {l.input : l \in with}
       /\ entry \in [DOMAIN entry -> AllBatches \cup {Missing}]
  BY <1>4, <1>11
<1>13. entry \in Data
  BY <1>1, <1>11, <1>12, DataIs DEF Values
<1>14. ASSUME NEW l \in group, ~HasBatch(d, l) PROVE ~HasInput(entry, l.input)
  <2>1. \A k \in with : k.input # l.input
    <3> SUFFICES ASSUME NEW k \in with, k.input = l.input PROVE FALSE
      OBVIOUS
    <3>1. k = l
      BY <1>1, <1>2
    <3> QED
      BY <1>2, <1>14, <3>1
  <2> QED
    BY <1>12, <2>1 DEF HasInput
<1>15. with # {} => entry \in EntryOf(n)
  <2>1. DOMAIN entry \subseteq Inputs(n)
    BY <1>11
  <2>2. with # {} => DOMAIN entry # {}
    BY <1>12
  <2> QED
    BY <1>12, <2>1, <2>2, EntryIs
<1> QED
  BY <1>1, <1>7, <1>8, <1>10, <1>11, <1>13, <1>14, <1>15 DEF with, data, entry

\* An item at the end of the stack.
LEMMA AppendedIs ==
    ASSUME NEW s \in Seq(Items), NEW x \in Items
    PROVE  LET t == Append(s, x)
           IN  /\ t \in Seq(Items) /\ Len(t) = Len(s) + 1 /\ t[Len(s) + 1] = x
               /\ DOMAIN s = 1..Len(s) /\ DOMAIN t = 1..(Len(s) + 1) /\ Len(s) \in Nat
               /\ \A i \in DOMAIN s : i \in DOMAIN t /\ t[i] = s[i]
               /\ \A i \in DOMAIN t : i \in DOMAIN s \/ i = Len(s) + 1
OBVIOUS

\* What a group makes of the stack, the waiting entries and their order.
AllHaveRun(d, group) == \A l \in group : d[l.from] # <<>>
GroupStack(r, n, group) ==
    IF AllHaveRun(r.runData, group) THEN Append(r.stack, Item(n, GroupData(r.runData, group)))
    ELSE r.stack
GroupWaits(r, group) == ~AllHaveRun(r.runData, group) /\ With(r.runData, group) # {}
GroupWaiting(r, n, group) ==
    IF GroupWaits(r, group)
    THEN [r.waiting EXCEPT ![n] = Put(r.waiting, n, Cardinality(DOMAIN r.waiting[n]),
                                      GroupEntry(r.runData, group))]
    ELSE r.waiting
GroupOrder(r, n, group) ==
    IF GroupWaits(r, group) /\ DOMAIN r.waiting[n] = {} THEN Append(r.order, n) ELSE r.order

LEMMA AddGroupIs ==
    ASSUME NEW r, TypeOK(r), NEW n \in Nodes, NEW group
    PROVE  AddGroup(r, n, group) = Moved(r, GroupStack(r, n, group), GroupWaiting(r, n, group),
                                         GroupOrder(r, n, group), r.misplaced)
<1> DEFINE d == r.runData
           w == With(d, group)
           data == GroupData(d, group)
           entry == GroupEntry(d, group)
           k == Cardinality(DOMAIN r.waiting[n])
           put == [j \in DOMAIN r.waiting[n] \cup {k} |-> IF j = k THEN entry ELSE r.waiting[n][j]]
           s == GroupStack(r, n, group)
           ws == GroupWaiting(r, n, group)
           o == GroupOrder(r, n, group)
           q == AddGroup(r, n, group)
<1>1. q = IF AllHaveRun(d, group) THEN [r EXCEPT !.stack = Append(@, Item(n, data))]
          ELSE IF w = {} THEN r
          ELSE [r EXCEPT !.waiting[n] = put, !.order = IF k = 0 THEN Append(@, n) ELSE @]
  BY DEF AddGroup, With, GroupData, GroupEntry, AllHaveRun
<1>2. r \in Records
  BY DEF TypeOK
<1>3. k = 0 <=> DOMAIN r.waiting[n] = {}
  BY EntriesFacts, FS_EmptySet
<1>4. put = Put(r.waiting, n, k, entry)
  BY DEF Put
<1>5. s = IF AllHaveRun(d, group) THEN Append(r.stack, Item(n, data)) ELSE r.stack
  BY DEF GroupStack
<1>6. ws = IF ~AllHaveRun(d, group) /\ w # {} THEN [r.waiting EXCEPT ![n] = put] ELSE r.waiting
  BY <1>4 DEF GroupWaiting, GroupWaits
<1>7. o = IF ~AllHaveRun(d, group) /\ w # {} /\ k = 0 THEN Append(r.order, n) ELSE r.order
  BY <1>3 DEF GroupOrder, GroupWaits
<1> HIDE DEF d, w, data, entry, k, put, s, ws, o, q
<1>8. q = [r EXCEPT !.stack = s, !.waiting = ws, !.order = o, !.misplaced = r.misplaced]
  <2>1. CASE AllHaveRun(d, group)
    <3>1. q = [r EXCEPT !.stack = Append(@, Item(n, data))]
      BY <1>1, <2>1
    <3>2. s = Append(r.stack, Item(n, data)) /\ ws = r.waiting /\ o = r.order
      BY <1>5, <1>6, <1>7, <2>1
    <3> QED
      BY <1>2, <3>1, <3>2 DEF Records
  <2>2. CASE ~AllHaveRun(d, group) /\ w = {}
    <3>1. q = r /\ s = r.stack /\ ws = r.waiting /\ o = r.order
      BY <1>1, <1>5, <1>6, <1>7, <2>2
    <3> QED
      BY <1>2, <3>1 DEF Records
  <2>3. CASE ~AllHaveRun(d, group) /\ w # {}
    <3>1. q = [r EXCEPT !.waiting[n] = put, !.order = IF k = 0 THEN Append(@, n) ELSE @]
      BY <1>1, <2>3
    <3>2. s = r.stack /\ ws = [r.waiting EXCEPT ![n] = put]
          /\ o = IF k = 0 THEN Append(r.order, n) ELSE r.order
      BY <1>5, <1>6, <1>7, <2>3
    <3> QED
      BY <1>2, <3>1, <3>2 DEF Records
  <2> QED
    BY <2>1, <2>2, <2>3
<1> QED
  BY <1>8 DEF Moved, q, s, ws, o

\* What is added is for the start nodes, and nothing else changes.
AddsFor(r, q, ns) ==
    /\ TypeOK(q) /\ Rest(r, q) /\ q.misplaced = r.misplaced
    /\ \A i \in DOMAIN q.stack :
          \/ i \in DOMAIN r.stack /\ q.stack[i] = r.stack[i]
          \/ q.stack[i].node \in ns /\ ~q.stack[i].disabled
    /\ Range(q.order) \subseteq Range(r.order) \cup ns

\* What is added for some, and then for others.
LEMMA AddsForBoth ==
    ASSUME NEW r, NEW q, NEW p, NEW ns, NEW ms, AddsFor(r, q, ns), AddsFor(q, p, ms)
    PROVE  AddsFor(r, p, ns \cup ms)
<1>1. TypeOK(p) /\ Rest(r, p) /\ p.misplaced = r.misplaced
  BY DEF AddsFor, Rest
<1>2. Range(p.order) \subseteq Range(r.order) \cup (ns \cup ms)
  BY DEF AddsFor
<1>3. ASSUME NEW i \in DOMAIN p.stack
      PROVE  \/ i \in DOMAIN r.stack /\ p.stack[i] = r.stack[i]
             \/ p.stack[i].node \in ns \cup ms /\ ~p.stack[i].disabled
  BY DEF AddsFor
<1> QED
  BY <1>1, <1>2, <1>3 DEF AddsFor

LEMMA AddGroupFacts ==
    ASSUME workflow \in Workflows, NEW r, TypeOK(r), NEW n \in Nodes, NEW group, LeadsTo(group, n)
    PROVE  LET q == AddGroup(r, n, group)
           IN  /\ AddsFor(r, q, {n})
               /\ q.stack = GroupStack(r, n, group) /\ q.waiting = GroupWaiting(r, n, group)
               /\ q.order = GroupOrder(r, n, group)
<1> DEFINE d == r.runData
           data == GroupData(d, group)
           entry == GroupEntry(d, group)
           k == Cardinality(DOMAIN r.waiting[n])
           s == GroupStack(r, n, group)
           w == GroupWaiting(r, n, group)
           o == GroupOrder(r, n, group)
           q == AddGroup(r, n, group)
<1>1. r \in Records /\ d \in [Nodes -> Seq(Tasks)] /\ r.stack \in Seq(Items) /\ WaitingOK(r.waiting, r.order)
      /\ r.waiting \in Waitings /\ r.order \in Seq(Nodes) /\ r.misplaced \in SUBSET Nodes
  BY DEF TypeOK, Records
<1>2. /\ data \in Data /\ entry \in Data /\ (With(d, group) # {} => entry \in EntryOf(n))
      /\ \A l \in group : /\ l.input \in Inputs(n)
                          /\ ~HasBatch(d, l) => ~HasInput(entry, l.input)
  BY SMTT(30), <1>1, GroupHolds
<1>3. k \in Nat
  BY EntriesFacts, FS_CardinalityType
<1>4. s \in Seq(Items) /\ \A i \in DOMAIN s : \/ i \in DOMAIN r.stack /\ s[i] = r.stack[i]
                                              \/ s[i].node = n /\ ~s[i].disabled
  <2>1. Item(n, data) \in Items /\ Item(n, data).node = n /\ ~Item(n, data).disabled
    BY <1>2 DEF Item, Items
  <2> DEFINE x == Item(n, data)
  <2>2. s = IF AllHaveRun(d, group) THEN Append(r.stack, x) ELSE r.stack
    BY DEF GroupStack
  <2> HIDE DEF x, s
  <2>3. x \in Items /\ x.node = n /\ ~x.disabled
    BY <2>1 DEF x
  <2> QED
    BY <1>1, <2>2, <2>3, AppendedIs
<1>5. w \in Waitings /\ o \in Seq(Nodes) /\ WaitingOK(w, o) /\ Range(o) \subseteq Range(r.order) \cup {n}
  <2>1. CASE GroupWaits(r, group)
    <3>1. PICK l \in group : d[l.from] = <<>>
      BY <2>1 DEF GroupWaits, AllHaveRun
    <3>2. ~HasBatch(d, l)
      BY <3>1 DEF HasBatch, RunsWithItems
    <3>3. entry \in EntryOf(n) /\ \E i \in Inputs(n) : ~HasInput(entry, i)
      BY <1>2, <2>1, <3>2 DEF GroupWaits
    <3>4. /\ w = [r.waiting EXCEPT ![n] = Put(r.waiting, n, k, entry)]
          /\ o = IF DOMAIN r.waiting[n] = {} THEN Append(r.order, n) ELSE r.order
      BY <2>1 DEF GroupWaiting, GroupOrder
    <3> HIDE DEF w, o, k, entry
    <3> QED
      BY <1>2, <1>3, <3>3, <3>4, PutIs
  <2>2. CASE ~GroupWaits(r, group)
    <3>1. w = r.waiting /\ o = r.order
      BY <2>2 DEF GroupWaiting, GroupOrder
    <3> QED
      BY <1>1, <3>1
  <2> QED
    BY <2>1, <2>2
<1> HIDE DEF s, w, o, q, d
<1>6. q = Moved(r, s, w, o, r.misplaced)
  BY AddGroupIs DEF q, s, w, o
<1>7. q \in Records /\ Rest(r, q) /\ q.stack = s /\ q.waiting = w /\ q.order = o /\ q.misplaced = r.misplaced
  <2> DEFINE m == r.misplaced
  <2>1. m \in SUBSET Nodes /\ q = Moved(r, s, w, o, m)
    BY <1>1, <1>6
  <2>2. w \in Waitings /\ o \in Seq(Nodes) /\ s \in Seq(Items) /\ r \in Records
    BY <1>1, <1>4, <1>5
  <2> HIDE DEF m
  <2>3. q \in Records /\ Rest(r, q) /\ q.stack = s /\ q.waiting = w /\ q.order = o /\ q.misplaced = m
    BY <2>1, <2>2, RestFacts
  <2> QED
    BY <2>3 DEF m
<1>8. AddsFor(r, q, {n})
  BY <1>4, <1>5, <1>7 DEF AddsFor, TypeOK
<1> QED
  BY <1>7, <1>8 DEF s, w, o, q

\* Step by step for as long as there is something to take.
StepsTo(m, S) == [(1..m) \X S -> S]
AreStepsTo(f, m, S, a, F) ==
    f \in [0..m -> S] /\ f[0] = a /\ \A k \in 1..m : f[k] = F[<<k, f[k - 1]>>]
LEMMA Stepwise ==
    ASSUME NEW S, NEW a \in S, NEW m \in Nat, NEW F \in StepsTo(m, S)
    PROVE  \E f : AreStepsTo(f, m, S, a, F)
<1> USE DEF StepsTo, AreStepsTo
<1> DEFINE G == [x \in Nat \X S |-> IF x[1] + 1 \in 1..m THEN F[<<x[1] + 1, x[2]>>] ELSE x[2]]
<1>1. G \in [Nat \X S -> S]
  OBVIOUS
<1>2. \A k \in 0..m : \A x \in S : k + 1 \in 1..m => G[<<k, x>>] = F[<<k + 1, x>>]
  OBVIOUS
<1> HIDE DEF G
<1>3. PICK h : AreSteps(h, S, a, G)
  BY <1>1, Iterated DEF StepsIn
<1>4. h \in [Nat -> S] /\ h[0] = a /\ \A k \in Nat : h[k + 1] = G[<<k, h[k]>>]
  BY <1>3 DEF AreSteps
<1> DEFINE f == [k \in 0..m |-> h[k]]
<1>5. f \in [0..m -> S] /\ f[0] = a
  BY <1>4
<1>6. ASSUME NEW k \in 1..m PROVE f[k] = F[<<k, f[k - 1]>>]
  <2>1. k \in 0..m /\ k - 1 \in 0..m /\ k - 1 \in Nat /\ (k - 1) + 1 = k
    OBVIOUS
  <2>2. h[k] = G[<<k - 1, h[k - 1]>>] /\ h[k - 1] \in S
    BY <1>4, <2>1
  <2>3. h[k] = F[<<k, h[k - 1]>>]
    BY <1>2, <2>1, <2>2
  <2> QED
    BY <2>1, <2>3
<1> HIDE DEF f
<1> QED
  BY <1>5, <1>6

\* A start node with sources gets its groups one after the other.
StartLinks(graph, n) == {l \in graph.links : l.to = n}
GroupsOf(r, graph, rank, n) == SourceGroups(StartLinks(graph, n), r.runData, rank)

LEMMA GroupsAre ==
    ASSUME workflow \in Workflows, NEW d \in Nodes, NEW rank \in Orders, NEW n, NEW r
    PROVE  LET groups == GroupsOf(r, Subgraph(d), rank, n)
           IN  /\ Len(groups) \in Nat /\ DOMAIN groups = 1..Len(groups)
               /\ \A k \in 1..Len(groups) : LeadsTo(groups[k], n)
               /\ \A l \in StartLinks(Subgraph(d), n) : \E k \in 1..Len(groups) : l \in groups[k]
<1> DEFINE links == StartLinks(Subgraph(d), n)
           groups == GroupsOf(r, Subgraph(d), rank, n)
           Groups == {group \in SUBSET links : IsGroup(group, links)}
<1>1. links \subseteq workflow.links /\ \A l \in links : l.to = n
  BY SubgraphFacts DEF StartLinks
<1>2. links \in SUBSET Links /\ IsFiniteSet(links)
  BY <1>1, GraphFacts, FS_Subset
<1>3. groups = SourceGroups(links, r.runData, rank)
  BY DEF GroupsOf
<1> HIDE DEF links, groups
<1>4. groups \in Seq(Groups) /\ \A l \in links : \E k \in 1..Len(groups) : l \in groups[k]
  BY <1>1, <1>2, <1>3, SourceGroupsFacts
<1>5. \A g \in Groups : LeadsTo(g, n)
  BY <1>1 DEF LeadsTo, IsGroup
<1> HIDE DEF Groups
<1> QED
  BY <1>4, <1>5 DEF groups, links

LEMMA AddStartSteps ==
    ASSUME workflow \in Workflows, NEW d \in Nodes, NEW rank \in Orders, NEW n \in Nodes,
           NEW r, TypeOK(r), StartLinks(Subgraph(d), n) # {}
    PROVE  LET groups == GroupsOf(r, Subgraph(d), rank, n)
           IN  \E f : /\ f[0] = r /\ AddStart(r, Subgraph(d), rank, n) = f[Len(groups)]
                      /\ \A k \in 1..Len(groups) : f[k] = AddGroup(f[k - 1], n, groups[k])
<1> DEFINE graph == Subgraph(d)
           groups == GroupsOf(r, graph, rank, n)
           m == Len(groups)
           S == {q \in Records : TypeOK(q)}
           F == [x \in (1..m) \X S |-> AddGroup(x[2], n, groups[x[1]])]
           Eq(f) == f = [k \in 0..m |-> IF k = 0 THEN r ELSE AddGroup(f[k - 1], n, groups[k])]
           added == CHOOSE f : Eq(f)
<1>1. m \in Nat /\ \A k \in 1..m : LeadsTo(groups[k], n)
  BY GroupsAre
<1>2. AddStart(r, graph, rank, n) = added[m]
  BY DEF AddStart, GroupsOf, StartLinks
<1> HIDE DEF groups, m, added
<1>3. F \in [(1..m) \X S -> S] /\ r \in S
  <2>1. ASSUME NEW k \in 1..m, NEW q \in S PROVE AddGroup(q, n, groups[k]) \in S
    <3>1. TypeOK(q) /\ LeadsTo(groups[k], n)
      BY <1>1
    <3>2. TypeOK(AddGroup(q, n, groups[k]))
      BY <3>1, AddGroupFacts DEF AddsFor
    <3> QED
      BY <3>2 DEF TypeOK
  <2> HIDE DEF S
  <2>2. F \in [(1..m) \X S -> S]
    BY <2>1
  <2> QED
    BY <2>2 DEF S, TypeOK
<1>4. \A k \in 1..m : \A q \in S : F[<<k, q>>] = AddGroup(q, n, groups[k])
  <2> SUFFICES ASSUME NEW k \in 1..m, NEW q \in S PROVE F[<<k, q>>] = AddGroup(q, n, groups[k])
    OBVIOUS
  <2>1. <<k, q>> \in (1..m) \X S /\ <<k, q>>[1] = k /\ <<k, q>>[2] = q
    OBVIOUS
  <2> DEFINE x == <<k, q>>
  <2> HIDE DEF S, x
  <2>2. x \in (1..m) \X S
    BY <2>1 DEF x
  <2>3. F[x] = AddGroup(x[2], n, groups[x[1]])
    BY <2>2
  <2>4. x[1] = k /\ x[2] = q
    BY <2>1 DEF x
  <2> HIDE DEF F
  <2>5. F[x] = AddGroup(q, n, groups[k])
    BY <2>3, <2>4
  <2> QED
    BY <2>5 DEF x
<1> HIDE DEF S, F
<1>5. PICK h \in [0..m -> S] : h[0] = r /\ \A k \in 1..m : h[k] = F[<<k, h[k - 1]>>]
  <2>1. m \in Nat /\ r \in S /\ F \in StepsTo(m, S)
    BY <1>1, <1>3 DEF StepsTo
  <2>2. \E h : AreStepsTo(h, m, S, r, F)
    BY <2>1, Stepwise
  <2> QED
    BY <2>2 DEF AreStepsTo
<1>6. Eq(h)
  <2>1. ASSUME NEW k \in 1..m PROVE h[k] = AddGroup(h[k - 1], n, groups[k])
    <3>1. k - 1 \in 0..m
      BY <1>1
    <3>2. h[k - 1] \in S
      BY <1>5, <3>1
    <3> QED
      BY <1>4, <1>5, <3>2
  <2>2. h = [k \in 0..m |-> h[k]] /\ \A k \in 0..m : k # 0 => k \in 1..m
    BY <1>1, <1>5
  <2> QED
    BY <1>5, <2>1, <2>2
<1>7. Eq(added)
  BY <1>6 DEF added
<1>8. added[0] = r /\ \A k \in 1..m : added[k] = AddGroup(added[k - 1], n, groups[k])
  <2>1. 0 \in 0..m /\ \A k \in 1..m : k \in 0..m /\ k # 0
    BY <1>1
  <2> QED
    BY <1>7, <2>1
<1> QED
  BY <1>2, <1>8 DEF m, groups

\* The empty item that a node without sources gets.
GivenItem(n) == Item(n, [i \in {0} |-> Given])
LEMMA GivenItemIs ==
    ASSUME NEW n \in Nodes
    PROVE  GivenItem(n) \in Items /\ GivenItem(n).node = n /\ ~GivenItem(n).disabled
           /\ DOMAIN GivenItem(n).data = {0} /\ GivenItem(n).data[0] = Given
<1> DEFINE d == [i \in {0} |-> Given]
<1>1. DOMAIN d = {0} /\ d[0] = Given /\ d \in [{0} -> Values]
  BY DEF Values
<1> HIDE DEF d
<1>2. d \in Data
  BY <1>1 DEF Data
<1>3. GivenItem(n) = Item(n, d)
  BY DEF GivenItem, d
<1> QED
  BY <1>1, <1>2, <1>3 DEF Item, Items

\* What a start node gets is its own.
LEMMA AddStartFacts ==
    ASSUME workflow \in Workflows, NEW d \in Nodes, NEW rank \in Orders, NEW n \in Nodes,
           NEW r, TypeOK(r)
    PROVE  AddsFor(r, AddStart(r, Subgraph(d), rank, n), {n})
<1> DEFINE q == AddStart(r, Subgraph(d), rank, n)
<1>1. CASE StartLinks(Subgraph(d), n) = {}
  <2> DEFINE x == GivenItem(n)
             s == Append(r.stack, x)
  <2>1. q = [r EXCEPT !.stack = Append(@, x)]
    BY <1>1 DEF AddStart, StartLinks, GivenItem
  <2>2. r \in Records /\ r.stack \in Seq(Items)
    BY DEF TypeOK, Records
  <2>3. x \in Items /\ x.node = n /\ ~x.disabled
    BY GivenItemIs
  <2> HIDE DEF x
  <2>4. /\ s \in Seq(Items)
        /\ \A i \in DOMAIN s : (i \in DOMAIN r.stack /\ s[i] = r.stack[i]) \/ s[i] = x
    BY <2>2, <2>3, AppendedIs
  <2>5. q = [r EXCEPT !.stack = s]
    BY <2>1
  <2> HIDE DEF q, s
  <2>6. /\ q \in Records /\ Rest(r, q) /\ q.stack = s /\ q.waiting = r.waiting /\ q.order = r.order
        /\ q.misplaced = r.misplaced
    BY <2>2, <2>4, <2>5 DEF Records, Rest
  <2> QED
    BY <2>3, <2>4, <2>6 DEF AddsFor, TypeOK, q
<1>2. CASE StartLinks(Subgraph(d), n) # {}
  <2> DEFINE groups == GroupsOf(r, Subgraph(d), rank, n)
             m == Len(groups)
  <2>1. PICK f : /\ f[0] = r /\ q = f[m]
                 /\ \A k \in 1..m : f[k] = AddGroup(f[k - 1], n, groups[k])
    BY <1>2, AddStartSteps
  <2>2. m \in Nat /\ \A k \in 1..m : LeadsTo(groups[k], n)
    BY GroupsAre
  <2> HIDE DEF groups, m, q
  <2> DEFINE T == {k \in Nat : k <= m => AddsFor(r, f[k], {n})}
  <2>3. 0 \in T
    BY <2>1 DEF AddsFor, Rest
  <2>4. ASSUME NEW k \in Nat, k \in T PROVE k + 1 \in T
    <3> SUFFICES ASSUME k + 1 <= m PROVE AddsFor(r, f[k + 1], {n})
      OBVIOUS
    <3>1. k + 1 \in 1..m /\ (k + 1) - 1 = k /\ k <= m
      BY <2>2
    <3>2. AddsFor(r, f[k], {n})
      BY <2>4, <3>1
    <3>3. TypeOK(f[k]) /\ LeadsTo(groups[k + 1], n) /\ f[k + 1] = AddGroup(f[k], n, groups[k + 1])
      BY <2>1, <2>2, <3>1, <3>2 DEF AddsFor
    <3>4. AddsFor(f[k], f[k + 1], {n})
      BY <3>3, AddGroupFacts
    <3>5. AddsFor(r, f[k + 1], {n} \cup {n})
      BY <3>2, <3>4, AddsForBoth
    <3> QED
      BY <3>5
  <2>5. Nat \subseteq T
    <3> HIDE DEF T
    <3> QED BY <2>3, <2>4, Induct
  <2> QED
    BY <2>1, <2>2, <2>5 DEF q
<1> QED
  BY <1>1, <1>2

\* The start nodes one after the other.
InTurn(starts, rank) == Sorted(starts, rank)
AreStarted(f, r, d, rank, inTurn) ==
    /\ f[0] = r
    /\ \A k \in 1..Len(inTurn) : f[k] = AddStart(f[k - 1], Subgraph(d), rank, inTurn[k])
LEMMA RecreateSteps ==
    ASSUME workflow \in Workflows, NEW d \in Nodes, NEW rank \in Orders,
           NEW starts \in SUBSET Nodes, NEW r, TypeOK(r)
    PROVE  LET inTurn == InTurn(starts, rank)
           IN  /\ Len(inTurn) \in Nat /\ \A k \in 1..Len(inTurn) : inTurn[k] \in starts
               /\ \E f : /\ AreStarted(f, r, d, rank, inTurn)
                         /\ RecreateStack(r, Subgraph(d), rank, starts) = f[Len(inTurn)]
<1> DEFINE graph == Subgraph(d)
           inTurn == InTurn(starts, rank)
           m == Len(inTurn)
           S == {q \in Records : TypeOK(q)}
           F == [x \in (1..m) \X S |-> AddStart(x[2], graph, rank, inTurn[x[1]])]
           Eq(f) == f = [k \in 0..m |-> IF k = 0 THEN r ELSE AddStart(f[k - 1], graph, rank, inTurn[k])]
           started == CHOOSE f : Eq(f)
<1>1. inTurn \in Seq(starts)
  <2>1. rank \in [Nodes -> Nat] /\ \A x, y \in Nodes : rank[x] = rank[y] => x = y
    BY PartialAssumption DEF IsInjective
  <2>2. IsFiniteSet(starts)
    BY EngineAssumption, FS_Subset
  <2> QED
    BY <2>1, <2>2, SortedFacts DEF InTurn
<1>2. RecreateStack(r, graph, rank, starts) = started[m]
  BY DEF RecreateStack, InTurn
<1> HIDE DEF inTurn
<1>3. m \in Nat /\ \A k \in 1..m : inTurn[k] \in starts
  BY <1>1
<1> HIDE DEF m, started, graph
<1>4. F \in [(1..m) \X S -> S] /\ r \in S
  <2>1. ASSUME NEW k \in 1..m, NEW q \in S PROVE AddStart(q, graph, rank, inTurn[k]) \in S
    <3>1. TypeOK(q) /\ inTurn[k] \in Nodes
      BY <1>3
    <3>2. TypeOK(AddStart(q, graph, rank, inTurn[k]))
      BY <3>1, AddStartFacts DEF AddsFor, graph
    <3> QED
      BY <3>2 DEF TypeOK
  <2> HIDE DEF S
  <2>2. F \in [(1..m) \X S -> S]
    BY <2>1
  <2> QED
    BY <2>2 DEF S, TypeOK
<1>5. ASSUME NEW k \in 1..m, NEW q \in S PROVE F[<<k, q>>] = AddStart(q, graph, rank, inTurn[k])
  <2>1. <<k, q>> \in (1..m) \X S /\ <<k, q>>[1] = k /\ <<k, q>>[2] = q
    OBVIOUS
  <2> DEFINE x == <<k, q>>
  <2> HIDE DEF S, x
  <2>2. x \in (1..m) \X S
    BY <2>1 DEF x
  <2>3. F[x] = AddStart(x[2], graph, rank, inTurn[x[1]])
    BY <2>2
  <2>4. x[1] = k /\ x[2] = q
    BY <2>1 DEF x
  <2> HIDE DEF F
  <2>5. F[x] = AddStart(q, graph, rank, inTurn[k])
    BY <2>3, <2>4
  <2> QED
    BY <2>5 DEF x
<1> HIDE DEF S, F
<1>6. PICK h \in [0..m -> S] : h[0] = r /\ \A k \in 1..m : h[k] = F[<<k, h[k - 1]>>]
  <2>1. m \in Nat /\ r \in S /\ F \in StepsTo(m, S)
    BY <1>3, <1>4 DEF StepsTo
  <2>2. \E h : AreStepsTo(h, m, S, r, F)
    BY <2>1, Stepwise
  <2> QED
    BY <2>2 DEF AreStepsTo
<1>7. Eq(h)
  <2>1. ASSUME NEW k \in 1..m PROVE h[k] = AddStart(h[k - 1], graph, rank, inTurn[k])
    <3>1. k - 1 \in 0..m
      BY <1>3
    <3>2. h[k - 1] \in S
      BY <1>6, <3>1
    <3> QED
      BY <1>5, <1>6, <3>2
  <2>2. h = [k \in 0..m |-> h[k]] /\ \A k \in 0..m : k # 0 => k \in 1..m
    BY <1>3, <1>6
  <2> QED
    BY <1>6, <2>1, <2>2
<1>8. Eq(started)
  BY <1>7 DEF started
<1>9. started[0] = r /\ \A k \in 1..m : started[k] = AddStart(started[k - 1], graph, rank, inTurn[k])
  <2>1. 0 \in 0..m /\ \A k \in 1..m : k \in 0..m /\ k # 0
    BY <1>3
  <2> QED
    BY <1>8, <2>1
<1> QED
  BY <1>2, <1>3, <1>9 DEF m, inTurn, graph, AreStarted

\* Stack and waiting entries are those of the start nodes.
LEMMA RecreateFacts ==
    ASSUME workflow \in Workflows, NEW d \in Nodes, NEW rank \in Orders,
           NEW starts \in SUBSET Nodes, NEW r, TypeOK(r)
    PROVE  AddsFor(r, RecreateStack(r, Subgraph(d), rank, starts), starts)
<1> DEFINE q == RecreateStack(r, Subgraph(d), rank, starts)
           inTurn == InTurn(starts, rank)
           m == Len(inTurn)
<1>1. m \in Nat /\ \A k \in 1..m : inTurn[k] \in starts
  BY RecreateSteps
<1>2. PICK f : AreStarted(f, r, d, rank, inTurn) /\ q = f[m]
  BY RecreateSteps
<1>3. f[0] = r /\ \A k \in 1..m : f[k] = AddStart(f[k - 1], Subgraph(d), rank, inTurn[k])
  BY <1>2 DEF AreStarted
<1> HIDE DEF inTurn, m, q
<1> DEFINE T == {k \in Nat : k <= m => AddsFor(r, f[k], starts)}
<1>4. 0 \in T
  BY <1>3 DEF AddsFor, Rest
<1>5. ASSUME NEW k \in Nat, k \in T PROVE k + 1 \in T
  <2> SUFFICES ASSUME k + 1 <= m PROVE AddsFor(r, f[k + 1], starts)
    OBVIOUS
  <2> DEFINE n == inTurn[k + 1]
  <2>1. k + 1 \in 1..m /\ (k + 1) - 1 = k /\ k <= m
    BY <1>1
  <2>2. n \in starts /\ AddsFor(r, f[k], starts)
    BY <1>1, <1>5, <2>1
  <2>3. TypeOK(f[k]) /\ f[k + 1] = AddStart(f[k], Subgraph(d), rank, n)
    BY <1>3, <2>1, <2>2 DEF AddsFor
  <2> HIDE DEF n
  <2>4. AddsFor(f[k], f[k + 1], {n})
    BY <2>2, <2>3, AddStartFacts
  <2>5. AddsFor(r, f[k + 1], starts \cup {n})
    BY <2>2, <2>4, AddsForBoth
  <2>6. starts \cup {n} = starts
    BY <2>2
  <2> QED
    BY <2>5, <2>6
<1>6. Nat \subseteq T
  <2> HIDE DEF T
  <2> QED BY <1>4, <1>5, Induct
<1> QED
  BY <1>1, <1>2, <1>6 DEF q

-----------------------------------------------------------------------------
(* What is computed by recursion *)

\* Functions whose values are, for each argument, among those allowed for it.
Allowed(X, Y, P) == {g \in [X -> Y] : \A x \in X : g[x] \in P[x]}
\* F[<<g, x>>] is what the recursion makes of x by means of g; it asks g only of what is smaller.
Recurs(X, Y, P, m, F) ==
    /\ \A g \in Allowed(X, Y, P), x \in X : F[<<g, x>>] \in Y \cap P[x]
    /\ \A g, h \in Allowed(X, Y, P), x \in X :
          (\A y \in X : m[y] < m[x] => g[y] = h[y]) => F[<<g, x>>] = F[<<h, x>>]

\* A recursion that goes down has a solution.
LEMMA Recursion ==
    ASSUME NEW X, NEW Y, NEW P, NEW m \in [X -> Nat], NEW F, Recurs(X, Y, P, m, F),
           Allowed(X, Y, P) # {}
    PROVE  \E f \in Allowed(X, Y, P) : \A x \in X : f[x] = F[<<f, x>>]
<1> DEFINE G == Allowed(X, Y, P)
           Better(g) == [x \in X |-> F[<<g, x>>]]
           E == [y \in Nat \X G |-> Better(y[2])]
<1>1. \A g \in G : Better(g) \in G
  BY DEF Recurs, Allowed
<1>2. PICK a \in G : TRUE
  OBVIOUS
<1>3. PICK h : AreSteps(h, G, a, E)
  <2> HIDE DEF G, Better
  <2>1. E \in StepsIn(G)
    BY <1>1 DEF StepsIn
  <2> HIDE DEF E
  <2> QED
    BY <1>2, <2>1, Iterated
<1>4. h \in [Nat -> G] /\ \A k \in Nat : h[k + 1] = Better(h[k])
  <2> HIDE DEF G, Better
  <2>1. h \in [Nat -> G] /\ \A k \in Nat : h[k + 1] = E[<<k, h[k]>>]
    BY <1>3 DEF AreSteps
  <2>2. \A k \in Nat : E[<<k, h[k]>>] = Better(h[k])
    BY <2>1
  <2> QED
    BY <2>1, <2>2
<1>5. \A k \in Nat, x \in X : h[k + 1][x] = F[<<h[k], x>>]
  BY <1>4
<1> HIDE DEF G, E, Better
<1> DEFINE T == {k \in Nat : \A x \in X : m[x] < k => h[k + 1][x] = h[k][x]}
<1>6. Nat \subseteq T
  <2>1. 0 \in T
    OBVIOUS
  <2>2. ASSUME NEW k \in Nat, k \in T PROVE k + 1 \in T
    <3> SUFFICES ASSUME NEW x \in X, m[x] < k + 1
                 PROVE  h[k + 2][x] = h[k + 1][x]
      OBVIOUS
    <3>1. \A y \in X : m[y] < m[x] => h[k + 1][y] = h[k][y]
      BY <2>2
    <3>2. h[k] \in G /\ h[k + 1] \in G /\ k + 1 \in Nat /\ (k + 1) + 1 = k + 2
      BY <1>4
    <3>3. F[<<h[k + 1], x>>] = F[<<h[k], x>>]
      BY <3>1, <3>2 DEF Recurs, G
    <3> QED
      BY <1>5, <3>2, <3>3
  <2> HIDE DEF T
  <2> QED
    BY <2>1, <2>2, Induct
<1>7. ASSUME NEW x \in X PROVE \A k \in Nat : h[m[x] + 1 + k][x] = h[m[x] + 1][x]
  <2> DEFINE U == {k \in Nat : h[m[x] + 1 + k][x] = h[m[x] + 1][x]}
  <2>1. 0 \in U
    OBVIOUS
  <2>2. ASSUME NEW k \in Nat, k \in U PROVE k + 1 \in U
    <3>1. m[x] + 1 + k \in T /\ m[x] < m[x] + 1 + k /\ (m[x] + 1 + k) + 1 = m[x] + 1 + (k + 1)
      BY <1>6
    <3> QED
      BY <2>2, <3>1
  <2>3. Nat \subseteq U
    <3> HIDE DEF U
    <3> QED BY <2>1, <2>2, Induct
  <2> QED
    BY <2>3
<1> DEFINE f == [x \in X |-> h[m[x] + 1][x]]
<1>8. f \in G
  <2>1. \A x \in X : h[m[x] + 1] \in G
    BY <1>4
  <2>2. \A x \in X : h[m[x] + 1][x] \in Y \cap P[x]
    BY <2>1 DEF G, Allowed
  <2> QED
    BY <2>2 DEF G, Allowed
<1>9. ASSUME NEW x \in X PROVE f[x] = F[<<f, x>>]
  <2>1. \A y \in X : m[y] < m[x] => f[y] = h[m[x]][y]
    <3> SUFFICES ASSUME NEW y \in X, m[y] < m[x] PROVE f[y] = h[m[x]][y]
      OBVIOUS
    <3> DEFINE k == m[x] - (m[y] + 1)
    <3>1. k \in Nat /\ m[y] + 1 + k = m[x]
      OBVIOUS
    <3> HIDE DEF k
    <3>2. h[m[x]][y] = h[m[y] + 1][y]
      BY <1>7, <3>1
    <3> QED
      BY <3>2
  <2>2. h[m[x]] \in G
    BY <1>4
  <2> HIDE DEF f
  <2>3. F[<<f, x>>] = F[<<h[m[x]], x>>]
    BY <1>8, <2>1, <2>2 DEF Recurs, G
  <2>4. f[x] = h[m[x] + 1][x]
    BY DEF f
  <2> QED
    BY <1>5, <2>3, <2>4
<1> HIDE DEF f
<1> QED
  BY <1>8, <1>9 DEF G

-----------------------------------------------------------------------------
(* The cycles that are found *)

\* The children of a node, in some order.
LEMMA ChildrenFacts ==
    ASSUME workflow \in Workflows, NEW d \in Nodes, NEW rank \in Orders, NEW n \in Nodes
    PROVE  LET children == Children(Subgraph(d), rank, n)
           IN  /\ children \in Seq(Nodes)
               /\ \A k \in 1..Len(children) : \E l \in Subgraph(d).links : l.from = n /\ l.to = children[k]
               /\ \A l \in Subgraph(d).links : l.from = n => \E k \in 1..Len(children) : children[k] = l.to
<1> DEFINE links == Subgraph(d).links
           S == {l.to : l \in {m \in links : m.from = n}}
           children == Children(Subgraph(d), rank, n)
<1>1. S \in SUBSET Nodes
  BY SubgraphFacts
<1>2. IsFiniteSet(S)
  BY <1>1, EngineAssumption, FS_Subset
<1>3. \A x \in S : rank[x] \in Nat
  BY <1>1, PartialAssumption
<1>4. \A x, y \in S : rank[x] = rank[y] => x = y
  BY <1>1, PartialAssumption DEF IsInjective
<1>5. children = Sorted(S, rank)
  BY DEF Children
<1>6. \A x : x \in S <=> \E l \in links : l.from = n /\ l.to = x
  OBVIOUS
<1> HIDE DEF children, S, links
<1>7. children \in Seq(S) /\ \A x \in S : \E k \in 1..Len(children) : children[k] = x
  BY <1>2, <1>3, <1>4, <1>5, SortedFacts
<1>8. \A k \in 1..Len(children) : children[k] \in S
  BY <1>7
<1>9. children \in Seq(Nodes)
  BY <1>1, <1>7
<1> QED
  BY <1>6, <1>7, <1>8, <1>9 DEF children, links

\* Fewer are left the more have been seen.
LEMMA FewerLeft ==
    ASSUME NEW A \in SUBSET Nodes, NEW B \in SUBSET Nodes, A \subseteq B
    PROVE  /\ Cardinality(Nodes \ A) \in Nat /\ Cardinality(A) \in Nat
           /\ A # B => Cardinality(Nodes \ B) < Cardinality(Nodes \ A)
           /\ A # B => Cardinality(A) < Cardinality(B)
<1>1. IsFiniteSet(Nodes)
  BY EngineAssumption
<1>2. IsFiniteSet(Nodes \ A) /\ IsFiniteSet(Nodes \ B) /\ IsFiniteSet(A) /\ IsFiniteSet(B)
  BY <1>1, FS_Subset
<1>3. /\ Cardinality(Nodes \ B) <= Cardinality(Nodes \ A)
      /\ Cardinality(Nodes \ B) = Cardinality(Nodes \ A) => Nodes \ A = Nodes \ B
  <2>1. Nodes \ B \in SUBSET (Nodes \ A)
    OBVIOUS
  <2> QED
    BY <1>2, <2>1, FS_Subset
<1>4. Cardinality(A) <= Cardinality(B) /\ (Cardinality(A) = Cardinality(B) => A = B)
  BY <1>2, FS_Subset
<1>5. /\ Cardinality(Nodes \ B) \in Nat /\ Cardinality(Nodes \ A) \in Nat
      /\ Cardinality(A) \in Nat /\ Cardinality(B) \in Nat
  BY <1>2, FS_CardinalityType
<1>6. Nodes \ A = Nodes \ B => A = B
  OBVIOUS
<1> QED
  BY <1>3, <1>4, <1>5, <1>6

\* What the single operations of the search do.
LEMMA EnterIs ==
    ASSUME NEW s \in Search, NEW n \in Nodes
    PROVE  LET q == Enter(s, n)
               id == Cardinality(Seen(s)) + 1
           IN  /\ q \in Search /\ Seen(q) = Seen(s) \cup {n} /\ id \in Nat /\ id > 0
               /\ q.low[n] = id /\ \A m \in Nodes \ {n} : q.low[m] = s.low[m]
               /\ Range(q.stack) = Range(s.stack) \cup {n} /\ q.found = s.found
<1> DEFINE q == Enter(s, n)
           id == Cardinality(Seen(s)) + 1
<1>1. id \in Nat /\ id > 0
  <2>1. Seen(s) \in SUBSET Nodes
    BY DEF Seen
  <2>2. IsFiniteSet(Seen(s))
    BY <2>1, EngineAssumption, FS_Subset
  <2>3. Cardinality(Seen(s)) \in Nat
    BY <2>2, FS_CardinalityType
  <2> QED
    BY <2>3
<1>2. q = [s EXCEPT !.low[n] = id, !.stack = <<n>> \o @]
  BY DEF Enter
<1> HIDE DEF id
<1>3. s.low \in [Nodes -> Nat] /\ s.stack \in Seq(Nodes)
  BY DEF Search
<1>4. q.low = [s.low EXCEPT ![n] = id] /\ q.stack = <<n>> \o s.stack /\ q.found = s.found
  BY <1>2 DEF Search
<1>5. q.low \in [Nodes -> Nat] /\ q.stack \in Seq(Nodes)
  BY <1>1, <1>3, <1>4
<1>6. q \in Search
  BY <1>2, <1>4, <1>5 DEF Search
<1>7. q.low[n] = id /\ \A m \in Nodes \ {n} : q.low[m] = s.low[m]
  BY <1>3, <1>4
<1>8. Seen(q) = Seen(s) \cup {n}
  BY <1>1, <1>7 DEF Seen
<1>9. Range(q.stack) = Range(s.stack) \cup {n}
  <2>1. \A i \in DOMAIN q.stack : q.stack[i] = n \/ (i - 1 \in DOMAIN s.stack /\ q.stack[i] = s.stack[i - 1])
    BY <1>3, <1>4
  <2>2. 1 \in DOMAIN q.stack /\ q.stack[1] = n
    BY <1>3, <1>4
  <2>3. \A i \in DOMAIN s.stack : i + 1 \in DOMAIN q.stack /\ q.stack[i + 1] = s.stack[i]
    BY SMTT(30), <1>3, <1>4
  <2> HIDE DEF q
  <2> QED
    BY <2>1, <2>2, <2>3 DEF Range
<1> QED
  BY <1>1, <1>4, <1>6, <1>7, <1>8, <1>9 DEF id

LEMMA LowerIs ==
    ASSUME NEW s \in Search, NEW n \in Seen(s), NEW child \in Seen(s)
    PROVE  LET q == Lower(s, n, child)
           IN  /\ q \in Search /\ Seen(q) = Seen(s) /\ q.low[n] \in {s.low[n], s.low[child]}
               /\ \A m \in Nodes \ {n} : q.low[m] = s.low[m]
               /\ q.stack = s.stack /\ q.found = s.found
<1>1. n \in Nodes /\ s.low \in [Nodes -> Nat] /\ s.low[n] > 0 /\ child \in Nodes /\ s.low[child] > 0
  BY DEF Search, Seen
<1>2. CASE child \in Range(s.stack)
  <2> DEFINE q == Lower(s, n, child)
             low == Min({s.low[n], s.low[child]})
  <2>1. low \in {s.low[n], s.low[child]}
    BY <1>1, MinIsLeast
  <2>2. q = [s EXCEPT !.low[n] = low]
    BY <1>2 DEF Lower
  <2> HIDE DEF low, q
  <2>3. q.low = [s.low EXCEPT ![n] = low] /\ q.stack = s.stack /\ q.found = s.found
    BY <2>2 DEF Search
  <2>6. q \in Search
    <3>1. [s.low EXCEPT ![n] = low] \in [Nodes -> Nat]
      BY <1>1, <2>1
    <3> QED
      BY <2>2, <3>1 DEF Search
  <2>4. q.low[n] = low /\ \A m \in Nodes \ {n} : q.low[m] = s.low[m]
    BY <1>1, <2>3
  <2>5. Seen(q) = Seen(s)
    BY <1>1, <2>1, <2>4 DEF Seen
  <2> QED
    BY <2>1, <2>3, <2>4, <2>5, <2>6 DEF q
<1>3. CASE child \notin Range(s.stack)
  BY <1>3 DEF Lower
<1> QED
  BY <1>2, <1>3

LEMMA LeaveIs ==
    ASSUME NEW s \in Search, NEW n, NEW id
    PROVE  LET q == Leave(s, n, id)
           IN  /\ q \in Search /\ q.low = s.low /\ Seen(q) = Seen(s) /\ Range(q.stack) \subseteq Range(s.stack)
               /\ \A c \in q.found : c \in s.found \/ \A m \in c : m \in Range(s.stack) /\ s.low[m] = id
<1> DEFINE q == Leave(s, n, id)
           others == {k \in DOMAIN s.stack : s.low[s.stack[k]] # id}
           size == IF others = {} THEN Len(s.stack) ELSE Min(others) - 1
           left == SubSeq(s.stack, size + 1, Len(s.stack))
           top == SubSeq(s.stack, 1, size)
<1>1. CASE s.low[n] # id \/ size = 0
  BY <1>1 DEF Leave, Search
<1>2. CASE ~(s.low[n] # id \/ size = 0)
  <2>1. s.stack \in Seq(Nodes) /\ DOMAIN s.stack = 1..Len(s.stack) /\ Len(s.stack) \in Nat
    BY DEF Search
  <2>2. size \in 0..Len(s.stack) /\ \A k \in 1..size : k \notin others
    <3>1. CASE others = {}
      BY <2>1, <3>1
    <3>2. CASE others # {}
      <4>1. others \in SUBSET Nat
        BY <2>1
      <4>2. Min(others) \in others /\ \A k \in others : Min(others) <= k
        BY <3>2, <4>1, MinIsLeast
      <4>3. Min(others) \in 1..Len(s.stack)
        BY <2>1, <4>2
      <4> HIDE DEF others
      <4> QED
        BY <3>2, <4>2, <4>3
    <3> QED
      BY <3>1, <3>2
  <2>3. q = [s EXCEPT !.stack = left, !.found = @ \cup {Range(top)}]
    BY <1>2 DEF Leave
  <2> HIDE DEF size
  <2>4. left \in Seq(Nodes) /\ \A i \in DOMAIN left : \E k \in DOMAIN s.stack : left[i] = s.stack[k]
    <3>1. Len(left) = IF size + 1 <= Len(s.stack) THEN Len(s.stack) - size ELSE 0
      BY <2>1, <2>2
    <3>2. \A i \in DOMAIN left : left[i] = s.stack[size + i] /\ size + i \in DOMAIN s.stack
      BY <2>1, <2>2, <3>1
    <3>3. left \in Seq(Nodes)
      BY <2>1, <2>2
    <3> QED
      BY <3>2, <3>3
  <2>5. \A i \in DOMAIN top : i \in 1..size /\ top[i] = s.stack[i]
    BY <2>1, <2>2
  <2>6. \A m \in Range(top) : m \in Range(s.stack) /\ s.low[m] = id
    <3> SUFFICES ASSUME NEW i \in DOMAIN top PROVE top[i] \in Range(s.stack) /\ s.low[top[i]] = id
      BY DEF Range
    <3>1. i \in 1..size /\ top[i] = s.stack[i] /\ i \in DOMAIN s.stack
      BY <2>1, <2>2, <2>5
    <3>2. i \notin others
      BY <2>2, <3>1
    <3> HIDE DEF top
    <3> QED
      BY <3>1, <3>2 DEF Range
  <2>7. Range(top) \in SUBSET Nodes
    <3>1. Range(s.stack) \subseteq Nodes
      BY <2>1 DEF Range
    <3> HIDE DEF top
    <3> QED
      BY <2>6, <3>1
  <2>8. Range(left) \subseteq Range(s.stack)
    <3> HIDE DEF left
    <3> QED BY <2>4 DEF Range
  <2> HIDE DEF left, top, q
  <2>9. q.low = s.low /\ q.stack = left /\ q.found = s.found \cup {Range(top)} /\ q \in Search
    <3>1. left \in Seq(Nodes)
      BY <2>4
    <3>2. s.found \cup {Range(top)} \in SUBSET SUBSET Nodes
      BY <2>7 DEF Search
    <3> QED
      BY <2>3, <3>1, <3>2 DEF Search
  <2>10. Seen(q) = Seen(s)
    BY <2>9 DEF Seen
  <2> QED
    BY <2>6, <2>8, <2>9, <2>10 DEF q
<1> QED
  BY SMTT(30), <1>1, <1>2

-----------------------------------------------------------------------------
(* The components that are found are cycles *)

\* What can be reached from what can be reached can be reached.
LEMMA ReachThrough ==
    ASSUME NEW links, \A l \in links : l.to \in Nodes, NEW ns \in SUBSET Nodes,
           NEW n \in Reach(links, ns)
    PROVE  n \in Nodes /\ Reach(links, {n}) \subseteq Reach(links, ns)
<1>1. /\ Reach(links, ns) \subseteq Nodes
      /\ \A l \in links : l.from \in Reach(links, ns) => l.to \in Reach(links, ns)
  BY ReachFacts
<1>2. {n} \in SUBSET Nodes /\ {n} \subseteq Reach(links, ns)
  BY <1>1
<1>3. \A S : {n} \subseteq S /\ (\A l \in links : l.from \in S => l.to \in S) =>
                Reach(links, {n}) \subseteq S
  BY <1>2, ReachFacts
<1> QED
  BY <1>1, <1>2, <1>3

\* at[k] is the node that was visited as the k-th: the low links lead to nodes that can be
\* reached, and components are cycles.
Leads(links, s, at) == \A m \in Seen(s) : /\ s.low[m] <= Cardinality(Seen(s))
                                          /\ at[s.low[m]] \in Reach(links, {m})
Cycle(links, c) == \A a, b \in c : b \in Reach(links, {a})
Good(links, s, at) ==
    /\ at \in [Nat -> Nodes] /\ Leads(links, s, at)
    /\ Range(s.stack) \subseteq Seen(s)
    /\ \A c \in s.found : Cycle(links, c)
\* What is behind the search from s to q, which goes on from n.
Course(links, s, at, n, q, bt) ==
    /\ Good(links, q, bt)
    /\ \A i \in 1..Cardinality(Seen(s)) : bt[i] = at[i]
    /\ \A m \in Seen(s) : q.low[m] = s.low[m]
    /\ \A m \in Seen(q) \ Seen(s) : m \in Reach(links, {n})
Follows(links, s, n, q) ==
    /\ q \in Search /\ Seen(s) \cup {n} \subseteq Seen(q)
    /\ \A at : Good(links, s, at) => \E bt : Course(links, s, at, n, q, bt)
OnTheWay(links, s, n, q) ==
    /\ q \in Search /\ Seen(s) \cup {n} \subseteq Seen(q)
    /\ \A at : Good(links, s, at) =>
          \E bt : Course(links, s, at, n, q, bt) /\ bt[Cardinality(Seen(s)) + 1] = n

LEMMA SeenCount ==
    ASSUME NEW s
    PROVE  Seen(s) \in SUBSET Nodes /\ Cardinality(Seen(s)) \in Nat
<1>1. Seen(s) \in SUBSET Nodes
  BY DEF Seen
<1>2. IsFiniteSet(Seen(s))
  BY <1>1, EngineAssumption, FS_Subset
<1> QED
  BY <1>1, <1>2, FS_CardinalityType

LEMMA OneMoreSeen ==
    ASSUME NEW s, NEW n \in Nodes \ Seen(s)
    PROVE  Cardinality(Seen(s) \cup {n}) = Cardinality(Seen(s)) + 1
<1>1. Seen(s) \in SUBSET Nodes
  BY DEF Seen
<1>2. IsFiniteSet(Seen(s))
  BY <1>1, EngineAssumption, FS_Subset
<1> QED
  BY <1>2, FS_AddElement

LEMMA EnterGoes ==
    ASSUME NEW links, \A l \in links : l.to \in Nodes, NEW s \in Search, NEW n \in Nodes \ Seen(s)
    PROVE  OnTheWay(links, s, n, Enter(s, n))
<1> DEFINE q == Enter(s, n)
           id == Cardinality(Seen(s)) + 1
<1>1. /\ q \in Search /\ Seen(q) = Seen(s) \cup {n} /\ id \in Nat /\ id > 0
      /\ q.low[n] = id /\ \A m \in Nodes \ {n} : q.low[m] = s.low[m]
      /\ Range(q.stack) = Range(s.stack) \cup {n} /\ q.found = s.found
  BY EnterIs
<1>2. Seen(s) \in SUBSET Nodes /\ Cardinality(Seen(s)) \in Nat
  BY SeenCount
<1>3. Cardinality(Seen(q)) = id
  BY <1>1, OneMoreSeen
<1>4. \A m \in Seen(s) : m \in Nodes \ {n} /\ s.low[m] \in Nat /\ s.low[m] > 0 /\ q.low[m] = s.low[m]
  BY <1>1, <1>2 DEF Seen, Search
<1> HIDE DEF q
<1>5. ASSUME NEW at, Good(links, s, at)
      PROVE  \E bt : Course(links, s, at, n, q, bt) /\ bt[id] = n
  <2> DEFINE bt == [at EXCEPT ![id] = n]
  <2>1. at \in [Nat -> Nodes]
    BY <1>5 DEF Good
  <2>2. bt \in [Nat -> Nodes] /\ bt[id] = n /\ \A i \in Nat : i # id => bt[i] = at[i]
    BY <1>1, <2>1
  <2> HIDE DEF bt
  <2>3. n \in Reach(links, {n})
    <3>1. {n} \in SUBSET Nodes
      OBVIOUS
    <3> QED
      BY <3>1, ReachFacts
  <2>4. Leads(links, q, bt)
    <3> SUFFICES ASSUME NEW m \in Seen(q)
                 PROVE  q.low[m] <= Cardinality(Seen(q)) /\ bt[q.low[m]] \in Reach(links, {m})
      BY DEF Leads
    <3>1. CASE m = n
      BY <1>1, <1>3, <2>2, <2>3, <3>1
    <3>2. CASE m # n
      <4>1. m \in Seen(s)
        BY <1>1, <3>2
      <4>2. s.low[m] <= Cardinality(Seen(s)) /\ at[s.low[m]] \in Reach(links, {m})
        BY <1>5, <4>1 DEF Good, Leads
      <4>3. q.low[m] = s.low[m] /\ s.low[m] \in Nat /\ s.low[m] # id /\ s.low[m] <= id
        BY <1>2, <1>4, <4>1, <4>2
      <4>4. bt[q.low[m]] = at[s.low[m]]
        BY <2>2, <4>3
      <4> QED
        BY <1>3, <4>2, <4>3, <4>4
    <3> QED
      BY <3>1, <3>2
  <2>5. Good(links, q, bt)
    BY <1>1, <1>5, <2>2, <2>4 DEF Good
  <2>6. \A i \in 1..Cardinality(Seen(s)) : bt[i] = at[i]
    BY <1>1, <1>2, <2>2
  <2>7. \A m \in Seen(q) \ Seen(s) : m \in Reach(links, {n})
    BY <1>1, <2>3
  <2> QED
    BY <1>4, <2>2, <2>5, <2>6, <2>7 DEF Course
<1> QED
  BY <1>1, <1>5 DEF OnTheWay, q

LEMMA LowerGoes ==
    ASSUME NEW links, \A l \in links : l.to \in Nodes, NEW s \in Search, NEW n \in Nodes \ Seen(s),
           NEW r, OnTheWay(links, s, n, r), NEW c \in Nodes, \E l \in links : l.from = n /\ l.to = c,
           NEW p, Follows(links, r, c, p)
    PROVE  OnTheWay(links, s, n, Lower(p, n, c))
<1> DEFINE q == Lower(p, n, c)
           id == Cardinality(Seen(s)) + 1
<1>1. r \in Search /\ Seen(s) \cup {n} \subseteq Seen(r) /\ p \in Search /\ Seen(r) \cup {c} \subseteq Seen(p)
  BY DEF OnTheWay, Follows
<1>2. /\ q \in Search /\ Seen(q) = Seen(p) /\ q.low[n] \in {p.low[n], p.low[c]}
      /\ \A m \in Nodes \ {n} : q.low[m] = p.low[m]
      /\ q.stack = p.stack /\ q.found = p.found
  <2>1. n \in Seen(p) /\ c \in Seen(p)
    BY <1>1
  <2> QED
    BY <1>1, <2>1, LowerIs
<1> HIDE DEF q
<1>3. Seen(s) \in SUBSET Nodes /\ Cardinality(Seen(s)) \in Nat /\ Cardinality(Seen(r)) \in Nat
  BY SeenCount
<1>4. Cardinality(Seen(s)) < Cardinality(Seen(r))
  <2>1. Seen(s) \in SUBSET Nodes /\ Seen(r) \in SUBSET Nodes /\ Seen(s) \subseteq Seen(r) /\ Seen(s) # Seen(r)
    BY <1>1, SeenCount
  <2> QED
    BY <2>1, FewerLeft
<1>5. c \in Reach(links, {n}) /\ Reach(links, {c}) \subseteq Reach(links, {n})
  <2>1. {n} \in SUBSET Nodes
    OBVIOUS
  <2>3. /\ {n} \subseteq Reach(links, {n})
        /\ \A l \in links : l.from \in Reach(links, {n}) => l.to \in Reach(links, {n})
    BY <2>1, ReachFacts
  <2>2. c \in Reach(links, {n})
    BY <2>3
  <2> QED
    BY <2>1, <2>2, ReachThrough
<1>6. ASSUME NEW at, Good(links, s, at)
      PROVE  \E bt : Course(links, s, at, n, q, bt) /\ bt[id] = n
  <2>1. PICK ct : Course(links, s, at, n, r, ct) /\ ct[id] = n
    BY <1>6 DEF OnTheWay
  <2>2. PICK bt : Course(links, r, ct, c, p, bt)
    BY <2>1 DEF Course, Follows
  <2>3. \A i \in 1..Cardinality(Seen(s)) : bt[i] = at[i]
    <3>1. \A i \in 1..Cardinality(Seen(s)) : i \in 1..Cardinality(Seen(r))
      BY <1>3, <1>4
    <3> QED
      BY <2>1, <2>2, <3>1 DEF Course
  <2>4. bt[id] = n
    <3>1. id \in 1..Cardinality(Seen(r))
      BY <1>3, <1>4
    <3> QED
      BY <2>1, <2>2, <3>1 DEF Course
  <2>5. \A m \in Seen(s) : q.low[m] = s.low[m]
    <3> SUFFICES ASSUME NEW m \in Seen(s) PROVE q.low[m] = s.low[m]
      OBVIOUS
    <3>1. m \in Nodes \ {n} /\ m \in Seen(r)
      BY <1>1, <1>3
    <3> QED
      BY <1>2, <2>1, <2>2, <3>1 DEF Course
  <2>6. \A m \in Seen(q) \ Seen(s) : m \in Reach(links, {n})
    BY <1>2, <1>5, <2>1, <2>2 DEF Course
  <2>7. Leads(links, q, bt)
    <3> SUFFICES ASSUME NEW m \in Seen(q)
                 PROVE  q.low[m] <= Cardinality(Seen(q)) /\ bt[q.low[m]] \in Reach(links, {m})
      BY DEF Leads
    <3>1. \A k \in Seen(p) : p.low[k] <= Cardinality(Seen(p)) /\ bt[p.low[k]] \in Reach(links, {k})
      BY <2>2 DEF Course, Good, Leads
    <3>2. CASE m # n
      <4>1. m \in Nodes \ {n} /\ m \in Seen(p)
        BY <1>2, <3>2, SeenCount
      <4> QED
        BY <1>2, <3>1, <4>1
    <3>3. CASE m = n
      <4>1. n \in Seen(p) /\ c \in Seen(p)
        BY <1>1
      <4> QED
        BY <1>2, <1>5, <3>1, <3>3, <4>1
    <3> QED
      BY <3>2, <3>3
  <2>8. Good(links, q, bt)
    BY <1>2, <2>2, <2>7 DEF Course, Good
  <2> QED
    BY <2>3, <2>4, <2>5, <2>6, <2>8 DEF Course
<1>7. Seen(s) \cup {n} \subseteq Seen(q)
  BY <1>1, <1>2
<1> QED
  BY <1>2, <1>6, <1>7 DEF OnTheWay, q

LEMMA LeaveGoes ==
    ASSUME NEW links, \A l \in links : l.to \in Nodes, NEW s \in Search, NEW n \in Nodes \ Seen(s),
           NEW r, OnTheWay(links, s, n, r)
    PROVE  Follows(links, s, n, Leave(r, n, Cardinality(Seen(s)) + 1))
<1> DEFINE id == Cardinality(Seen(s)) + 1
           q == Leave(r, n, id)
<1>1. r \in Search /\ Seen(s) \cup {n} \subseteq Seen(r)
  BY DEF OnTheWay
<1>2. /\ q \in Search /\ q.low = r.low /\ Seen(q) = Seen(r) /\ Range(q.stack) \subseteq Range(r.stack)
      /\ \A c \in q.found : c \in r.found \/ \A m \in c : m \in Range(r.stack) /\ r.low[m] = id
  BY <1>1, LeaveIs
<1>3. Seen(s) \in SUBSET Nodes /\ Cardinality(Seen(s)) \in Nat /\ id \in Nat
  BY SeenCount
<1> HIDE DEF q
<1>4. ASSUME NEW at, Good(links, s, at)
      PROVE  \E bt : Course(links, s, at, n, q, bt)
  <2>1. PICK bt : Course(links, s, at, n, r, bt) /\ bt[id] = n
    BY <1>4 DEF OnTheWay
  <2>2. Good(links, r, bt)
    BY <2>1 DEF Course
  <2>3. Leads(links, q, bt) /\ Range(q.stack) \subseteq Seen(q)
    BY <1>2, <2>2 DEF Good, Leads
  <2>4. ASSUME NEW c \in q.found PROVE Cycle(links, c)
    <3>1. CASE c \in r.found
      BY <2>2, <3>1 DEF Good
    <3>2. CASE c \notin r.found
      <4>1. \A m \in c : m \in Seen(r) /\ r.low[m] = id
        BY <1>2, <2>2, <3>2 DEF Good
      <4>2. \A m \in c : n \in Reach(links, {m})
        BY <2>1, <2>2, <4>1 DEF Good, Leads
      <4>3. \A m \in c : m \notin Seen(s)
        <5> SUFFICES ASSUME NEW m \in c, m \in Seen(s) PROVE FALSE
          OBVIOUS
        <5>1. r.low[m] = s.low[m]
          BY <2>1 DEF Course
        <5>2. s.low[m] <= Cardinality(Seen(s))
          BY <1>4 DEF Good, Leads
        <5> QED
          BY <1>3, <4>1, <5>1, <5>2
      <4>4. \A m \in c : m \in Reach(links, {n})
        BY <2>1, <4>1, <4>3 DEF Course
      <4>5. ASSUME NEW a \in c PROVE Reach(links, {n}) \subseteq Reach(links, {a})
        <5>1. {a} \in SUBSET Nodes
          BY <4>1, SeenCount
        <5> QED
          BY <4>2, <5>1, ReachThrough
      <4> QED
        BY <4>4, <4>5 DEF Cycle
    <3> QED
      BY <3>1, <3>2
  <2>5. Good(links, q, bt)
    BY <2>2, <2>3, <2>4 DEF Good
  <2> QED
    BY <1>2, <2>1, <2>5 DEF Course
<1> QED
  BY <1>1, <1>2, <1>4 DEF Follows, q

\* A node that has been visited.
LEMMA StayGoes ==
    ASSUME NEW links, NEW s \in Search, NEW n \in Seen(s)
    PROVE  Follows(links, s, n, s)
<1>1. \A at : Good(links, s, at) => Course(links, s, at, n, s, at)
  BY DEF Course
<1> QED
  BY <1>1 DEF Follows

\* A node's children are followed one after the other.
AreFollowed(h, S, children, g, s, n) ==
    /\ h \in [0..Len(children) -> S]
    /\ h[0] = Enter(s, n)
    /\ \A k \in 1..Len(children) : h[k] = Lower(g[<<h[k - 1], children[k]>>], n, children[k])
    /\ FollowNode(children, g, s, n) = Leave(h[Len(children)], n, Cardinality(Seen(s)) + 1)

LEMMA FollowSteps ==
    ASSUME NEW children \in Seq(Nodes), NEW g, NEW s, NEW n, ~(s.low[n] > 0),
           NEW S, Enter(s, n) \in S,
           \A k \in 1..Len(children) : \A r \in S : Lower(g[<<r, children[k]>>], n, children[k]) \in S
    PROVE  \E h : AreFollowed(h, S, children, g, s, n)
<1> DEFINE m == Len(children)
           a == Enter(s, n)
           id == Cardinality(Seen(s)) + 1
           To(k, r) == Lower(g[<<r, children[k]>>], n, children[k])
           F == [x \in (1..m) \X S |-> To(x[1], x[2])]
           Eq(f) == f = [k \in 0..m |-> IF k = 0 THEN a ELSE To(k, f[k - 1])]
           after == CHOOSE f : Eq(f)
<1>1. FollowNode(children, g, s, n) = Leave(after[m], n, id)
  BY DEF FollowNode
<1>2. m \in Nat
  OBVIOUS
<1>3. \A k \in 1..m : \A r \in S : To(k, r) \in S
  OBVIOUS
<1> HIDE DEF To, a, m, id, after
<1>4. F \in StepsTo(m, S) /\ \A k \in 1..m : \A r \in S : F[<<k, r>>] = To(k, r)
  BY <1>3 DEF StepsTo
<1> HIDE DEF F
<1>5. PICK h : AreStepsTo(h, m, S, a, F)
  <2>1. a \in S
    BY DEF a
  <2> QED
    BY <1>2, <1>4, <2>1, Stepwise
<1>6. h \in [0..m -> S] /\ h[0] = a /\ \A k \in 1..m : h[k] = To(k, h[k - 1])
  <2>1. h \in [0..m -> S] /\ h[0] = a /\ \A k \in 1..m : h[k] = F[<<k, h[k - 1]>>]
    BY <1>5 DEF AreStepsTo
  <2>2. \A k \in 1..m : k - 1 \in 0..m
    BY <1>2
  <2>3. \A k \in 1..m : h[k - 1] \in S
    BY <2>1, <2>2
  <2> QED
    BY <1>4, <2>1, <2>3
<1>7. Eq(h)
  <2>1. h = [k \in 0..m |-> h[k]] /\ \A k \in 0..m : k # 0 => k \in 1..m
    BY <1>2, <1>6
  <2> QED
    BY <1>6, <2>1
<1>8. Eq(after)
  BY <1>7 DEF after
<1>9. after[0] = a /\ \A k \in 1..m : after[k] = To(k, after[k - 1])
  <2>1. 0 \in 0..m /\ \A k \in 1..m : k \in 0..m /\ k # 0
    BY <1>2
  <2> QED
    BY <1>8, <2>1
<1>10. Nat \subseteq {k \in Nat : k \in 0..m => after[k] = h[k]}
  <2> DEFINE T == {k \in Nat : k \in 0..m => after[k] = h[k]}
  <2>1. 0 \in T
    BY <1>6, <1>9
  <2>2. ASSUME NEW k \in Nat, k \in T PROVE k + 1 \in T
    <3> SUFFICES ASSUME k + 1 \in 0..m PROVE after[k + 1] = h[k + 1]
      OBVIOUS
    <3>1. k \in 0..m /\ k + 1 \in 1..m /\ (k + 1) - 1 = k
      BY <1>2
    <3>2. after[k] = h[k]
      BY <2>2, <3>1
    <3>3. after[k + 1] = To(k + 1, after[k]) /\ h[k + 1] = To(k + 1, h[k])
      BY <1>6, <1>9, <3>1
    <3> QED
      BY <3>2, <3>3
  <2> HIDE DEF T
  <2>3. Nat \subseteq T
    BY <2>1, <2>2, Induct
  <2> QED
    BY <2>3 DEF T
<1>11. after[m] = h[m]
  <2>1. m \in Nat /\ m \in 0..m
    BY <1>2
  <2> QED
    BY <1>10, <2>1
<1> QED
  BY <1>1, <1>6, <1>11 DEF m, a, id, To, AreFollowed

\* What is allowed, and what has been left to see.
Pairs == Search \X Nodes
FollowsAt(links) == [x \in Pairs |-> {q \in Search : Follows(links, x[1], x[2], q)}]
ToSee == [x \in Pairs |-> Cardinality(Nodes \ Seen(x[1]))]
Follower(graph, rank) ==
    [y \in Allowed(Pairs, Search, FollowsAt(graph.links)) \X Pairs |->
        FollowNode(Children(graph, rank, y[2][2]), y[1], y[2][1], y[2][2])]

LEMMA AllowedFollow ==
    ASSUME NEW links, NEW g \in Allowed(Pairs, Search, FollowsAt(links)),
           NEW s \in Search, NEW n \in Nodes
    PROVE  g[<<s, n>>] \in Search /\ Follows(links, s, n, g[<<s, n>>])
<1>1. <<s, n>> \in Pairs
  BY DEF Pairs
<1>2. g[<<s, n>>] \in FollowsAt(links)[<<s, n>>]
  BY <1>1 DEF Allowed
<1>3. FollowsAt(links)[<<s, n>>] = {q \in Search : Follows(links, s, n, q)}
  BY <1>1 DEF FollowsAt
<1> QED
  BY <1>2, <1>3

LEMMA FollowNodeIs ==
    ASSUME workflow \in Workflows, NEW d \in Nodes, NEW rank \in Orders,
           NEW g \in Allowed(Pairs, Search, FollowsAt(Subgraph(d).links)),
           NEW s \in Search, NEW n \in Nodes \ Seen(s)
    PROVE  LET children == Children(Subgraph(d), rank, n)
               links == Subgraph(d).links
               S == {q \in Search : OnTheWay(links, s, n, q)}
           IN  \E h : AreFollowed(h, S, children, g, s, n)
<1> DEFINE children == Children(Subgraph(d), rank, n)
           links == Subgraph(d).links
           S == {q \in Search : OnTheWay(links, s, n, q)}
<1>1. /\ children \in Seq(Nodes)
      /\ \A k \in 1..Len(children) : \E l \in links : l.from = n /\ l.to = children[k]
  BY ChildrenFacts
<1>2. \A l \in links : l.to \in Nodes
  BY SubgraphFacts
<1> HIDE DEF children, links
<1>3. Enter(s, n) \in S
  <2>1. OnTheWay(links, s, n, Enter(s, n))
    BY <1>2, EnterGoes
  <2> QED
    BY <2>1 DEF OnTheWay
<1>4. ASSUME NEW k \in 1..Len(children), NEW r \in S
      PROVE  Lower(g[<<r, children[k]>>], n, children[k]) \in S
  <2> DEFINE c == children[k]
             p == g[<<r, c>>]
  <2>1. c \in Nodes /\ \E l \in links : l.from = n /\ l.to = c
    BY <1>1
  <2> HIDE DEF c
  <2>2. r \in Search /\ OnTheWay(links, s, n, r)
    OBVIOUS
  <2>3. Follows(links, r, c, p)
    BY <2>1, <2>2, AllowedFollow DEF links
  <2> HIDE DEF p
  <2>4. OnTheWay(links, s, n, Lower(p, n, c))
    BY <1>2, <2>1, <2>2, <2>3, LowerGoes
  <2>5. Lower(p, n, c) \in Search
    BY <2>4 DEF OnTheWay
  <2> QED
    BY <2>4, <2>5 DEF p, c
<1>5. ~(s.low[n] > 0)
  BY DEF Seen
<1> HIDE DEF S
<1>6. \E h : AreFollowed(h, S, children, g, s, n)
  BY <1>1, <1>3, <1>4, <1>5, FollowSteps
<1> QED
  BY <1>6 DEF S, children, links

LEMMA FollowNodeFollows ==
    ASSUME workflow \in Workflows, NEW d \in Nodes, NEW rank \in Orders,
           NEW g \in Allowed(Pairs, Search, FollowsAt(Subgraph(d).links)),
           NEW s \in Search, NEW n \in Nodes
    PROVE  Follows(Subgraph(d).links, s, n, FollowNode(Children(Subgraph(d), rank, n), g, s, n))
<1> DEFINE children == Children(Subgraph(d), rank, n)
           links == Subgraph(d).links
           S == {q \in Search : OnTheWay(links, s, n, q)}
<1>1. CASE n \in Seen(s)
  <2>1. FollowNode(children, g, s, n) = s
    BY <1>1 DEF FollowNode, Seen
  <2> QED
    BY <1>1, <2>1, StayGoes
<1>2. CASE n \notin Seen(s)
  <2>0. n \in Nodes \ Seen(s)
    BY <1>2
  <2>1. PICK h : AreFollowed(h, S, children, g, s, n)
    BY <2>0, FollowNodeIs
  <2>2. Len(children) \in Nat
    <3>1. children \in Seq(Nodes)
      BY ChildrenFacts
    <3> HIDE DEF children
    <3> QED
      BY <3>1
  <2>3. \A l \in links : l.to \in Nodes
    BY SubgraphFacts
  <2> HIDE DEF children, links
  <2>4. h[Len(children)] \in S
    BY <2>1, <2>2 DEF AreFollowed
  <2>5. OnTheWay(links, s, n, h[Len(children)])
    BY <2>4
  <2> QED
    BY <2>0, <2>1, <2>3, <2>5, LeaveGoes DEF links, children, AreFollowed
<1> QED
  BY <1>1, <1>2

LEMMA FollowNodeSame ==
    ASSUME workflow \in Workflows, NEW d \in Nodes, NEW rank \in Orders,
           NEW f \in Allowed(Pairs, Search, FollowsAt(Subgraph(d).links)),
           NEW g, NEW s \in Search, NEW n \in Nodes,
           \A y \in Pairs : ToSee[y] < ToSee[<<s, n>>] => f[y] = g[y]
    PROVE  FollowNode(Children(Subgraph(d), rank, n), f, s, n) =
              FollowNode(Children(Subgraph(d), rank, n), g, s, n)
<1> DEFINE children == Children(Subgraph(d), rank, n)
           links == Subgraph(d).links
           S == {q \in Search : OnTheWay(links, s, n, q)}
           id == Cardinality(Seen(s)) + 1
           To(e, k, r) == Lower(e[<<r, children[k]>>], n, children[k])
<1>1. CASE n \in Seen(s)
  BY <1>1 DEF FollowNode, Seen
<1>2. CASE n \notin Seen(s)
  <2>0. n \in Nodes \ Seen(s)
    BY <1>2
  <2>9. PICK h : AreFollowed(h, S, children, f, s, n)
    BY <2>0, FollowNodeIs
  <2>4. \A r \in S, c \in Nodes : f[<<r, c>>] = g[<<r, c>>]
    <3> SUFFICES ASSUME NEW r \in S, NEW c \in Nodes PROVE f[<<r, c>>] = g[<<r, c>>]
      OBVIOUS
    <3>1. r \in Search /\ Seen(s) \cup {n} \subseteq Seen(r)
      BY DEF OnTheWay
    <3>2. Seen(s) \in SUBSET Nodes /\ Seen(r) \in SUBSET Nodes
      BY SeenCount
    <3>3. Cardinality(Nodes \ Seen(r)) < Cardinality(Nodes \ Seen(s))
      <4>1. Seen(s) \subseteq Seen(r) /\ Seen(s) # Seen(r)
        BY <1>2, <3>1
      <4> QED
        BY <3>2, <4>1, FewerLeft
    <3>4. <<r, c>> \in Pairs /\ <<s, n>> \in Pairs
      BY <3>1 DEF Pairs
    <3>5. ToSee[<<r, c>>] = Cardinality(Nodes \ Seen(r)) /\ ToSee[<<s, n>>] = Cardinality(Nodes \ Seen(s))
      BY <3>4 DEF ToSee
    <3> QED
      BY <3>3, <3>4, <3>5
  <2>3. /\ children \in Seq(Nodes) /\ Len(children) \in Nat /\ \A k \in 1..Len(children) : children[k] \in Nodes
        /\ \A k \in 1..Len(children) : \E l \in links : l.from = n /\ l.to = children[k]
    <3>1. /\ children \in Seq(Nodes)
          /\ \A k \in 1..Len(children) : \E l \in links : l.from = n /\ l.to = children[k]
      BY ChildrenFacts
    <3> HIDE DEF children, links
    <3> QED
      BY <3>1
  <2>10. PICK j : AreFollowed(j, S, children, g, s, n)
    <3>1. \A l \in links : l.to \in Nodes
      BY SubgraphFacts
    <3> HIDE DEF children, links
    <3>2. Enter(s, n) \in S
      <4>1. OnTheWay(links, s, n, Enter(s, n))
        BY <2>0, <3>1, EnterGoes
      <4> QED
        BY <4>1 DEF OnTheWay
    <3>3. ASSUME NEW k \in 1..Len(children), NEW r \in S
          PROVE  Lower(g[<<r, children[k]>>], n, children[k]) \in S
      <4> DEFINE c == children[k]
                 p == f[<<r, c>>]
      <4>1. c \in Nodes /\ \E l \in links : l.from = n /\ l.to = c
        BY <2>3
      <4> HIDE DEF c
      <4>2. r \in Search /\ OnTheWay(links, s, n, r)
        OBVIOUS
      <4>3. Follows(links, r, c, p)
        BY <4>1, <4>2, AllowedFollow DEF links
      <4>6. p = g[<<r, c>>]
        BY <2>4, <4>1
      <4> HIDE DEF p
      <4>4. OnTheWay(links, s, n, Lower(p, n, c))
        BY <2>0, <3>1, <4>1, <4>2, <4>3, LowerGoes
      <4>5. Lower(p, n, c) \in Search
        BY <4>4 DEF OnTheWay
      <4> QED
        BY <4>4, <4>5, <4>6 DEF c
    <3>4. ~(s.low[n] > 0)
      BY <2>0 DEF Seen
    <3> HIDE DEF S
    <3>5. \A k \in 1..Len(children) : \A r \in S : Lower(g[<<r, children[k]>>], n, children[k]) \in S
      BY <3>3
    <3>6. children \in Seq(Nodes)
      BY <2>3
    <3> QED
      BY <3>2, <3>4, <3>5, <3>6, FollowSteps
  <2> HIDE DEF children, links
  <2>1. /\ h \in [0..Len(children) -> S] /\ h[0] = Enter(s, n)
        /\ \A k \in 1..Len(children) : h[k] = To(f, k, h[k - 1])
        /\ FollowNode(children, f, s, n) = Leave(h[Len(children)], n, id)
    BY <2>9 DEF AreFollowed
  <2>2. /\ j \in [0..Len(children) -> S] /\ j[0] = Enter(s, n)
        /\ \A k \in 1..Len(children) : j[k] = To(g, k, j[k - 1])
        /\ FollowNode(children, g, s, n) = Leave(j[Len(children)], n, id)
    BY <2>10 DEF AreFollowed
  <2> HIDE DEF id
  <2> DEFINE T == {k \in Nat : k \in 0..Len(children) => h[k] = j[k]}
  <2>5. 0 \in T
    BY <2>1, <2>2
  <2>6. ASSUME NEW k \in Nat, k \in T PROVE k + 1 \in T
    <3> SUFFICES ASSUME k + 1 \in 0..Len(children) PROVE h[k + 1] = j[k + 1]
      OBVIOUS
    <3>1. k \in 0..Len(children) /\ k + 1 \in 1..Len(children) /\ (k + 1) - 1 = k
      BY <2>3
    <3>2. h[k] = j[k] /\ h[k] \in S
      BY <2>1, <2>6, <3>1
    <3>3. h[k + 1] = To(f, k + 1, h[k]) /\ j[k + 1] = To(g, k + 1, j[k])
      BY <2>1, <2>2, <3>1
    <3>4. f[<<h[k], children[k + 1]>>] = g[<<h[k], children[k + 1]>>]
      BY <2>3, <2>4, <3>1, <3>2
    <3> QED
      BY <3>2, <3>3, <3>4
  <2>7. Nat \subseteq T
    <3> HIDE DEF T
    <3> QED BY <2>5, <2>6, Induct
  <2>8. h[Len(children)] = j[Len(children)]
    <3>1. Len(children) \in T /\ Len(children) \in 0..Len(children)
      BY <2>3, <2>7
    <3> QED
      BY <3>1
  <2> QED
    BY <2>1, <2>2, <2>8 DEF children
<1> QED
  BY <1>1, <1>2

\* What follow is: it goes on like the search of every node.
LEMMA FollowGoes ==
    ASSUME workflow \in Workflows, NEW d \in Nodes, NEW rank \in Orders
    PROVE  LET graph == Subgraph(d)
               follow == CHOOSE f : f = [x \in Search \X Nodes |->
                            FollowNode(Children(graph, rank, x[2]), f, x[1], x[2])]
           IN  \A s \in Search, n \in Nodes : Follows(graph.links, s, n, follow[<<s, n>>])
<1> DEFINE graph == Subgraph(d)
           links == graph.links
           To(f, s, n) == FollowNode(Children(graph, rank, n), f, s, n)
           Eq(f) == f = [x \in Search \X Nodes |-> To(f, x[1], x[2])]
           follow == CHOOSE f : Eq(f)
           P == FollowsAt(links)
           F == Follower(graph, rank)
           G == Allowed(Pairs, Search, P)
<1>1. \A g \in G, x \in Pairs : F[<<g, x>>] = To(g, x[1], x[2])
  BY DEF Follower
<1>2. \A x \in Pairs : x[1] \in Search /\ x[2] \in Nodes /\ x = <<x[1], x[2]>>
  BY DEF Pairs
<1>3. \A g \in G, x \in Pairs : To(g, x[1], x[2]) \in Search \cap P[x]
  <2> SUFFICES ASSUME NEW g \in G, NEW x \in Pairs PROVE To(g, x[1], x[2]) \in Search \cap P[x]
    OBVIOUS
  <2>1. Follows(links, x[1], x[2], To(g, x[1], x[2]))
    BY <1>2, FollowNodeFollows
  <2>2. P[x] = {q \in Search : Follows(links, x[1], x[2], q)}
    BY DEF FollowsAt
  <2>3. To(g, x[1], x[2]) \in Search
    BY <2>1 DEF Follows
  <2> QED
    BY <2>1, <2>2, <2>3
<1>4. ASSUME NEW f \in G, NEW g, NEW x \in Pairs, \A y \in Pairs : ToSee[y] < ToSee[x] => f[y] = g[y]
      PROVE  To(f, x[1], x[2]) = To(g, x[1], x[2])
  BY <1>2, <1>4, FollowNodeSame
<1>5. G # {}
  <2> DEFINE e == [x \in Pairs |-> IF x[2] \in Seen(x[1]) THEN x[1] ELSE Enter(x[1], x[2])]
  <2>1. ASSUME NEW x \in Pairs PROVE e[x] \in Search \cap P[x]
    <3>1. P[x] = {q \in Search : Follows(links, x[1], x[2], q)}
      BY DEF FollowsAt
    <3>2. Follows(links, x[1], x[2], e[x])
      <4>1. CASE x[2] \in Seen(x[1])
        BY <1>2, <4>1, StayGoes
      <4>2. CASE x[2] \notin Seen(x[1])
        <5>1. \A l \in links : l.to \in Nodes
          BY SubgraphFacts
        <5>2. OnTheWay(links, x[1], x[2], Enter(x[1], x[2]))
          BY <1>2, <4>2, <5>1, EnterGoes
        <5> QED
          BY <4>2, <5>2 DEF OnTheWay, Follows
      <4> QED
        BY <4>1, <4>2
    <3>3. e[x] \in Search
      BY <3>2 DEF Follows
    <3> QED
      BY <3>1, <3>2, <3>3
  <2>2. e \in G
    <3>1. e = [x \in Pairs |-> e[x]]
      OBVIOUS
    <3> HIDE DEF e
    <3> QED
      BY <2>1, <3>1 DEF Allowed
  <2> QED
    BY <2>2
<1>6. ToSee \in [Pairs -> Nat]
  <2>1. \A x \in Pairs : Cardinality(Nodes \ Seen(x[1])) \in Nat
    <3> SUFFICES ASSUME NEW x \in Pairs PROVE Cardinality(Nodes \ Seen(x[1])) \in Nat
      OBVIOUS
    <3>1. Seen(x[1]) \in SUBSET Nodes
      BY SeenCount
    <3> QED
      BY <3>1, FewerLeft
  <2> QED
    BY <2>1 DEF ToSee
<1> HIDE DEF To, P, F
<1>7. Recurs(Pairs, Search, P, ToSee, F)
  BY <1>1, <1>3, <1>4 DEF Recurs
<1>8. PICK g \in G : \A x \in Pairs : g[x] = F[<<g, x>>]
  BY <1>5, <1>6, <1>7, Recursion
<1>9. Eq(g)
  <2>1. g = [x \in Pairs |-> g[x]]
    BY DEF Allowed
  <2> QED
    BY <1>1, <1>8, <2>1 DEF Pairs
<1>10. Eq(follow)
  <2> HIDE DEF Eq
  <2> QED BY <1>9
<1> HIDE DEF follow
<1>11. \A x \in Pairs : follow[x] = To(follow, x[1], x[2]) /\ g[x] = To(g, x[1], x[2])
  BY <1>9, <1>10 DEF Pairs
<1> HIDE DEF Eq, G
<1> DEFINE T == {k \in Nat : \A x \in Pairs : ToSee[x] < k => g[x] = follow[x]}
<1>12. 0 \in T
  BY <1>6
<1>13. ASSUME NEW k \in Nat, k \in T PROVE k + 1 \in T
  <2> SUFFICES ASSUME NEW x \in Pairs, ToSee[x] < k + 1 PROVE g[x] = follow[x]
    OBVIOUS
  <2>1. \A y \in Pairs : ToSee[y] < ToSee[x] => g[y] = follow[y]
    <3> SUFFICES ASSUME NEW y \in Pairs, ToSee[y] < ToSee[x] PROVE g[y] = follow[y]
      OBVIOUS
    <3>1. ToSee[y] < k
      BY <1>6
    <3> QED
      BY <1>13, <3>1
  <2> QED
    BY <1>4, <1>11, <2>1
<1>14. Nat \subseteq T
  <2> HIDE DEF T
  <2> QED BY <1>12, <1>13, Induct
<1>15. \A x \in Pairs : g[x] = follow[x]
  <2> SUFFICES ASSUME NEW x \in Pairs PROVE g[x] = follow[x]
    OBVIOUS
  <2>1. ToSee[x] + 1 \in T /\ ToSee[x] < ToSee[x] + 1
    BY <1>6, <1>14
  <2> QED
    BY <2>1
<1>16. ASSUME NEW s \in Search, NEW n \in Nodes PROVE Follows(links, s, n, follow[<<s, n>>])
  <2>1. <<s, n>> \in Pairs
    BY DEF Pairs
  <2>2. Follows(links, s, n, g[<<s, n>>])
    BY AllowedFollow DEF G, P
  <2> QED
    BY <1>15, <2>1, <2>2
<1> QED
  BY <1>16 DEF follow, Eq, To

\* Whatever the graph, the order in which its nodes are visited and what the low links become: the
\* nodes of a component that getStronglyConnectedComponents finds all lead to each other.  It may
\* miss a cycle (README, Observed behaviours), but what it finds is one.
THEOREM ComponentsAreCycles ==
    ASSUME workflow \in Workflows, NEW d \in Nodes, NEW rank \in Orders
    PROVE  \A c \in Components(Subgraph(d), rank) : c \subseteq Nodes /\ Cycle(Subgraph(d).links, c)
<1> DEFINE graph == Subgraph(d)
           links == graph.links
           follow == CHOOSE f : f = [x \in Search \X Nodes |->
                        FollowNode(Children(graph, rank, x[2]), f, x[1], x[2])]
           inTurn == Sorted(graph.nodes, rank)
           m == Len(inTurn)
           a == [low |-> [n \in Nodes |-> 0], stack |-> <<>>, found |-> {}]
           To(k, q) == follow[<<q, inTurn[k]>>]
           Eq(f) == f = [k \in 0..m |-> IF k = 0 THEN a ELSE To(k, f[k - 1])]
           after == CHOOSE f : Eq(f)
           S == {q \in Search : \E at : Good(links, q, at)}
           F == [x \in (1..m) \X S |-> To(x[1], x[2])]
<1>1. Components(graph, rank) = after[m].found
  BY DEF Components
<1>2. \A s \in Search, n \in Nodes : Follows(links, s, n, follow[<<s, n>>])
  BY FollowGoes
<1>3. m \in Nat /\ \A k \in 1..m : inTurn[k] \in Nodes
  <2> DEFINE ns == graph.nodes
  <2>1. ns \in SUBSET Nodes
    BY SubgraphFacts
  <2>2. IsFiniteSet(ns)
    BY <2>1, EngineAssumption, FS_Subset
  <2>3. \A x \in ns : rank[x] \in Nat
    BY <2>1, PartialAssumption
  <2>4. \A x, y \in ns : rank[x] = rank[y] => x = y
    BY <2>1, PartialAssumption DEF IsInjective
  <2>5. inTurn \in Seq(ns)
    <3> HIDE DEF ns
    <3> QED BY <2>2, <2>3, <2>4, SortedFacts DEF ns
  <2> HIDE DEF ns, inTurn
  <2> QED
    BY <2>1, <2>5
<1> HIDE DEF graph, links, follow, inTurn, m, after
<1>4. ASSUME NEW k \in 1..m, NEW q \in S PROVE To(k, q) \in S
  <2>1. Follows(links, q, inTurn[k], To(k, q))
    BY <1>2, <1>3
  <2>2. PICK at : Good(links, q, at)
    OBVIOUS
  <2> HIDE DEF To
  <2>3. \E bt : Course(links, q, at, inTurn[k], To(k, q), bt)
    BY <2>1, <2>2 DEF Follows
  <2>4. \E bt : Good(links, To(k, q), bt)
    BY <2>3 DEF Course
  <2> QED
    BY <2>1, <2>4 DEF Follows
<1>5. a \in S
  <2>1. a \in Search
    BY DEF Search
  <2>2. Seen(a) = {}
    BY DEF Seen
  <2>3. a.stack = << >> /\ a.found = {}
    OBVIOUS
  <2> HIDE DEF a
  <2> DEFINE at == [k \in Nat |-> Start]
  <2>4. at \in [Nat -> Nodes]
    BY EngineAssumption
  <2> HIDE DEF at
  <2>5. Range(a.stack) = {}
    BY <2>3 DEF Range
  <2>6. Good(links, a, at)
    BY <2>2, <2>3, <2>4, <2>5 DEF Good, Leads
  <2> QED
    BY <2>1, <2>6
<1> HIDE DEF To, a, S
<1>6. F \in StepsTo(m, S) /\ \A k \in 1..m : \A q \in S : F[<<k, q>>] = To(k, q)
  BY <1>4 DEF StepsTo
<1> HIDE DEF F
<1>7. PICK h : AreStepsTo(h, m, S, a, F)
  BY <1>3, <1>5, <1>6, Stepwise
<1>8. h \in [0..m -> S] /\ h[0] = a /\ \A k \in 1..m : h[k] = To(k, h[k - 1])
  <2>1. h \in [0..m -> S] /\ h[0] = a /\ \A k \in 1..m : h[k] = F[<<k, h[k - 1]>>]
    BY <1>7 DEF AreStepsTo
  <2>2. \A k \in 1..m : k - 1 \in 0..m
    BY <1>3
  <2>3. \A k \in 1..m : h[k - 1] \in S
    BY <2>1, <2>2
  <2> QED
    BY <1>6, <2>1, <2>3
<1>9. Eq(h)
  <2>1. h = [k \in 0..m |-> h[k]] /\ \A k \in 0..m : k # 0 => k \in 1..m
    BY <1>3, <1>8
  <2> QED
    BY <1>8, <2>1
<1>10. Eq(after)
  BY <1>9 DEF after
<1>11. after[0] = a /\ \A k \in 1..m : after[k] = To(k, after[k - 1])
  <2>1. 0 \in 0..m /\ \A k \in 1..m : k \in 0..m /\ k # 0
    BY <1>3
  <2> QED
    BY <1>10, <2>1
<1> HIDE DEF Eq
<1> DEFINE T == {k \in Nat : k \in 0..m => after[k] \in S}
<1>12. 0 \in T
  BY <1>5, <1>11
<1>13. ASSUME NEW k \in Nat, k \in T PROVE k + 1 \in T
  <2> SUFFICES ASSUME k + 1 \in 0..m PROVE after[k + 1] \in S
    OBVIOUS
  <2>1. k \in 0..m /\ k + 1 \in 1..m /\ (k + 1) - 1 = k
    BY <1>3
  <2>2. after[k] \in S
    BY <1>13, <2>1
  <2>3. after[k + 1] = To(k + 1, after[k])
    BY <1>11, <2>1
  <2> QED
    BY <1>4, <2>1, <2>2, <2>3
<1>14. Nat \subseteq T
  <2> HIDE DEF T
  <2> QED BY <1>12, <1>13, Induct
<1>15. after[m] \in S
  <2>1. m \in T /\ m \in 0..m
    BY <1>3, <1>14
  <2> QED
    BY <2>1
<1>16. after[m] \in Search /\ \E at : Good(links, after[m], at)
  BY <1>15 DEF S
<1>17. after[m].found \in SUBSET SUBSET Nodes
  BY <1>16 DEF Search
<1>18. \A c \in after[m].found : Cycle(links, c)
  BY <1>16 DEF Good
<1> QED
  BY <1>1, <1>17, <1>18 DEF links, graph

-----------------------------------------------------------------------------
(* The first node of a cycle *)

\* The nodes that have been visited, and all that comes after those newly visited from n on.
Visits(links, v, n, w) ==
    /\ w \in Seq(Nodes) /\ Range(v) \cup {n} \subseteq Range(w)
    /\ \A l \in links : l.from \in Range(w) \ Range(v) => l.to \in Range(w)
VisitsFrom(links, v, n, w) ==
    /\ w \in Seq(Nodes) /\ Range(v) \cup {n} \subseteq Range(w)
    /\ \A l \in links : l.from \in Range(w) \ (Range(v) \cup {n}) => l.to \in Range(w)

LEMMA EntriesBelong ==
    ASSUME NEW S, NEW v \in Seq(S)
    PROVE  Range(v) \in SUBSET S
BY DEF Range

LEMMA AppendRange ==
    ASSUME NEW v \in Seq(Nodes), NEW n \in Nodes
    PROVE  Append(v, n) \in Seq(Nodes) /\ Range(Append(v, n)) = Range(v) \cup {n}
<1> DEFINE w == Append(v, n)
<1>1. w \in Seq(Nodes) /\ Len(w) = Len(v) + 1 /\ DOMAIN w = 1..Len(w) /\ DOMAIN v = 1..Len(v)
  OBVIOUS
<1>2. \A i \in 1..Len(v) : w[i] = v[i]
  OBVIOUS
<1>3. w[Len(v) + 1] = n /\ Len(v) \in Nat
  OBVIOUS
<1> HIDE DEF w
<1>4. \A i \in DOMAIN w : i \in DOMAIN v \/ i = Len(v) + 1
  BY <1>1, <1>3
<1>5. \A i \in DOMAIN v : i \in DOMAIN w
  BY <1>1, <1>3
<1>6. Len(v) + 1 \in DOMAIN w
  BY <1>1, <1>3
<1>7. Range(w) = Range(v) \cup {n}
  BY <1>1, <1>2, <1>3, <1>4, <1>5, <1>6 DEF Range
<1> QED
  BY <1>1, <1>7 DEF w

\* A node's children are visited one after the other.
AreVisited(h, S, children, g, v, n) ==
    /\ h \in [0..Len(children) -> S]
    /\ h[0] = Append(v, n)
    /\ \A k \in 1..Len(children) : h[k] = g[<<h[k - 1], children[k]>>]
    /\ VisitNode(children, g, v, n) = h[Len(children)]

LEMMA VisitSteps ==
    ASSUME NEW children \in Seq(Nodes), NEW g, NEW v, NEW n, n \notin Range(v),
           NEW S, Append(v, n) \in S,
           \A k \in 1..Len(children) : \A w \in S : g[<<w, children[k]>>] \in S
    PROVE  \E h : AreVisited(h, S, children, g, v, n)
<1> DEFINE m == Len(children)
           a == Append(v, n)
           To(k, w) == g[<<w, children[k]>>]
           F == [x \in (1..m) \X S |-> To(x[1], x[2])]
           Eq(f) == f = [k \in 0..m |-> IF k = 0 THEN a ELSE To(k, f[k - 1])]
           after == CHOOSE f : Eq(f)
<1>1. VisitNode(children, g, v, n) = after[m]
  BY DEF VisitNode
<1>2. m \in Nat
  OBVIOUS
<1>3. \A k \in 1..m : \A w \in S : To(k, w) \in S
  OBVIOUS
<1> HIDE DEF To, a, m, after
<1>4. F \in StepsTo(m, S) /\ \A k \in 1..m : \A w \in S : F[<<k, w>>] = To(k, w)
  BY <1>3 DEF StepsTo
<1> HIDE DEF F
<1>5. PICK h : AreStepsTo(h, m, S, a, F)
  <2>1. a \in S
    BY DEF a
  <2> QED
    BY <1>2, <1>4, <2>1, Stepwise
<1>6. h \in [0..m -> S] /\ h[0] = a /\ \A k \in 1..m : h[k] = To(k, h[k - 1])
  <2>1. h \in [0..m -> S] /\ h[0] = a /\ \A k \in 1..m : h[k] = F[<<k, h[k - 1]>>]
    BY <1>5 DEF AreStepsTo
  <2>2. \A k \in 1..m : k - 1 \in 0..m
    BY <1>2
  <2>3. \A k \in 1..m : h[k - 1] \in S
    BY <2>1, <2>2
  <2> QED
    BY <1>4, <2>1, <2>3
<1>7. Eq(h)
  <2>1. h = [k \in 0..m |-> h[k]] /\ \A k \in 0..m : k # 0 => k \in 1..m
    BY <1>2, <1>6
  <2> QED
    BY <1>6, <2>1
<1>8. Eq(after)
  BY <1>7 DEF after
<1>9. after[0] = a /\ \A k \in 1..m : after[k] = To(k, after[k - 1])
  <2>1. 0 \in 0..m /\ \A k \in 1..m : k \in 0..m /\ k # 0
    BY <1>2
  <2> QED
    BY <1>8, <2>1
<1> HIDE DEF Eq
<1> DEFINE T == {k \in Nat : k \in 0..m => after[k] = h[k]}
<1>10. Nat \subseteq T
  <2>1. 0 \in T
    BY <1>6, <1>9
  <2>2. ASSUME NEW k \in Nat, k \in T PROVE k + 1 \in T
    <3> SUFFICES ASSUME k + 1 \in 0..m PROVE after[k + 1] = h[k + 1]
      OBVIOUS
    <3>1. k \in 0..m /\ k + 1 \in 1..m /\ (k + 1) - 1 = k
      BY <1>2
    <3>2. after[k] = h[k]
      BY <2>2, <3>1
    <3>3. after[k + 1] = To(k + 1, after[k]) /\ h[k + 1] = To(k + 1, h[k])
      BY <1>6, <1>9, <3>1
    <3> QED
      BY <3>2, <3>3
  <2> HIDE DEF T
  <2> QED
    BY <2>1, <2>2, Induct
<1>11. after[m] = h[m]
  <2>1. m \in T /\ m \in 0..m
    BY <1>2, <1>10
  <2> QED
    BY <2>1
<1> QED
  BY <1>1, <1>6, <1>11 DEF m, a, To, AreVisited

VisitPairs == Seq(Nodes) \X Nodes
VisitsAt(links) == [x \in VisitPairs |-> {w \in Seq(Nodes) : Visits(links, x[1], x[2], w)}]
ToVisit == [x \in VisitPairs |-> Cardinality(Nodes \ Range(x[1]))]
Visitor(graph, rank) ==
    [y \in Allowed(VisitPairs, Seq(Nodes), VisitsAt(graph.links)) \X VisitPairs |->
        VisitNode(Children(graph, rank, y[2][2]), y[1], y[2][1], y[2][2])]

LEMMA AllowedVisit ==
    ASSUME NEW links, NEW g \in Allowed(VisitPairs, Seq(Nodes), VisitsAt(links)),
           NEW v \in Seq(Nodes), NEW n \in Nodes
    PROVE  Visits(links, v, n, g[<<v, n>>])
<1>1. <<v, n>> \in VisitPairs
  BY DEF VisitPairs
<1>2. g[<<v, n>>] \in VisitsAt(links)[<<v, n>>]
  BY <1>1 DEF Allowed
<1>3. VisitsAt(links)[<<v, n>>] = {w \in Seq(Nodes) : Visits(links, v, n, w)}
  BY <1>1 DEF VisitsAt
<1> QED
  BY <1>2, <1>3

\* One step, and all of them.
LEMMA VisitOne ==
    ASSUME NEW links, NEW v, NEW n, NEW w, VisitsFrom(links, v, n, w),
           NEW c, NEW u, Visits(links, w, c, u)
    PROVE  VisitsFrom(links, v, n, u)
BY DEF Visits, VisitsFrom

LEMMA VisitNodeIs ==
    ASSUME workflow \in Workflows, NEW d \in Nodes, NEW rank \in Orders,
           NEW f \in Allowed(VisitPairs, Seq(Nodes), VisitsAt(Subgraph(d).links)),
           NEW g, NEW v \in Seq(Nodes), NEW n \in Nodes, n \notin Range(v),
           \A y \in VisitPairs : ToVisit[y] < ToVisit[<<v, n>>] => f[y] = g[y]
    PROVE  LET children == Children(Subgraph(d), rank, n)
               S == {w \in Seq(Nodes) : VisitsFrom(Subgraph(d).links, v, n, w)}
           IN  /\ \A c \in Nodes, w \in S : f[<<w, c>>] = g[<<w, c>>] /\ Visits(Subgraph(d).links, w, c, f[<<w, c>>])
               /\ \E h : AreVisited(h, S, children, g, v, n)
<1> DEFINE children == Children(Subgraph(d), rank, n)
           links == Subgraph(d).links
           S == {w \in Seq(Nodes) : VisitsFrom(links, v, n, w)}
<1>1. ASSUME NEW w \in S, NEW c \in Nodes
      PROVE  f[<<w, c>>] = g[<<w, c>>] /\ Visits(links, w, c, f[<<w, c>>])
  <2>1. w \in Seq(Nodes) /\ Range(v) \cup {n} \subseteq Range(w)
    BY DEF VisitsFrom
  <2>2. Range(v) \in SUBSET Nodes /\ Range(w) \in SUBSET Nodes
    BY <2>1, EntriesBelong
  <2>3. Cardinality(Nodes \ Range(w)) < Cardinality(Nodes \ Range(v))
    <3>1. Range(v) \subseteq Range(w) /\ Range(v) # Range(w)
      BY <2>1
    <3> QED
      BY <2>2, <3>1, FewerLeft
  <2>4. <<w, c>> \in VisitPairs /\ <<v, n>> \in VisitPairs
    BY <2>1 DEF VisitPairs
  <2>5. ToVisit[<<w, c>>] = Cardinality(Nodes \ Range(w)) /\ ToVisit[<<v, n>>] = Cardinality(Nodes \ Range(v))
    BY <2>4 DEF ToVisit
  <2>6. f[<<w, c>>] = g[<<w, c>>]
    BY <2>3, <2>4, <2>5
  <2>7. Visits(links, w, c, f[<<w, c>>])
    BY <2>1, AllowedVisit
  <2> QED
    BY <2>6, <2>7
<1>2. children \in Seq(Nodes)
  BY ChildrenFacts
<1> HIDE DEF children, links
<1>3. Append(v, n) \in S
  <2>1. Append(v, n) \in Seq(Nodes) /\ Range(Append(v, n)) = Range(v) \cup {n}
    BY AppendRange
  <2> QED
    BY <2>1 DEF VisitsFrom
<1>4. \A k \in 1..Len(children) : children[k] \in Nodes
  BY <1>2
<1>5. \A k \in 1..Len(children) : \A w \in S : g[<<w, children[k]>>] \in S
  <2> SUFFICES ASSUME NEW k \in 1..Len(children), NEW w \in S PROVE g[<<w, children[k]>>] \in S
    OBVIOUS
  <2> DEFINE c == children[k]
  <2>1. c \in Nodes
    BY <1>4
  <2> HIDE DEF c
  <2>2. f[<<w, c>>] = g[<<w, c>>] /\ Visits(links, w, c, f[<<w, c>>])
    BY <1>1, <2>1
  <2>3. VisitsFrom(links, v, n, w)
    OBVIOUS
  <2>4. VisitsFrom(links, v, n, g[<<w, c>>])
    BY <2>2, <2>3, VisitOne
  <2> QED
    BY <2>4 DEF VisitsFrom, c
<1> HIDE DEF S
<1>6. \E h : AreVisited(h, S, children, g, v, n)
  BY <1>2, <1>3, <1>5, VisitSteps
<1>7. \A c \in Nodes, w \in S : f[<<w, c>>] = g[<<w, c>>] /\ Visits(links, w, c, f[<<w, c>>])
  BY <1>1
<1> QED
  BY <1>6, <1>7 DEF S, children, links

LEMMA VisitNodeVisits ==
    ASSUME workflow \in Workflows, NEW d \in Nodes, NEW rank \in Orders,
           NEW g \in Allowed(VisitPairs, Seq(Nodes), VisitsAt(Subgraph(d).links)),
           NEW v \in Seq(Nodes), NEW n \in Nodes
    PROVE  Visits(Subgraph(d).links, v, n, VisitNode(Children(Subgraph(d), rank, n), g, v, n))
<1> DEFINE children == Children(Subgraph(d), rank, n)
           links == Subgraph(d).links
           S == {w \in Seq(Nodes) : VisitsFrom(links, v, n, w)}
<1>1. CASE n \in Range(v)
  BY <1>1 DEF VisitNode, Visits
<1>2. CASE n \notin Range(v)
  <2>1. /\ \A c \in Nodes, w \in S : Visits(links, w, c, g[<<w, c>>])
        /\ \E h : AreVisited(h, S, children, g, v, n)
    BY ZenonT(60), <1>2, VisitNodeIs
  <2>2. PICK h : AreVisited(h, S, children, g, v, n)
    BY <2>1
  <2>3. /\ children \in Seq(Nodes) /\ Len(children) \in Nat
        /\ \A k \in 1..Len(children) : children[k] \in Nodes
        /\ \A l \in links : l.from = n => \E k \in 1..Len(children) : children[k] = l.to
    <3>1. /\ children \in Seq(Nodes)
          /\ \A l \in links : l.from = n => \E k \in 1..Len(children) : children[k] = l.to
      BY ChildrenFacts
    <3> HIDE DEF children, links
    <3> QED
      BY <3>1
  <2> HIDE DEF children, links
  <2>4. /\ h \in [0..Len(children) -> S]
        /\ \A k \in 1..Len(children) : h[k] = g[<<h[k - 1], children[k]>>]
        /\ VisitNode(children, g, v, n) = h[Len(children)]
    BY <2>2 DEF AreVisited
  <2>5. ASSUME NEW k \in 1..Len(children)
        PROVE  Range(h[k - 1]) \cup {children[k]} \subseteq Range(h[k])
    <3>1. k - 1 \in 0..Len(children)
      BY <2>3
    <3>2. h[k - 1] \in S /\ children[k] \in Nodes
      BY <2>3, <2>4, <3>1
    <3>3. Visits(links, h[k - 1], children[k], g[<<h[k - 1], children[k]>>])
      BY <2>1, <3>2
    <3> QED
      BY <2>4, <3>3 DEF Visits
  <2> DEFINE T == {k \in Nat : k \in 0..Len(children) => \A i \in 1..k : children[i] \in Range(h[k])}
  <2>6. 0 \in T
    OBVIOUS
  <2>7. ASSUME NEW k \in Nat, k \in T PROVE k + 1 \in T
    <3> SUFFICES ASSUME k + 1 \in 0..Len(children), NEW i \in 1..(k + 1)
                 PROVE  children[i] \in Range(h[k + 1])
      OBVIOUS
    <3>1. k \in 0..Len(children) /\ k + 1 \in 1..Len(children) /\ (k + 1) - 1 = k
      BY <2>3
    <3>2. Range(h[k]) \cup {children[k + 1]} \subseteq Range(h[k + 1])
      BY <2>5, <3>1
    <3>3. CASE i = k + 1
      BY <3>2, <3>3
    <3>4. CASE i # k + 1
      <4>1. i \in 1..k
        BY <3>4
      <4>2. children[i] \in Range(h[k])
        BY <2>7, <3>1, <4>1
      <4> QED
        BY <3>2, <4>2
    <3> QED
      BY <3>3, <3>4
  <2>8. Nat \subseteq T
    <3> HIDE DEF T
    <3> QED BY <2>6, <2>7, Induct
  <2> DEFINE w == h[Len(children)]
  <2>9. \A i \in 1..Len(children) : children[i] \in Range(w)
    <3>1. Len(children) \in T /\ Len(children) \in 0..Len(children)
      BY <2>3, <2>8
    <3> QED
      BY <3>1
  <2>10. VisitsFrom(links, v, n, w)
    <3>1. w \in S
      BY <2>3, <2>4
    <3> QED
      BY <3>1
  <2> HIDE DEF w, S, T
  <2>11. \A l \in links : l.from = n => l.to \in Range(w)
    BY <2>3, <2>9
  <2>12. Visits(links, v, n, w)
    BY <2>10, <2>11 DEF Visits, VisitsFrom
  <2> QED
    BY <2>4, <2>12 DEF w, links, children
<1> QED
  BY <1>1, <1>2

LEMMA VisitNodeSame ==
    ASSUME workflow \in Workflows, NEW d \in Nodes, NEW rank \in Orders,
           NEW f \in Allowed(VisitPairs, Seq(Nodes), VisitsAt(Subgraph(d).links)),
           NEW g, NEW v \in Seq(Nodes), NEW n \in Nodes,
           \A y \in VisitPairs : ToVisit[y] < ToVisit[<<v, n>>] => f[y] = g[y]
    PROVE  VisitNode(Children(Subgraph(d), rank, n), f, v, n) =
              VisitNode(Children(Subgraph(d), rank, n), g, v, n)
<1> DEFINE children == Children(Subgraph(d), rank, n)
           links == Subgraph(d).links
           S == {w \in Seq(Nodes) : VisitsFrom(links, v, n, w)}
<1>1. CASE n \in Range(v)
  BY <1>1 DEF VisitNode
<1>2. CASE n \notin Range(v)
  <2> DEFINE Same(w, c) == f[<<w, c>>] = g[<<w, c>>] /\ Visits(links, w, c, f[<<w, c>>])
  <2>12. (\A c \in Nodes, w \in S : Same(w, c)) /\ \E h : AreVisited(h, S, children, g, v, n)
    BY ZenonT(60), <1>2, VisitNodeIs
  <2>1. /\ \A c \in Nodes, w \in S : f[<<w, c>>] = g[<<w, c>>]
        /\ \E h : AreVisited(h, S, children, g, v, n)
    <3> HIDE DEF S, children, links
    <3> QED BY <2>12
  <2>2. \E h : AreVisited(h, S, children, f, v, n)
    BY ZenonT(60), <1>2, VisitNodeIs
  <2>3. PICK h : AreVisited(h, S, children, f, v, n)
    BY <2>2
  <2>4. PICK j : AreVisited(j, S, children, g, v, n)
    BY <2>1
  <2>5. Len(children) \in Nat /\ \A k \in 1..Len(children) : children[k] \in Nodes
    <3>1. children \in Seq(Nodes)
      BY ChildrenFacts
    <3> HIDE DEF children
    <3> QED
      BY <3>1
  <2> HIDE DEF children, S
  <2>6. /\ h \in [0..Len(children) -> S] /\ h[0] = Append(v, n)
        /\ \A k \in 1..Len(children) : h[k] = f[<<h[k - 1], children[k]>>]
        /\ VisitNode(children, f, v, n) = h[Len(children)]
    BY <2>3 DEF AreVisited
  <2>7. /\ j \in [0..Len(children) -> S] /\ j[0] = Append(v, n)
        /\ \A k \in 1..Len(children) : j[k] = g[<<j[k - 1], children[k]>>]
        /\ VisitNode(children, g, v, n) = j[Len(children)]
    BY <2>4 DEF AreVisited
  <2> DEFINE T == {k \in Nat : k \in 0..Len(children) => h[k] = j[k]}
  <2>8. 0 \in T
    BY <2>6, <2>7
  <2>9. ASSUME NEW k \in Nat, k \in T PROVE k + 1 \in T
    <3> SUFFICES ASSUME k + 1 \in 0..Len(children) PROVE h[k + 1] = j[k + 1]
      OBVIOUS
    <3>1. k \in 0..Len(children) /\ k + 1 \in 1..Len(children) /\ (k + 1) - 1 = k
      BY <2>5
    <3>2. h[k] = j[k] /\ h[k] \in S /\ children[k + 1] \in Nodes
      BY <2>5, <2>6, <2>9, <3>1
    <3>3. h[k + 1] = f[<<h[k], children[k + 1]>>] /\ j[k + 1] = g[<<j[k], children[k + 1]>>]
      BY <2>6, <2>7, <3>1
    <3> QED
      BY <2>1, <3>2, <3>3
  <2>10. Nat \subseteq T
    <3> HIDE DEF T
    <3> QED BY <2>8, <2>9, Induct
  <2>11. h[Len(children)] = j[Len(children)]
    <3>1. Len(children) \in T /\ Len(children) \in 0..Len(children)
      BY <2>5, <2>10
    <3> QED
      BY <3>1
  <2> QED
    BY <2>6, <2>7, <2>11 DEF children
<1> QED
  BY <1>1, <1>2

LEMMA VisitGoes ==
    ASSUME workflow \in Workflows, NEW d \in Nodes, NEW rank \in Orders
    PROVE  LET graph == Subgraph(d)
               visit == CHOOSE f : f = [x \in Seq(Nodes) \X Nodes |->
                            VisitNode(Children(graph, rank, x[2]), f, x[1], x[2])]
           IN  \A v \in Seq(Nodes), n \in Nodes : Visits(graph.links, v, n, visit[<<v, n>>])
<1> DEFINE graph == Subgraph(d)
           links == graph.links
           To(f, v, n) == VisitNode(Children(graph, rank, n), f, v, n)
           Eq(f) == f = [x \in Seq(Nodes) \X Nodes |-> To(f, x[1], x[2])]
           visit == CHOOSE f : Eq(f)
           P == VisitsAt(links)
           F == Visitor(graph, rank)
           Y == Seq(Nodes)
           G == Allowed(VisitPairs, Y, P)
<1>1. \A g \in G, x \in VisitPairs : F[<<g, x>>] = To(g, x[1], x[2])
  BY DEF Visitor
<1>2. \A x \in VisitPairs : x[1] \in Y /\ x[2] \in Nodes /\ x = <<x[1], x[2]>>
  BY DEF VisitPairs
<1>3. \A g \in G, x \in VisitPairs : To(g, x[1], x[2]) \in Y \cap P[x]
  <2> SUFFICES ASSUME NEW g \in G, NEW x \in VisitPairs PROVE To(g, x[1], x[2]) \in Y \cap P[x]
    OBVIOUS
  <2>1. Visits(links, x[1], x[2], To(g, x[1], x[2]))
    BY <1>2, VisitNodeVisits
  <2>2. P[x] = {w \in Seq(Nodes) : Visits(links, x[1], x[2], w)}
    BY DEF VisitsAt
  <2>3. To(g, x[1], x[2]) \in Y
    BY <2>1 DEF Visits
  <2> QED
    BY <2>1, <2>2, <2>3
<1>4. ASSUME NEW f \in G, NEW g, NEW x \in VisitPairs, \A y \in VisitPairs : ToVisit[y] < ToVisit[x] => f[y] = g[y]
      PROVE  To(f, x[1], x[2]) = To(g, x[1], x[2])
  BY <1>2, <1>4, VisitNodeSame
<1>5. G # {}
  <2> DEFINE all == Sorted(Nodes, rank)
             e == [x \in VisitPairs |-> all]
  <2>1. all \in Seq(Nodes) /\ \A x \in Nodes : \E k \in 1..Len(all) : all[k] = x
    <3>1. \A x \in Nodes : rank[x] \in Nat
      BY PartialAssumption
    <3>2. \A x, y \in Nodes : rank[x] = rank[y] => x = y
      BY PartialAssumption DEF IsInjective
    <3> QED
      BY <3>1, <3>2, EngineAssumption, SortedFacts
  <2> HIDE DEF all
  <2>2. Range(all) = Nodes
    <3>1. DOMAIN all = 1..Len(all)
      BY <2>1
    <3>2. Range(all) \in SUBSET Nodes
      BY <2>1, EntriesBelong
    <3> QED
      BY <2>1, <3>1, <3>2 DEF Range
  <2>3. ASSUME NEW x \in VisitPairs PROVE all \in Y \cap P[x]
    <3>1. P[x] = {w \in Seq(Nodes) : Visits(links, x[1], x[2], w)}
      BY DEF VisitsAt
    <3>2. \A l \in links : l.to \in Nodes
      BY SubgraphFacts
    <3>3. Range(x[1]) \in SUBSET Nodes
      BY <1>2, EntriesBelong
    <3>4. Visits(links, x[1], x[2], all)
      BY <1>2, <2>1, <2>2, <3>2, <3>3 DEF Visits
    <3> QED
      BY <2>1, <3>1, <3>4
  <2>4. e \in G
    <3>1. e = [x \in VisitPairs |-> e[x]] /\ \A x \in VisitPairs : e[x] \in Y \cap P[x]
      BY <2>3
    <3> HIDE DEF e, Y, P
    <3> QED
      BY <3>1 DEF Allowed
  <2> QED
    BY <2>4
<1>6. ToVisit \in [VisitPairs -> Nat]
  <2>1. \A x \in VisitPairs : Cardinality(Nodes \ Range(x[1])) \in Nat
    <3> SUFFICES ASSUME NEW x \in VisitPairs PROVE Cardinality(Nodes \ Range(x[1])) \in Nat
      OBVIOUS
    <3>1. Range(x[1]) \in SUBSET Nodes
      BY <1>2, EntriesBelong
    <3> QED
      BY <3>1, FewerLeft
  <2> QED
    BY <2>1 DEF ToVisit
<1> HIDE DEF To, P, F, Y
<1>7. Recurs(VisitPairs, Y, P, ToVisit, F)
  BY <1>1, <1>3, <1>4 DEF Recurs
<1>8. PICK g \in G : \A x \in VisitPairs : g[x] = F[<<g, x>>]
  BY <1>5, <1>6, <1>7, Recursion
<1>9. Eq(g)
  <2>1. g = [x \in VisitPairs |-> g[x]]
    BY DEF Allowed
  <2> QED
    BY <1>1, <1>8, <2>1 DEF VisitPairs
<1>10. Eq(visit)
  <2> HIDE DEF Eq
  <2> QED BY <1>9
<1> HIDE DEF visit
<1>11. \A x \in VisitPairs : visit[x] = To(visit, x[1], x[2]) /\ g[x] = To(g, x[1], x[2])
  BY <1>9, <1>10 DEF VisitPairs
<1> HIDE DEF Eq, G
<1> DEFINE T == {k \in Nat : \A x \in VisitPairs : ToVisit[x] < k => g[x] = visit[x]}
<1>12. 0 \in T
  BY <1>6
<1>13. ASSUME NEW k \in Nat, k \in T PROVE k + 1 \in T
  <2> SUFFICES ASSUME NEW x \in VisitPairs, ToVisit[x] < k + 1 PROVE g[x] = visit[x]
    OBVIOUS
  <2>1. \A y \in VisitPairs : ToVisit[y] < ToVisit[x] => g[y] = visit[y]
    <3> SUFFICES ASSUME NEW y \in VisitPairs, ToVisit[y] < ToVisit[x] PROVE g[y] = visit[y]
      OBVIOUS
    <3>1. ToVisit[y] < k
      BY <1>6
    <3> QED
      BY <1>13, <3>1
  <2> QED
    BY <1>4, <1>11, <2>1
<1>14. Nat \subseteq T
  <2> HIDE DEF T
  <2> QED BY <1>12, <1>13, Induct
<1>15. \A x \in VisitPairs : g[x] = visit[x]
  <2> SUFFICES ASSUME NEW x \in VisitPairs PROVE g[x] = visit[x]
    OBVIOUS
  <2>1. ToVisit[x] + 1 \in T /\ ToVisit[x] < ToVisit[x] + 1
    BY <1>6, <1>14
  <2> QED
    BY <2>1
<1>16. ASSUME NEW v \in Seq(Nodes), NEW n \in Nodes PROVE Visits(links, v, n, visit[<<v, n>>])
  <2>1. <<v, n>> \in VisitPairs
    BY DEF VisitPairs
  <2>2. Visits(links, v, n, g[<<v, n>>])
    BY AllowedVisit DEF G, P, Y
  <2> QED
    BY <1>15, <2>1, <2>2
<1> QED
  BY <1>16 DEF visit, Eq, To

\* The first node of a component that can be reached from the trigger is in it.
LEMMA FirstOfFacts ==
    ASSUME workflow \in Workflows, NEW d \in Nodes, NEW rank \in Orders,
           NEW c, NEW n \in c, n \in Reach(Subgraph(d).links, {Start})
    PROVE  FirstOf(Subgraph(d), rank, c) \in c
<1> DEFINE graph == Subgraph(d)
           links == graph.links
           visit == CHOOSE f : f = [x \in Seq(Nodes) \X Nodes |->
                        VisitNode(Children(graph, rank, x[2]), f, x[1], x[2])]
           visited == visit[<< <<>>, Start >>]
           S == {k \in DOMAIN visited : visited[k] \in c}
<1>1. FirstOf(graph, rank, c) = visited[Min(S)]
  BY DEF FirstOf
<1>2. \A v \in Seq(Nodes), m \in Nodes : Visits(links, v, m, visit[<<v, m>>])
  BY VisitGoes
<1> HIDE DEF visit
<1>3. Visits(links, <<>>, Start, visited)
  <2>1. << >> \in Seq(Nodes) /\ Start \in Nodes
    BY EngineAssumption
  <2> DEFINE v == << >>
  <2> HIDE DEF v, links
  <2>2. Visits(links, v, Start, visit[<<v, Start>>])
    BY <1>2, <2>1 DEF v
  <2> QED
    BY <2>2 DEF v
<1>4. \A l \in links : l.to \in Nodes
  BY SubgraphFacts
<1> HIDE DEF links, visited
<1>5. /\ visited \in Seq(Nodes) /\ Start \in Range(visited)
      /\ \A l \in links : l.from \in Range(visited) => l.to \in Range(visited)
  <2> DEFINE v == << >>
  <2>1. Range(v) = {}
    BY DEF Range
  <2> HIDE DEF v
  <2>2. /\ visited \in Seq(Nodes) /\ Range(v) \cup {Start} \subseteq Range(visited)
        /\ \A l \in links : l.from \in Range(visited) \ Range(v) => l.to \in Range(visited)
    BY <1>3 DEF Visits, v
  <2> QED
    BY <2>1, <2>2
<1>6. n \in Range(visited)
  <2>1. {Start} \in SUBSET Nodes
    BY EngineAssumption
  <2>3. \A R : {Start} \subseteq R /\ (\A l \in links : l.from \in R => l.to \in R) =>
                  Reach(links, {Start}) \subseteq R
    BY <1>4, <2>1, ReachFacts
  <2>2. Reach(links, {Start}) \subseteq Range(visited)
    BY <1>5, <2>3
  <2> QED
    BY <2>2 DEF links
<1>7. S # {}
  BY <1>6 DEF Range
<1>8. S \in SUBSET Nat
  BY <1>5
<1>9. Min(S) \in S
  BY <1>7, <1>8, MinIsLeast
<1> QED
  BY <1>1, <1>9

\* A start node is replaced by one that it can reach and that can reach it.
LEMMA StartOfFacts ==
    ASSUME workflow \in Workflows, NEW d \in Nodes, NEW rank \in Orders,
           NEW n \in Reach(Subgraph(d).links, {Start})
    PROVE  LET m == StartOf(Subgraph(d), rank, n)
               links == Subgraph(d).links
           IN  n \in Nodes /\ m \in Reach(links, {n}) /\ n \in Reach(links, {m})
<1> DEFINE links == Subgraph(d).links
           cs == Components(Subgraph(d), rank)
           around == {c \in cs : n \in c}
           m == StartOf(Subgraph(d), rank, n)
<1>1. \A l \in links : l.to \in Nodes
  BY SubgraphFacts
<1>2. n \in Nodes
  <2>1. {Start} \in SUBSET Nodes
    BY EngineAssumption
  <2> QED
    BY <1>1, <2>1, ReachThrough
<1>3. CASE around = {}
  <2>1. m = n
    BY <1>3 DEF StartOf
  <2>2. n \in Reach(links, {n})
    <3>1. {n} \in SUBSET Nodes
      BY <1>2
    <3> QED
      BY <1>1, <3>1, ReachFacts
  <2> QED
    BY <1>2, <2>1, <2>2
<1>4. CASE around # {}
  <2> DEFINE c == CHOOSE x \in around : TRUE
  <2>1. m = FirstOf(Subgraph(d), rank, c)
    BY <1>4 DEF StartOf
  <2>2. c \in cs /\ n \in c
    BY <1>4
  <2> HIDE DEF cs, c, m
  <2>3. m \in c
    BY <2>1, <2>2, FirstOfFacts
  <2>4. Cycle(links, c)
    BY <2>2, ComponentsAreCycles DEF cs
  <2> QED
    BY <1>2, <2>2, <2>3, <2>4 DEF Cycle, m
<1> QED
  BY <1>3, <1>4

-----------------------------------------------------------------------------
(* What leads to the destination *)

\* With more links more can be reached.
LEMMA ReachMore ==
    ASSUME NEW K, NEW L, K \subseteq L, \A l \in L : l.to \in Nodes, NEW ns \in SUBSET Nodes
    PROVE  Reach(K, ns) \subseteq Reach(L, ns)
<1>1. /\ ns \subseteq Reach(L, ns)
      /\ \A l \in L : l.from \in Reach(L, ns) => l.to \in Reach(L, ns)
  BY ReachFacts
<1>2. \A R : ns \subseteq R /\ (\A l \in K : l.from \in R => l.to \in R) => Reach(K, ns) \subseteq R
  BY ReachFacts
<1> DEFINE R == Reach(L, ns)
<1>3. ns \subseteq R /\ \A l \in K : l.from \in R => l.to \in R
  BY <1>1
<1> HIDE DEF R
<1>4. Reach(K, ns) \subseteq R
  BY <1>2, <1>3
<1> QED
  BY <1>4 DEF R

\* What is reached along links is reached from something along the last of them.
LEMMA ReachedFrom ==
    ASSUME NEW links, \A l \in links : l.to \in Nodes, NEW ns \in SUBSET Nodes,
           NEW n \in Reach(links, ns), n \notin ns
    PROVE  \E l \in links : l.to = n /\ l.from \in Reach(links, ns)
<1>1. /\ ns \subseteq Reach(links, ns)
      /\ \A l \in links : l.from \in Reach(links, ns) => l.to \in Reach(links, ns)
  BY ReachFacts
<1>2. \A R : ns \subseteq R /\ (\A l \in links : l.from \in R => l.to \in R) => Reach(links, ns) \subseteq R
  BY ReachFacts
<1> SUFFICES ASSUME \A l \in links : ~(l.to = n /\ l.from \in Reach(links, ns)) PROVE FALSE
  OBVIOUS
<1> DEFINE R == Reach(links, ns) \ {n}
<1>3. ns \subseteq R /\ \A l \in links : l.from \in R => l.to \in R
  BY <1>1
<1>4. n \notin R
  OBVIOUS
<1> HIDE DEF R
<1>5. Reach(links, ns) \subseteq R
  BY <1>2, <1>3
<1> QED
  BY <1>4, <1>5

\* The sources on the branches, and what is above the destination.
IsBack(d, F, A) ==
    /\ F \subseteq Nodes \ {Start, d}
    /\ \A ns \in SUBSET (Nodes \ {Start, d}) :
          (\A n \in ns : \E l \in workflow.links : l.to = n /\ l.from \in ns \cup {Start}) =>
              ns \subseteq F
    /\ d # Start => d \in A
    /\ d = Start => A = {}
    /\ \A l \in workflow.links : l.from \in F \cup {Start} /\ l.to \in A => l.from \in A
    /\ Subgraph(d).links = {l \in workflow.links : l.from \in F \cup {Start} /\ l.to \in A}

LEMMA BackIs ==
    ASSUME workflow \in Workflows, NEW d \in Nodes
    PROVE  \E F, A : IsBack(d, F, A)
<1> DEFINE links == workflow.links
           Sets == {ns \in SUBSET (Nodes \ {Start, d}) :
                          \A n \in ns : \E l \in links : l.to = n /\ l.from \in ns \cup {Start}}
           F == UNION Sets
           back == {l \in links : l.from \in F \cup {Start} /\ l.to # Start}
           turned == {[from |-> l.to, to |-> l.from] : l \in back}
           A == Reach(turned, {d} \ {Start})
<1>1. \A l \in links : l.from \in Nodes /\ l.to \in Nodes /\ l.to # Start
  BY GraphFacts, PartialAssumption DEF Links
<1>2. Subgraph(d).links = {l \in back : l.to \in A}
  BY DEF LinksBack, Subgraph
<1>3. F \subseteq Nodes \ {Start, d}
      /\ \A ns \in SUBSET (Nodes \ {Start, d}) :
          (\A n \in ns : \E l \in links : l.to = n /\ l.from \in ns \cup {Start}) => ns \subseteq F
  OBVIOUS
<1> HIDE DEF F
<1>4. \A l \in turned : l.to \in Nodes
  BY <1>1
<1> DEFINE ns == {d} \ {Start}
<1>5. ns \in SUBSET Nodes
  OBVIOUS
<1>6. \A l \in back : [from |-> l.to, to |-> l.from] \in turned
  OBVIOUS
<1> HIDE DEF ns, turned
<1>7. /\ ns \subseteq Reach(turned, ns)
      /\ \A l \in turned : l.from \in Reach(turned, ns) => l.to \in Reach(turned, ns)
      /\ \A R : ns \subseteq R /\ (\A l \in turned : l.from \in R => l.to \in R) => Reach(turned, ns) \subseteq R
  BY <1>4, <1>5, ReachFacts
<1>8. A = Reach(turned, ns)
  BY DEF ns
<1> HIDE DEF A, back
<1>9. ASSUME NEW l \in back, l.to \in A PROVE l.from \in A
  <2>1. [from |-> l.to, to |-> l.from].from \in A => [from |-> l.to, to |-> l.from].to \in A
    BY <1>6, <1>7, <1>8
  <2> QED
    BY <1>9, <2>1
<1>10. d # Start => d \in A
  BY <1>7, <1>8 DEF ns
<1>11. ASSUME d = Start PROVE A = {}
  <2>1. ns = {}
    BY <1>11 DEF ns
  <2>2. ns \subseteq {} /\ \A l \in turned : l.from \in {} => l.to \in {}
    BY <2>1
  <2>3. Reach(turned, ns) \subseteq {}
    BY <1>7, <2>2
  <2> QED
    BY <1>8, <2>3
<1>12. \A l \in links : l.from \in F \cup {Start} => l \in back
  BY <1>1 DEF back
<1>13. Subgraph(d).links = {l \in links : l.from \in F \cup {Start} /\ l.to \in A}
  BY <1>1, <1>2 DEF back
<1>14. IsBack(d, F, A)
  BY <1>3, <1>9, <1>10, <1>11, <1>12, <1>13 DEF IsBack
<1> QED
  BY <1>14

\* The subgraph does not go on from the destination.
LEMMA DestinationIsLast ==
    ASSUME workflow \in Workflows, NEW d \in Nodes
    PROVE  \A l \in Subgraph(d).links : l.from # d
<1>1. PICK F, A : IsBack(d, F, A)
  BY BackIs
<1> QED
  BY <1>1 DEF IsBack

\* A way that ends with the destination is in the subgraph.
LinksUpTo(d) == {l \in workflow.links : l.from # d}
LEMMA GraphHolds ==
    ASSUME workflow \in Workflows, NEW d \in Nodes, NEW K \in SUBSET LinksUpTo(d),
           d \in Reach(K, {Start})
    PROVE  d \in Reach(K \cap Subgraph(d).links, {Start})
<1> DEFINE glinks == Subgraph(d).links
           L == K \cap glinks
           R == Reach(K, {Start})
           Q == Reach(L, {Start})
<1>1. PICK F, A : IsBack(d, F, A)
  BY BackIs
<1>2. \A l \in K : l \in workflow.links /\ l.from # d /\ l.to \in Nodes
  BY GraphFacts DEF Links, LinksUpTo
<1>3. {Start} \in SUBSET Nodes
  BY EngineAssumption
<1> DEFINE one == {Start}
<1> HIDE DEF one
<1>4. /\ one \subseteq R /\ R \subseteq Nodes /\ \A l \in K : l.from \in R => l.to \in R
      /\ \A S : one \subseteq S /\ (\A l \in K : l.from \in S => l.to \in S) => R \subseteq S
  BY <1>2, <1>3, ReachFacts DEF one
<1>5. /\ one \subseteq Q /\ \A l \in L : l.from \in Q => l.to \in Q
  BY <1>2, <1>3, ReachFacts DEF one
<1>6. \A n \in R : n \notin one => \E l \in K : l.to = n /\ l.from \in R
  BY <1>2, <1>3, ReachedFrom DEF one
<1> HIDE DEF R, Q
<1>7. R \ {Start, d} \subseteq F
  <2> DEFINE ns == R \ {Start, d}
  <2>1. ns \in SUBSET (Nodes \ {Start, d})
    BY <1>4
  <2>2. ASSUME NEW n \in ns PROVE \E l \in workflow.links : l.to = n /\ l.from \in ns \cup {Start}
    <3>1. PICK l \in K : l.to = n /\ l.from \in R
      BY <1>6 DEF one
    <3>2. l \in workflow.links /\ l.from \in ns \cup {Start}
      BY <1>2, <3>1
    <3> QED
      BY <3>1, <3>2
  <2> HIDE DEF ns
  <2>3. ns \subseteq F
    BY <1>1, <2>1, <2>2 DEF IsBack
  <2> QED
    BY <2>3 DEF ns
<1> DEFINE S == {x \in R : x \notin A \/ x \in Q}
<1>8. one \subseteq S
  BY <1>4, <1>5 DEF one
<1>9. ASSUME NEW l \in K, l.from \in S PROVE l.to \in S
  <2>1. l \in workflow.links /\ l.from \in R /\ l.to \in R /\ l.from \in F \cup {Start}
    BY <1>2, <1>4, <1>7, <1>9
  <2>2. CASE l.to \notin A
    BY <2>1, <2>2
  <2>3. CASE l.to \in A
    <3>1. l \in glinks /\ l.from \in A
      BY <1>1, <2>1, <2>3 DEF IsBack
    <3>2. l.from \in Q /\ l \in L
      BY <1>9, <3>1
    <3> QED
      BY <1>5, <2>1, <3>2
  <2> QED
    BY <2>2, <2>3
<1> HIDE DEF S
<1>10. R \subseteq S
  BY <1>4, <1>8, <1>9
<1>11. d \in S
  BY <1>10 DEF R
<1>12. CASE d = Start
  BY <1>5, <1>12 DEF one, Q
<1>13. CASE d # Start
  <2>1. d \in A
    BY <1>1, <1>13 DEF IsBack
  <2> QED
    BY <1>11, <2>1 DEF S, Q
<1> QED
  BY <1>12, <1>13

\* The destination is in its subgraph, if it can be reached.
LEMMA DestinationInGraph ==
    ASSUME workflow \in Workflows, NEW d \in Nodes, d \in Reach(workflow.links, {Start})
    PROVE  d \in Subgraph(d).nodes
<1> DEFINE K == LinksUpTo(d)
           L == K \cap Subgraph(d).links
           one == {Start}
<1>1. \A l \in workflow.links : l.to \in Nodes
  BY GraphFacts DEF Links
<1>2. one \in SUBSET Nodes
  BY EngineAssumption
<1>3. K \subseteq workflow.links /\ L \subseteq workflow.links
  BY DEF LinksUpTo
<1> HIDE DEF one
<1>4. d \in Reach(K, one)
  <2> SUFFICES ASSUME d \notin Reach(K, one) PROVE FALSE
    OBVIOUS
  <2> DEFINE R == Reach(K, one)
  <2>0. \A l \in K : l.to \in Nodes
    BY <1>1, <1>3
  <2>1. one \subseteq R /\ \A l \in K : l.from \in R => l.to \in R
    <3> HIDE DEF K
    <3> QED BY <1>2, <2>0, ReachFacts
  <2>2. \A S : one \subseteq S /\ (\A l \in workflow.links : l.from \in S => l.to \in S) =>
                  Reach(workflow.links, one) \subseteq S
    <3> DEFINE links == workflow.links
    <3>1. \A l \in links : l.to \in Nodes
      BY <1>1
    <3> HIDE DEF links
    <3>2. \A S : one \subseteq S /\ (\A l \in links : l.from \in S => l.to \in S) =>
                    Reach(links, one) \subseteq S
      BY <1>2, <3>1, ReachFacts
    <3> QED
      BY <3>2 DEF links
  <2>3. d \notin R
    OBVIOUS
  <2> HIDE DEF R
  <2>4. \A l \in workflow.links : l.from \in R => l.to \in R
    BY <2>1, <2>3 DEF LinksUpTo
  <2>5. Reach(workflow.links, one) \subseteq R
    BY <2>1, <2>2, <2>4
  <2> QED
    BY <2>3, <2>5 DEF one
<1>5. d \in Reach(L, one)
  BY <1>4, GraphHolds DEF one
<1>6. CASE d = Start
  BY <1>6, SubgraphFacts
<1>7. CASE d # Start
  <2>1. \A l \in L : l.to \in Nodes
    BY <1>1, <1>3
  <2>2. d \notin one
    BY <1>7 DEF one
  <2> HIDE DEF L
  <2>3. PICK l \in L : l.to = d
    BY <1>2, <1>5, <2>1, <2>2, ReachedFrom
  <2> QED
    BY <2>3, SubgraphFacts DEF L
<1> QED
  BY <1>6, <1>7

\* The nodes to start from cover what the search for them stops at.
Covers(d, known, starts) ==
    LET stops == FindStartNodes(Subgraph(d), known, d)
    IN  /\ starts \in SUBSET Subgraph(d).nodes
        /\ stops \subseteq Below(Subgraph(d), starts)
        /\ d \in stops => d \in starts

\* When handleCycles replaces a start node by the first node of its cycle, the new start nodes are
\* in the subgraph and everything that findStartNodes stopped at comes after one of them, so that
\* cleanRunData throws its data away; a destination that was itself a start node remains one.
THEOREM StartsCover ==
    ASSUME workflow \in Workflows, NEW d \in Nodes, NEW rank \in Orders, NEW known
    PROVE  Covers(d, known, HandleCycles(Subgraph(d), rank, FindStartNodes(Subgraph(d), known, d)))
<1> DEFINE graph == Subgraph(d)
           links == graph.links
           stops == FindStartNodes(graph, known, d)
           starts == HandleCycles(graph, rank, stops)
           St == {n \in graph.nodes : IsDirty(known, n) \/ n = d \/ LoopIsOpen(known, n)}
           K == {l \in {k \in graph.links : RunsWithItems(known, k.from, k.output) # {}} : l.from \notin St}
<1>1. /\ \A l \in links : l.to \in Nodes /\ l.from \in graph.nodes /\ l.to \in graph.nodes
      /\ graph.nodes \subseteq Nodes /\ Start \in graph.nodes
  BY SubgraphFacts, GraphFacts DEF Links
<1>2. stops = St \cap Reach(K, {Start})
  BY DEF FindStartNodes, FirstStops
<1>3. starts \subseteq {StartOf(graph, rank, n) : n \in stops}
      /\ \A n \in stops : StartOf(graph, rank, n) \in graph.nodes => StartOf(graph, rank, n) \in starts
  BY DEF HandleCycles
<1>4. \A l \in links : l.from # d
  BY DestinationIsLast
<1>5. \A n \in stops : n \in graph.nodes /\ n \in Reach(links, {Start})
  <2>1. K \subseteq links
    OBVIOUS
  <2>2. {Start} \in SUBSET Nodes
    BY EngineAssumption
  <2> HIDE DEF K, links
  <2>3. Reach(K, {Start}) \subseteq Reach(links, {Start})
    BY <1>1, <2>1, <2>2, ReachMore
  <2> QED
    BY <1>2, <2>3
<1> HIDE DEF stops, starts, St, K
<1>6. ASSUME NEW n \in stops
      PROVE  LET m == StartOf(graph, rank, n)
             IN  /\ m \in graph.nodes /\ n \in Reach(links, {m})
                 /\ n = d => m = d
  <2> DEFINE m == StartOf(graph, rank, n)
  <2>1. n \in Nodes /\ m \in Reach(links, {n}) /\ n \in Reach(links, {m})
    BY <1>5, StartOfFacts
  <2>2. {n} \in SUBSET Nodes
    BY <2>1
  <2> DEFINE N == graph.nodes
  <2> HIDE DEF m, graph
  <2>3. \A S : {n} \subseteq S /\ (\A l \in links : l.from \in S => l.to \in S) => Reach(links, {n}) \subseteq S
    <3> HIDE DEF links
    <3> QED BY <1>1, <2>2, ReachFacts
  <2>4. m \in N
    <3>1. {n} \subseteq N /\ \A l \in links : l.from \in N => l.to \in N
      BY <1>1, <1>5
    <3> HIDE DEF N, links
    <3>2. Reach(links, {n}) \subseteq N
      BY <2>3, <3>1
    <3> QED
      BY <2>1, <3>2
  <2>5. ASSUME n = d PROVE m = d
    <3> DEFINE S == {n}
    <3>1. S \subseteq S /\ \A l \in links : l.from \in S => l.to \in S
      BY <1>4, <2>5
    <3> HIDE DEF S, links
    <3>2. Reach(links, {n}) \subseteq S
      BY <2>3, <3>1 DEF S
    <3> QED
      BY <2>1, <2>5, <3>2 DEF S
  <2> QED
    BY <2>1, <2>4, <2>5 DEF m
<1>7. starts \in SUBSET graph.nodes
  BY <1>3, <1>6
<1>8. ASSUME NEW n \in stops PROVE n \in Below(graph, starts)
  <2> DEFINE m == StartOf(graph, rank, n)
  <2>1. m \in starts /\ n \in Reach(links, {m})
    BY <1>3, <1>6
  <2>2. starts \in SUBSET Nodes
    BY <1>1, <1>7
  <2> HIDE DEF m, links, graph
  <2>3. starts \subseteq Reach(links, starts)
    BY <1>1, <2>2, ReachFacts
  <2>4. Reach(links, {m}) \subseteq Reach(links, starts)
    BY <1>1, <2>1, <2>2, <2>3, ReachThrough
  <2> QED
    BY <2>1, <2>4 DEF Below, links
<1>9. d \in stops => d \in starts
  BY <1>1, <1>3, <1>6
<1> QED
  BY <1>7, <1>8, <1>9 DEF graph, stops, starts, Covers

\* The links along which data has items, on ways that end with the destination.
WithItems(d, data) == {l \in LinksUpTo(d) : HasBatch(data, l)}

\* What is kept of the data.
CleanedFrom(d, known, data, starts) ==
    \A n \in Nodes :
        data[n] = IF n \in Below(Subgraph(d), starts) \/ n \notin Subgraph(d).nodes
                  THEN <<>> ELSE known[n]

\* When items of what has been kept get to the destination, it is itself a start node, and has
\* input, if it has sources.
LEMMA KeptToDestination ==
    ASSUME workflow \in Workflows, NEW d \in Nodes, d \in Reach(workflow.links, {Start}),
           NEW known, NEW starts, Covers(d, known, starts),
           NEW data, CleanedFrom(d, known, data, starts),
           d \in Reach(WithItems(d, data), {Start})
    PROVE  /\ d \in starts
           /\ StartLinks(Subgraph(d), d) # {} => \E l \in StartLinks(Subgraph(d), d) : HasBatch(data, l)
<1> DEFINE graph == Subgraph(d)
           links == graph.links
           stops == FindStartNodes(graph, known, d)
           below == Below(graph, starts)
           St == {n \in graph.nodes : IsDirty(known, n) \/ n = d \/ LoopIsOpen(known, n)}
           K == {l \in {k \in graph.links : RunsWithItems(known, k.from, k.output) # {}} : l.from \notin St}
           W == WithItems(d, data) \cap links
           one == {Start}
<1>1. /\ \A l \in links : l \in workflow.links /\ l.from \in Nodes /\ l.to \in Nodes /\ l.to # Start
      /\ \A l \in links : l.from \in graph.nodes /\ l.to \in graph.nodes
      /\ graph.nodes \subseteq Nodes
  BY SubgraphFacts, GraphFacts, PartialAssumption DEF Links
<1>2. stops = St \cap Reach(K, one)
  BY DEF FindStartNodes, FirstStops
<1>3. starts \in SUBSET graph.nodes /\ stops \subseteq below /\ (d \in stops => d \in starts)
  BY DEF Covers
<1>4. \A n \in Nodes : data[n] = IF n \in below \/ n \notin graph.nodes THEN <<>> ELSE known[n]
  BY DEF CleanedFrom
<1>5. d \in Reach(W, one)
  <2>1. WithItems(d, data) \in SUBSET LinksUpTo(d)
    BY DEF WithItems
  <2> QED
    BY <2>1, GraphHolds
<1>6. d \in graph.nodes
  BY DestinationInGraph
<1>7. \A l \in W : l \in links /\ RunsWithItems(data, l.from, l.output) # {}
  BY DEF WithItems, HasBatch
<1>8. one \in SUBSET Nodes
  BY EngineAssumption
<1>9. d \in St
  BY <1>6
<1> HIDE DEF graph, links, stops, below, W, one
<1>10. \A l \in W : l.from \in Nodes /\ l.from \notin below /\ data[l.from] = known[l.from]
  <2> SUFFICES ASSUME NEW l \in W
               PROVE  l.from \in Nodes /\ l.from \notin below /\ data[l.from] = known[l.from]
    OBVIOUS
  <2>1. l.from \in Nodes /\ RunsWithItems(data, l.from, l.output) # {}
    BY <1>1, <1>7
  <2>2. data[l.from] # <<>>
    BY <2>1 DEF RunsWithItems
  <2> QED
    BY <1>4, <2>1, <2>2
<1>11. \A l \in W : l.from \notin St => l \in K
  <2> SUFFICES ASSUME NEW l \in W, l.from \notin St PROVE l \in K
    OBVIOUS
  <2>1. RunsWithItems(known, l.from, l.output) # {}
    BY <1>7, <1>10 DEF RunsWithItems
  <2>2. l \in graph.links
    BY <1>7 DEF links
  <2> QED
    BY <2>1, <2>2
<1>12. \A l \in K : l.to \in Nodes
  BY <1>1 DEF links
<1> HIDE DEF St, K
<1> DEFINE Q == Reach(K, one)
<1>13. one \subseteq Q /\ \A l \in K : l.from \in Q => l.to \in Q
  BY <1>8, <1>12, ReachFacts
<1>14. Reach(W, one) \subseteq Q
  <2>1. \A l \in W : l.to \in Nodes
    BY <1>1, <1>7
  <2>2. \A S : one \subseteq S /\ (\A l \in W : l.from \in S => l.to \in S) => Reach(W, one) \subseteq S
    BY <1>8, <2>1, ReachFacts
  <2> HIDE DEF Q
  <2>3. \A l \in W : l.from \in Q => l.to \in Q
    <3> SUFFICES ASSUME NEW l \in W, l.from \in Q PROVE l.to \in Q
      OBVIOUS
    <3>1. l.from \notin St
      BY <1>2, <1>3, <1>10 DEF Q
    <3> QED
      BY <1>11, <1>13, <3>1
  <2> QED
    BY <1>13, <2>2, <2>3
<1>15. d \in starts
  BY <1>2, <1>3, <1>5, <1>9, <1>14
<1>16. ASSUME StartLinks(Subgraph(d), d) # {}
       PROVE  \E l \in StartLinks(Subgraph(d), d) : HasBatch(data, l)
  <2>1. d \notin one
    BY <1>1, <1>16 DEF StartLinks, one, links, graph
  <2>2. \A l \in W : l.to \in Nodes
    BY <1>1, <1>7
  <2>3. PICK l \in W : l.to = d
    BY <1>5, <1>8, <2>1, <2>2, ReachedFrom
  <2> QED
    BY <1>7, <2>3 DEF StartLinks, HasBatch, links, graph
<1> QED
  BY <1>15, <1>16

\* What was to come is still to come.
Keeps(r, q) == ToCome(r) \subseteq ToCome(q)

\* A longer stack or order.
LEMMA LongerKeeps ==
    ASSUME NEW r, TypeOK(r), NEW q, NEW x \in Items, NEW n \in Nodes,
           q.stack = r.stack \/ q.stack = Append(r.stack, x),
           q.order = r.order \/ q.order = Append(r.order, n)
    PROVE  /\ Keeps(r, q)
           /\ q.stack = Append(r.stack, x) => x.node \in ToCome(q)
           /\ q.order = Append(r.order, n) => n \in ToCome(q)
<1>1. r.stack \in Seq(Items) /\ r.order \in Seq(Nodes)
  BY DEF TypeOK, Records
<1>2. q.stack = Append(r.stack, x) =>
          /\ \A i \in DOMAIN r.stack : i \in DOMAIN q.stack /\ q.stack[i] = r.stack[i]
          /\ Len(r.stack) + 1 \in DOMAIN q.stack /\ q.stack[Len(r.stack) + 1] = x
  BY <1>1, AppendedIs
<1>3. \A i \in DOMAIN r.stack : i \in DOMAIN q.stack /\ q.stack[i] = r.stack[i]
  BY <1>2
<1>4. q.order = Append(r.order, n) => Range(r.order) \cup {n} \subseteq Range(q.order)
  <2> SUFFICES ASSUME q.order = Append(r.order, n) PROVE Range(r.order) \cup {n} \subseteq Range(q.order)
    OBVIOUS
  <2>1. /\ \A i \in DOMAIN r.order : i \in DOMAIN q.order /\ q.order[i] = r.order[i]
        /\ Len(r.order) + 1 \in DOMAIN q.order /\ q.order[Len(r.order) + 1] = n
    BY <1>1
  <2> QED
    BY <2>1 DEF Range
<1>5. Range(r.order) \subseteq Range(q.order)
  BY <1>4
<1>6. Keeps(r, q)
  BY <1>3, <1>5 DEF Keeps, ToCome
<1> QED
  BY <1>2, <1>4, <1>6 DEF ToCome

\* A group of a node, where one of its sources has items, makes it come.
LEMMA AddGroupKeeps ==
    ASSUME workflow \in Workflows, NEW r, TypeOK(r), NEW n \in Nodes, NEW group, LeadsTo(group, n)
    PROVE  LET q == AddGroup(r, n, group)
           IN  /\ Keeps(r, q)
               /\ (\E l \in group : HasBatch(r.runData, l)) => n \in ToCome(q)
<1> DEFINE q == AddGroup(r, n, group)
           x == Item(n, GroupData(r.runData, group))
<1>1. q.stack = GroupStack(r, n, group) /\ q.order = GroupOrder(r, n, group)
  BY AddGroupFacts
<1>2. x \in Items /\ x.node = n
  <2>1. r.runData \in [Nodes -> Seq(Tasks)]
    BY DEF TypeOK, Records
  <2>2. GroupData(r.runData, group) \in Data
    BY <2>1, GroupHolds
  <2> QED
    BY <2>2 DEF Item, Items
<1>3. q.stack = IF AllHaveRun(r.runData, group) THEN Append(r.stack, x) ELSE r.stack
  BY <1>1 DEF GroupStack
<1>4. q.order = IF GroupWaits(r, group) /\ DOMAIN r.waiting[n] = {} THEN Append(r.order, n) ELSE r.order
  BY <1>1 DEF GroupOrder
<1> HIDE DEF q, x
<1>5. /\ Keeps(r, q)
      /\ q.stack = Append(r.stack, x) => n \in ToCome(q)
      /\ q.order = Append(r.order, n) => n \in ToCome(q)
  BY <1>2, <1>3, <1>4, LongerKeeps
<1>6. ASSUME NEW l \in group, HasBatch(r.runData, l) PROVE n \in ToCome(q)
  <2>1. CASE AllHaveRun(r.runData, group)
    BY <1>3, <1>5, <2>1
  <2>2. CASE ~AllHaveRun(r.runData, group)
    <3>1. GroupWaits(r, group)
      BY <1>6, <2>2 DEF GroupWaits, With
    <3>2. CASE DOMAIN r.waiting[n] = {}
      BY <1>4, <1>5, <3>1, <3>2
    <3>3. CASE DOMAIN r.waiting[n] # {}
      <4>1. n \in Range(r.order)
        BY <3>3 DEF TypeOK, WaitingOK
      <4> QED
        BY <1>5, <4>1 DEF Keeps, ToCome
    <3> QED
      BY <3>2, <3>3
  <2> QED
    BY <2>1, <2>2
<1> QED
  BY <1>5, <1>6 DEF q

\* A start node is to come if it has no sources or one of them has items.
LEMMA AddStartKeeps ==
    ASSUME workflow \in Workflows, NEW d \in Nodes, NEW rank \in Orders, NEW n \in Nodes,
           NEW r, TypeOK(r)
    PROVE  LET q == AddStart(r, Subgraph(d), rank, n)
               links == StartLinks(Subgraph(d), n)
           IN  /\ Keeps(r, q)
               /\ links = {} \/ (\E l \in links : HasBatch(r.runData, l)) => n \in ToCome(q)
<1> DEFINE q == AddStart(r, Subgraph(d), rank, n)
           links == StartLinks(Subgraph(d), n)
<1>1. CASE links = {}
  <2> DEFINE x == GivenItem(n)
  <2>1. q = [r EXCEPT !.stack = Append(@, x)]
    BY <1>1 DEF AddStart, StartLinks, GivenItem
  <2>2. r \in Records
    BY DEF TypeOK
  <2>3. x \in Items /\ x.node = n
    BY GivenItemIs
  <2> HIDE DEF x
  <2>4. q.stack = Append(r.stack, x) /\ q.order = r.order
    BY <2>1, <2>2 DEF Records
  <2> HIDE DEF q
  <2> QED
    BY <2>3, <2>4, LongerKeeps DEF q
<1>2. CASE links # {}
  <2> DEFINE groups == GroupsOf(r, Subgraph(d), rank, n)
             m == Len(groups)
  <2>1. PICK f : /\ f[0] = r /\ q = f[m]
                 /\ \A k \in 1..m : f[k] = AddGroup(f[k - 1], n, groups[k])
    BY <1>2, AddStartSteps
  <2>2. /\ m \in Nat /\ \A k \in 1..m : LeadsTo(groups[k], n)
        /\ \A l \in links : \E k \in 1..m : l \in groups[k]
    BY GroupsAre
  <2> HIDE DEF groups, m, q, links
  <2> DEFINE Good1(k) == \E l \in groups[k] : HasBatch(r.runData, l)
             T == {k \in Nat : k <= m => /\ TypeOK(f[k]) /\ f[k].runData = r.runData /\ Keeps(r, f[k])
                                         /\ \A j \in 1..k : Good1(j) => n \in ToCome(f[k])}
  <2>3. 0 \in T
    BY <2>1 DEF Keeps
  <2>4. ASSUME NEW k \in Nat, k \in T PROVE k + 1 \in T
    <3> SUFFICES ASSUME k + 1 <= m
                 PROVE  /\ TypeOK(f[k + 1]) /\ f[k + 1].runData = r.runData /\ Keeps(r, f[k + 1])
                        /\ \A j \in 1..(k + 1) : Good1(j) => n \in ToCome(f[k + 1])
      OBVIOUS
    <3>1. k + 1 \in 1..m /\ (k + 1) - 1 = k /\ k <= m
      BY <2>2
    <3>2. /\ TypeOK(f[k]) /\ f[k].runData = r.runData /\ Keeps(r, f[k])
          /\ \A j \in 1..k : Good1(j) => n \in ToCome(f[k])
      BY <2>4, <3>1
    <3>3. LeadsTo(groups[k + 1], n) /\ f[k + 1] = AddGroup(f[k], n, groups[k + 1])
      BY <2>1, <2>2, <3>1
    <3>4. AddsFor(f[k], f[k + 1], {n})
      BY <3>2, <3>3, AddGroupFacts
    <3>5. Keeps(f[k], f[k + 1]) /\ (Good1(k + 1) => n \in ToCome(f[k + 1]))
      BY <3>2, <3>3, AddGroupKeeps
    <3>6. \A j \in 1..(k + 1) : j \in 1..k \/ j = k + 1
      OBVIOUS
    <3> HIDE DEF Good1
    <3>7. \A j \in 1..(k + 1) : Good1(j) => n \in ToCome(f[k + 1])
      BY <3>2, <3>5, <3>6 DEF Keeps
    <3> QED
      BY <3>2, <3>4, <3>5, <3>7 DEF AddsFor, Rest, Keeps
  <2>5. Nat \subseteq T
    <3> HIDE DEF T
    <3> QED BY <2>3, <2>4, Induct
  <2>6. Keeps(r, f[m]) /\ \A j \in 1..m : Good1(j) => n \in ToCome(f[m])
    BY <2>2, <2>5
  <2>7. ASSUME NEW l \in links, HasBatch(r.runData, l) PROVE n \in ToCome(f[m])
    <3>1. PICK k \in 1..m : l \in groups[k]
      BY <2>2
    <3> QED
      BY <2>6, <2>7, <3>1
  <2> QED
    BY <1>2, <2>1, <2>6, <2>7 DEF q, links
<1> QED
  BY <1>1, <1>2

\* A start node that has input or no sources is to come when stack and entries are put together.
LEMMA RecreateKeeps ==
    ASSUME workflow \in Workflows, NEW d \in Nodes, NEW rank \in Orders,
           NEW starts \in SUBSET Nodes, NEW r, TypeOK(r), NEW n \in starts,
           LET links == StartLinks(Subgraph(d), n)
           IN  links = {} \/ \E l \in links : HasBatch(r.runData, l)
    PROVE  n \in ToCome(RecreateStack(r, Subgraph(d), rank, starts))
<1> DEFINE q == RecreateStack(r, Subgraph(d), rank, starts)
           inTurn == InTurn(starts, rank)
           m == Len(inTurn)
<1>1. m \in Nat /\ \A k \in 1..m : inTurn[k] \in starts
  BY RecreateSteps
<1>2. PICK f : AreStarted(f, r, d, rank, inTurn) /\ q = f[m]
  BY RecreateSteps
<1>3. f[0] = r /\ \A k \in 1..m : f[k] = AddStart(f[k - 1], Subgraph(d), rank, inTurn[k])
  BY <1>2 DEF AreStarted
<1>4. PICK i \in 1..m : inTurn[i] = n
  <2>1. rank \in [Nodes -> Nat] /\ \A x, y \in Nodes : rank[x] = rank[y] => x = y
    BY PartialAssumption DEF IsInjective
  <2>2. IsFiniteSet(starts)
    BY EngineAssumption, FS_Subset
  <2> QED
    BY SMTT(30), <2>1, <2>2, SortedFacts DEF InTurn
<1> HIDE DEF inTurn, m, q
<1> DEFINE T == {k \in Nat : k <= m => /\ TypeOK(f[k]) /\ f[k].runData = r.runData
                                       /\ i <= k => n \in ToCome(f[k])}
<1>5. 0 \in T
  BY <1>3
<1>6. ASSUME NEW k \in Nat, k \in T PROVE k + 1 \in T
  <2> SUFFICES ASSUME k + 1 <= m
               PROVE  /\ TypeOK(f[k + 1]) /\ f[k + 1].runData = r.runData
                      /\ i <= k + 1 => n \in ToCome(f[k + 1])
    OBVIOUS
  <2> DEFINE s == inTurn[k + 1]
  <2>1. k + 1 \in 1..m /\ (k + 1) - 1 = k /\ k <= m
    BY <1>1
  <2>2. /\ TypeOK(f[k]) /\ f[k].runData = r.runData
        /\ i <= k => n \in ToCome(f[k])
    BY <1>6, <2>1
  <2>3. s \in Nodes /\ f[k + 1] = AddStart(f[k], Subgraph(d), rank, s)
    BY <1>1, <1>3, <2>1
  <2>4. i = k + 1 => s = n
    BY <1>4
  <2> HIDE DEF s
  <2>5. AddsFor(f[k], f[k + 1], {s})
    BY <2>2, <2>3, AddStartFacts
  <2>6. Keeps(f[k], f[k + 1])
    BY <2>2, <2>3, AddStartKeeps
  <2>7. i = k + 1 => n \in ToCome(f[k + 1])
    BY <2>2, <2>3, <2>4, AddStartKeeps
  <2> QED
    BY <2>2, <2>5, <2>6, <2>7 DEF AddsFor, Rest, Keeps
<1>7. Nat \subseteq T
  <2> HIDE DEF T
  <2> QED BY <1>5, <1>6, Induct
<1> QED
  BY <1>1, <1>2, <1>4, <1>7 DEF q

-----------------------------------------------------------------------------
(* A node is executed *)

\* What a partial execution begins with: data that is kept for nodes outside of what comes
\* after the start nodes, and items and entries for those.
New0(d, data, repeats) ==
    [Blank EXCEPT !.runData = data, !.kept = [n \in Nodes |-> Len(data[n])], !.destination = d,
                  !.filter = Subgraph(d).nodes, !.repeats = repeats]
Prepared(d, data, repeats, rank, starts) ==
    RecreateStack(New0(d, data, repeats), Subgraph(d), rank, starts)
CleanedFor(d, data, starts) ==
    /\ data \in [Nodes -> Seq(Tasks)]
    /\ \A n \in Nodes : n \in Below(Subgraph(d), starts) \/ n \notin Subgraph(d).nodes => data[n] = <<>>

\* Where the nodes to start from and the data that is kept come from.
Chosen(d, data, starts) ==
    \E known : Covers(d, known, starts) /\ CleanedFrom(d, known, data, starts)

LEMMA ExecuteNodeIs ==
    ASSUME workflow \in Workflows, TypeOK(row), NEW d \in workflow.destinations, NEW edited,
           NEW rank \in Orders, ExecuteNode(d, edited, rank)
    PROVE  /\ d \in Nodes /\ d \in Reach(workflow.links, {Start})
           /\ \E starts \in SUBSET Subgraph(d).nodes, data \in [Nodes -> Seq(Tasks)] :
                 /\ CleanedFor(d, data, starts) /\ Chosen(d, data, starts)
                 /\ run' = Prepared(d, data, row.repeats + 1, rank, starts)
           /\ row' = [Blank EXCEPT !.repeats = row.repeats + 1]
           /\ workflow' = workflow
<1> DEFINE graph == Subgraph(d)
           ns == edited \cap graph.nodes
           known == CleanRunData(row.runData, graph, ns)
           starts == HandleCycles(graph, rank, FindStartNodes(graph, known, d))
           data == CleanRunData(known, graph, starts)
           p == Prepared(d, data, row.repeats + 1, rank, starts)
<1>1. d \in Nodes
  BY EngineAssumption
<1>2. run' = p /\ row' = [Blank EXCEPT !.repeats = row.repeats + 1] /\ workflow' = workflow
      /\ d \in Reach(workflow.links, {Start})
  BY DEF ExecuteNode, Prepared, New0
<1>3. graph.nodes \subseteq Nodes /\ ns \subseteq Nodes
  BY <1>1, SubgraphFacts
<1>4. row.runData \in [Nodes -> Seq(Tasks)]
  BY DEF TypeOK, Records
<1>5. known \in [Nodes -> Seq(Tasks)]
  <2> HIDE DEF ns
  <2> QED BY <1>1, <1>3, <1>4, CleanFacts
<1> HIDE DEF known
<1>6. Covers(d, known, starts)
  BY <1>1, StartsCover
<1> HIDE DEF starts
<1>7. starts \in SUBSET graph.nodes
  BY <1>6 DEF Covers
<1>8. CleanedFor(d, data, starts)
  <2>1. starts \in SUBSET Nodes
    BY <1>3, <1>7
  <2> QED
    BY <1>1, <1>5, <2>1, CleanFacts DEF CleanedFor
<1>9. Chosen(d, data, starts)
  <2>1. CleanedFrom(d, known, data, starts)
    BY DEF CleanRunData, CleanedFrom
  <2> QED
    BY <1>6, <2>1 DEF Chosen
<1> HIDE DEF data, p
<1>10. run' = Prepared(d, data, row.repeats + 1, rank, starts)
  BY <1>2 DEF p
<1>11. data \in [Nodes -> Seq(Tasks)]
  BY <1>8 DEF CleanedFor
<1> QED
  BY <1>1, <1>2, <1>7, <1>8, <1>9, <1>10, <1>11

\* A new execution before there is anything on its stack.
LEMMA New0Is ==
    ASSUME workflow \in Workflows, NEW d \in Nodes, NEW starts, NEW data, CleanedFor(d, data, starts),
           NEW repeats \in Nat
    PROVE  LET r == New0(d, data, repeats)
           IN  /\ TypeOK(r) /\ r.stack = <<>> /\ r.waiting = [n \in Nodes |-> <<>>] /\ r.order = <<>>
               /\ r.runData = data /\ r.kept = [n \in Nodes |-> Len(data[n])]
               /\ r.last = NoNode /\ ~r.waitTill /\ r.destination = d /\ r.filter = Subgraph(d).nodes
               /\ r.status = "running" /\ r.silent = {} /\ r.waited = {} /\ r.misplaced = {}
               /\ r.unchecked /\ ~r.marred /\ r.repeats = repeats
<1> DEFINE r == New0(d, data, repeats)
           nodes == Subgraph(d).nodes
           kept == [n \in Nodes |-> Len(data[n])]
<1>1. data \in [Nodes -> Seq(Tasks)] /\ nodes \in SUBSET Nodes
  BY SubgraphFacts DEF CleanedFor
<1>2. kept \in [Nodes -> Nat]
  BY <1>1
<1>3. r = [Blank EXCEPT !.runData = data, !.kept = kept, !.destination = d, !.filter = nodes,
                        !.repeats = repeats]
  BY DEF New0
<1>4. Blank \in Records /\ WaitingOK(Blank.waiting, Blank.order)
  BY BlankIs DEF TypeOK
<1>5. /\ Blank.stack = <<>> /\ Blank.waiting = [n \in Nodes |-> <<>>] /\ Blank.order = <<>>
      /\ Blank.last = NoNode /\ Blank.waitTill = FALSE /\ Blank.status = "running"
      /\ Blank.silent = {} /\ Blank.waited = {} /\ Blank.misplaced = {}
      /\ Blank.unchecked = TRUE /\ Blank.marred = FALSE
  BY DEF Blank
<1> HIDE DEF r, nodes, kept
<1>6. /\ r \in Records /\ r.stack = Blank.stack /\ r.waiting = Blank.waiting /\ r.order = Blank.order
      /\ r.runData = data /\ r.kept = kept
      /\ r.last = Blank.last /\ r.waitTill = Blank.waitTill /\ r.destination = d /\ r.filter = nodes
      /\ r.status = Blank.status /\ r.silent = Blank.silent /\ r.waited = Blank.waited
      /\ r.misplaced = Blank.misplaced /\ r.unchecked = Blank.unchecked /\ r.marred = Blank.marred
      /\ r.repeats = repeats
  BY <1>1, <1>2, <1>3, <1>4 DEF Records
<1> QED
  BY <1>4, <1>5, <1>6 DEF TypeOK, r, nodes, kept

LEMMA New0Holds ==
    ASSUME workflow \in Workflows, NEW d \in Nodes, NEW starts, NEW data, CleanedFor(d, data, starts),
           NEW repeats \in Nat
    PROVE  TypeOK(New0(d, data, repeats)) /\ New0(d, data, repeats).runData = data
<1> DEFINE r == New0(d, data, repeats)
<1>1. /\ TypeOK(r) /\ r.stack = <<>> /\ r.order = <<>>
      /\ r.runData = data /\ r.kept = [n \in Nodes |-> Len(data[n])]
      /\ r.last = NoNode /\ ~r.waitTill /\ r.destination = d /\ r.filter = Subgraph(d).nodes
      /\ r.status = "running" /\ r.silent = {} /\ r.waited = {} /\ r.misplaced = {}
      /\ r.unchecked /\ ~r.marred
  BY New0Is
<1> HIDE DEF r
<1> QED
  BY <1>1 DEF r

\* The row of a partial execution is new.
LEMMA NewRowIs ==
    ASSUME NEW repeats \in Nat
    PROVE  LET w == [Blank EXCEPT !.repeats = repeats]
           IN  /\ TypeOK(w) /\ w.stack = <<>> /\ w.order = <<>> /\ w.silent = {} /\ w.misplaced = {}
               /\ w.waiting = [n \in Nodes |-> <<>>] /\ w.runData = [n \in Nodes |-> <<>>]
               /\ w.kept = [n \in Nodes |-> 0] /\ w.last = NoNode /\ ~w.waitTill
               /\ w.destination = NoNode /\ w.filter = Nodes /\ w.status = "running" /\ ~w.marred
               /\ w.unchecked /\ w.repeats = repeats
<1>1. Blank \in Records /\ WaitingOK(Blank.waiting, Blank.order)
  BY BlankIs DEF TypeOK
<1>2. /\ Blank.stack = <<>> /\ Blank.order = <<>> /\ Blank.silent = {} /\ Blank.misplaced = {}
      /\ Blank.waiting = [n \in Nodes |-> <<>>] /\ Blank.runData = [n \in Nodes |-> <<>>]
      /\ Blank.kept = [n \in Nodes |-> 0] /\ Blank.last = NoNode /\ Blank.waitTill = FALSE
      /\ Blank.destination = NoNode /\ Blank.filter = Nodes /\ Blank.status = "running"
      /\ Blank.marred = FALSE /\ Blank.unchecked = TRUE
  BY DEF Blank
<1> DEFINE w == [Blank EXCEPT !.repeats = repeats]
<1>3. /\ w \in Records /\ w.stack = Blank.stack /\ w.order = Blank.order /\ w.silent = Blank.silent
      /\ w.misplaced = Blank.misplaced /\ w.waiting = Blank.waiting /\ w.runData = Blank.runData
      /\ w.kept = Blank.kept /\ w.last = Blank.last /\ w.waitTill = Blank.waitTill
      /\ w.destination = Blank.destination /\ w.filter = Blank.filter /\ w.status = Blank.status
      /\ w.marred = Blank.marred /\ w.unchecked = Blank.unchecked /\ w.repeats = repeats
  BY <1>1 DEF Records
<1> HIDE DEF w
<1> QED
  BY <1>1, <1>2, <1>3 DEF TypeOK, w

\* What a partial execution is when it begins.
BeginsWith(r, d, data, starts) ==
    /\ TypeOK(r) /\ r.runData = data /\ r.kept = [n \in Nodes |-> Len(data[n])]
    /\ r.last = NoNode /\ ~r.waitTill /\ r.destination = d /\ r.filter = Subgraph(d).nodes
    /\ r.status = "running" /\ r.silent = {} /\ r.waited = {} /\ r.misplaced = {}
    /\ r.unchecked /\ ~r.marred
    /\ \A i \in DOMAIN r.stack : r.stack[i].node \in starts /\ ~r.stack[i].disabled
    /\ Range(r.order) \subseteq starts

LEMMA BegunFacts ==
    ASSUME workflow \in Workflows, NEW d \in Nodes, NEW starts \in SUBSET Subgraph(d).nodes,
           NEW data, CleanedFor(d, data, starts), NEW repeats \in Nat, NEW rank \in Orders
    PROVE  BeginsWith(Prepared(d, data, repeats, rank, starts), d, data, starts)
<1> DEFINE r == New0(d, data, repeats)
           p == Prepared(d, data, repeats, rank, starts)
<1>1. /\ TypeOK(r) /\ r.stack = <<>> /\ r.order = <<>>
      /\ r.runData = data /\ r.kept = [n \in Nodes |-> Len(data[n])]
      /\ r.last = NoNode /\ ~r.waitTill /\ r.destination = d /\ r.filter = Subgraph(d).nodes
      /\ r.status = "running" /\ r.silent = {} /\ r.waited = {} /\ r.misplaced = {}
      /\ r.unchecked /\ ~r.marred
  BY New0Is
<1>2. starts \in SUBSET Nodes
  BY SubgraphFacts
<1> HIDE DEF r
<1>3. AddsFor(r, p, starts)
  BY <1>1, <1>2, RecreateFacts DEF Prepared, r
<1> HIDE DEF p
<1>4. TypeOK(p) /\ Rest(r, p) /\ p.misplaced = {}
  BY <1>1, <1>3 DEF AddsFor
<1>5. \A i \in DOMAIN p.stack : p.stack[i].node \in starts /\ ~p.stack[i].disabled
  BY <1>1, <1>3 DEF AddsFor
<1>6. Range(p.order) \subseteq starts
  BY <1>1, <1>3 DEF AddsFor, Range
<1> QED
  BY <1>1, <1>4, <1>5, <1>6 DEF BeginsWith, Rest, p

\* It stands to its row as one that a user starts.
LEMMA ExecuteNodeStand ==
    ASSUME workflow \in Workflows, StandInv(run, row), NEW d \in workflow.destinations,
           NEW edited, NEW rank \in Orders, ExecuteNode(d, edited, rank)
    PROVE  StandInv(run', row')
<1>1. d \in Nodes /\ row' = [Blank EXCEPT !.repeats = row.repeats + 1]
  BY ExecuteNodeIs DEF StandInv
<1>2. PICK starts \in SUBSET Subgraph(d).nodes, data \in [Nodes -> Seq(Tasks)] :
          /\ CleanedFor(d, data, starts)
          /\ run' = Prepared(d, data, row.repeats + 1, rank, starts)
  BY ExecuteNodeIs DEF StandInv
<1>3. row.repeats + 1 \in Nat
  <2>1. row \in Records
    BY DEF StandInv, TypeOK
  <2> QED
    BY <2>1 DEF Records
<1>4. BeginsWith(run', d, data, starts)
  BY <1>1, <1>2, <1>3, BegunFacts
<1>5. /\ TypeOK(run') /\ ~run'.waitTill /\ run'.status = "running" /\ run'.unchecked /\ ~run'.marred
      /\ run'.destination = d /\ \A i \in DOMAIN run'.stack : ~run'.stack[i].disabled
  BY <1>4 DEF BeginsWith
<1>6. /\ TypeOK(row') /\ row'.stack = <<>> /\ ~row'.waitTill /\ row'.destination = NoNode
      /\ row'.status = "running" /\ ~row'.marred
  BY <1>1, <1>3, NewRowIs
<1>7. WaitIsOnTop(run') /\ DisabledHasWaited(run') /\ WaitIsOnTop(row') /\ DisabledHasWaited(row')
  BY <1>5, <1>6 DEF WaitIsOnTop, DisabledHasWaited
<1>8. workflow.saveProgress => OutOfStep(run', row')
  BY <1>1, <1>5, <1>6, EngineAssumption DEF OutOfStep
<1>9. run'.marred = FALSE /\ row'.marred = FALSE
  BY <1>5, <1>6 DEF TypeOK, Records
<1>10. Agree(run', row')
  BY <1>5, <1>6, <1>8, <1>9 DEF Agree
<1> QED
  BY <1>5, <1>6, <1>7, <1>10 DEF StandInv

\* Every step.
LEMMA StandingRepeat ==
    ASSUME Standing, [RepeatNext]_vars
    PROVE  Standing'
<1>1. CASE [Next]_vars
  BY <1>1, StandingNext
<1>2. ASSUME NEW d \in workflow.destinations, NEW edited, NEW rank \in Orders, ExecuteNode(d, edited, rank)
      PROVE  Standing'
  <2>1. StandInv(run', row') /\ workflow' = workflow
    BY <1>2, ExecuteNodeStand DEF Standing, ExecuteNode
  <2> QED
    BY <2>1, StandTransfers DEF Standing
<1> QED
  BY <1>1, <1>2 DEF RepeatNext

\* The run and its row keep their types, and stand to each other as the engine and the saves leave
\* them, also when single nodes are executed (runPartialWorkflow2 upon processRunExecutionData) and
\* the waiting entries that this makes have only the inputs there was data for.
THEOREM RepeatStanding == RepeatSpec => []Standing
<1>1. Init => Standing
  BY StandingInit
<1>2. Standing /\ [RepeatNext]_vars => Standing'
  BY StandingRepeat
<1> QED
  BY <1>1, <1>2, PTL DEF RepeatSpec

-----------------------------------------------------------------------------
(* How an execution stands, also when single nodes are executed *)

\* A run that ends with success and that looked at the waiting nodes leaves a node waiting only for
\* an input that is required (prepareWaitingToExecution), also in a partial execution.
THEOREM RepeatLeavesNothingWaiting == RepeatSpec => []NothingIsLeftWaiting
<1>1. Standing => NothingIsLeftWaiting
  <2> SUFFICES ASSUME Standing, row.status = "success", ~row.unchecked, Acyclic
               PROVE  NothingIsLeftWaiting
    BY DEF NothingIsLeftWaiting
  <2>1. workflow \in Workflows /\ TypeOK(row) /\ NoneReady(row)
    BY DEF Standing, StandInv, Agree
  <2> QED
    BY <2>1, NoneReadyIsBlocked DEF NothingIsLeftWaiting
<1> QED
  BY <1>1, RepeatStanding, PTL

\* A node is passed over (processRunExecutionData marks its object disabled) only if it has put the
\* execution to wait, with the same items or with others that shared the object, also in a partial
\* execution.
THEOREM RepeatPassesOverOnlyWaiters == RepeatSpec => []OnlyWaitersArePassedOver
<1>1. Standing => OnlyWaitersArePassedOver
  BY DEF Standing, StandInv, DisabledHasWaited, OnlyWaitersArePassedOver
<1> QED
  BY <1>1, RepeatStanding, PTL

-----------------------------------------------------------------------------
(* Old results and new ones *)

\* What is run again is closed: all that the engine goes on to from there is run again too, and
\* nothing else is.  B are those nodes; of the others there is what has been kept.
Insulated(r, B) ==
    /\ \A n \in B : r.kept[n] = 0
    /\ \A n \in Nodes \ B : Len(r.runData[n]) = r.kept[n]
    /\ ToCome(r) \cap r.filter \subseteq B
    /\ r.last \in B \cup {NoNode}
    /\ \A l \in Followed(r) : l.from \in B => l.to \in B

\* The row is that of the same partial execution, or one of which nothing has been kept.
Unmixed(r) == \A n \in Nodes : r.kept[n] = 0
SameCourse(r, q) == q.kept = r.kept /\ q.filter = r.filter /\ q.destination = r.destination
InsulatedRow(r, w, B) ==
    \/ Unmixed(w)
    \/ SameCourse(r, w) /\ Insulated(w, B)
Insulation == \E B \in SUBSET Nodes : Insulated(run, B) /\ InsulatedRow(run, row, B)

\* An execution that has kept nothing may run anything.
LEMMA UnmixedIsInsulated ==
    ASSUME workflow \in Workflows, NEW r \in Records, Unmixed(r)
    PROVE  Insulated(r, Nodes)
<1>1. ToCome(r) \subseteq Nodes
  <2>1. r.stack \in Seq(Items) /\ r.order \in Seq(Nodes)
    BY DEF Records
  <2>2. \A i \in DOMAIN r.stack : r.stack[i] \in Items
    BY <2>1
  <2>4. \A i \in DOMAIN r.stack : r.stack[i].node \in Nodes
    BY <2>2 DEF Items
  <2>3. Range(r.order) \subseteq Nodes
    BY <2>1 DEF Range
  <2> QED
    BY <2>3, <2>4 DEF ToCome
<1>2. r.last \in Nodes \cup {NoNode}
  BY DEF Records
<1>3. \A l \in Followed(r) : l.to \in Nodes
  BY GraphFacts DEF Followed, Links
<1> QED
  BY <1>1, <1>2, <1>3 DEF Insulated, Unmixed

\* Of the nodes that are not run again the data stays.
LEMMA StaysInsulated ==
    ASSUME NEW r, NEW q, NEW B, Insulated(r, B), SameCourse(r, q),
           \A n \in Nodes \ B : q.runData[n] = r.runData[n],
           ToCome(q) \cap r.filter \subseteq B, q.last \in B \cup {NoNode}
    PROVE  Insulated(q, B)
BY DEF Insulated, SameCourse, Followed

\* One more run, or one less, of a node leaves the others' data as it is.
LEMMA OthersStay ==
    ASSUME NEW d \in [Nodes -> Seq(Tasks)], NEW n, NEW task
    PROVE  \A m \in Nodes \ {n} : OneMore(d, n, task)[m] = d[m] /\ LastTaken(d, n)[m] = d[m]
BY DEF OneMore, LastTaken

\* The row follows when it is given the run's data, and stays otherwise.
LEMMA ProgressInsulated ==
    ASSUME TypeOK(row), NEW B, InsulatedRow(run, row, B), NEW n \in Nodes, n \in B, NEW task \in Tasks,
           NEW q, TypeOK(q), ToCome(q) \cap run.filter \subseteq B, q.last \in B \cup {NoNode},
           NEW p, SameCourse(run, p)
    PROVE  InsulatedRow(p, Progress(q, n, task), B)
<1> DEFINE w == Progress(q, n, task)
<1>1. CASE ~workflow.saveProgress
  <2>1. w = row
    BY <1>1 DEF Progress
  <2> QED
    BY <2>1 DEF InsulatedRow, SameCourse
<1>2. CASE workflow.saveProgress
  <2>1. SavedShape(q, w, n, task)
    BY <1>2, ProgressIs
  <2> HIDE DEF w
  <2>2. /\ w.kept = row.kept /\ w.filter = row.filter /\ w.destination = row.destination
        /\ w.runData = OneMore(row.runData, n, task) /\ w.last = q.last /\ ToCome(w) = ToCome(q)
    BY <2>1 DEF SavedShape, ToCome
  <2>3. CASE Unmixed(row)
    BY <2>2, <2>3 DEF Unmixed, InsulatedRow, w
  <2>4. CASE SameCourse(run, row) /\ Insulated(row, B)
    <3>1. row.runData \in [Nodes -> Seq(Tasks)]
      BY DEF TypeOK, Records
    <3>2. \A m \in Nodes \ B : w.runData[m] = row.runData[m]
      BY SMTT(30), <2>2, <3>1, OthersStay
    <3>3. SameCourse(row, w) /\ ToCome(w) \cap row.filter \subseteq B /\ w.last \in B \cup {NoNode}
      BY <2>2, <2>4 DEF SameCourse
    <3>4. Insulated(w, B)
      BY <2>4, <3>2, <3>3, StaysInsulated
    <3>5. SameCourse(p, w)
      BY <2>2, <2>4 DEF SameCourse
    <3> QED
      BY <3>4, <3>5 DEF InsulatedRow, w
  <2> QED
    BY <2>3, <2>4 DEF InsulatedRow
<1> QED
  BY <1>1, <1>2

\* What is handed on goes to the nodes the links lead to.
LEMMA AddGoesTo ==
    ASSUME workflow \in Workflows, NEW r, TypeOK(r), NEW l \in workflow.links, NEW b \in AllBatches
    PROVE  ToCome(AddNodeToBeExecuted(r, l, b)) \subseteq ToCome(r) \cup {l.to}
<1> DEFINE q == AddNodeToBeExecuted(r, l, b)
           x == Item(l.to, NewData(r, l, b))
<1>1. q.stack = AddedStack(r, l, b) /\ Range(q.order) \subseteq Range(r.order) \cup {l.to}
  BY AddFacts
<1>2. r.stack \in Seq(Items) /\ x \in Items /\ x.node = l.to
  BY NewDataIs DEF TypeOK, Records, Item, Items
<1>3. q.stack = r.stack \/ q.stack = <<x>> \o r.stack
  BY <1>1 DEF AddedStack
<1> HIDE DEF q, x
<1>4. ASSUME NEW i \in DOMAIN q.stack PROVE q.stack[i].node \in ToCome(r) \cup {l.to}
  <2>1. q.stack[i] = x \/ \E j \in DOMAIN r.stack : q.stack[i] = r.stack[j]
    <3>1. CASE q.stack = r.stack
      BY <3>1
    <3>2. CASE q.stack = <<x>> \o r.stack
      <4>1. \A k \in DOMAIN (<<x>> \o r.stack) :
               (<<x>> \o r.stack)[k] = x \/ \E j \in DOMAIN r.stack : (<<x>> \o r.stack)[k] = r.stack[j]
        BY <1>2, PushedIs
      <4> QED
        BY <3>2, <4>1
    <3> QED
      BY <1>3, <3>1, <3>2
  <2>2. CASE q.stack[i] = x
    BY <1>2, <2>2
  <2>3. ASSUME NEW j \in DOMAIN r.stack, q.stack[i] = r.stack[j]
        PROVE  q.stack[i].node \in ToCome(r)
    BY <2>3 DEF ToCome
  <2> QED
    BY <2>1, <2>2, <2>3
<1> QED
  BY <1>1, <1>4 DEF ToCome, q

LEMMA HandOnGoesTo ==
    ASSUME workflow \in Workflows, NEW r, TypeOK(r), NEW n \in Nodes, NEW index \in Nat, NEW outs
    PROVE  \A m \in ToCome(HandOn(r, n, index, NodesToAdd(n, outs))) :
               m \in ToCome(r) \/ \E l \in workflow.links : l.from = n /\ l.to = m
<1> DEFINE links == NodesToAdd(n, outs)
           len == Len(links)
           Ahead == ToCome(r) \cup {l.to : l \in {k \in workflow.links : k.from = n}}
<1>1. links \in Seq(workflow.links) /\ \A k \in DOMAIN links : links[k].from = n
  <2>1. /\ links \in Seq(workflow.links)
        /\ {links[i] : i \in 1..Len(links)} = {l \in workflow.links : l.from = n /\ l.output \in outs}
    BY NodesToAddFacts
  <2> HIDE DEF links
  <2>2. DOMAIN links = 1..Len(links)
    BY <2>1
  <2> QED
    BY <2>1, <2>2
<1> HIDE DEF links
<1>2. len \in Nat /\ DOMAIN links = 1..len
      /\ \A k \in 1..len : links[k] \in workflow.links /\ links[k].from = n
  BY <1>1
<1>3. PICK g : /\ g[0] = r /\ HandOn(r, n, index, links) = g[len]
               /\ \A k \in 1..len : g[k] = HandOnStep(g[k - 1], n, index, links[k])
  BY <1>2, HandOnSteps
<1> HIDE DEF len
<1> DEFINE T == {k \in Nat : k <= len => TypeOK(g[k]) /\ ToCome(g[k]) \subseteq Ahead}
<1>4. 0 \in T
  BY <1>3
<1>5. ASSUME NEW k \in Nat, k \in T PROVE k + 1 \in T
  <2> SUFFICES ASSUME k + 1 <= len
               PROVE  TypeOK(g[k + 1]) /\ ToCome(g[k + 1]) \subseteq Ahead
    OBVIOUS
  <2>0. k + 1 \in 1..len /\ k + 1 - 1 = k
    BY <1>2
  <2> DEFINE l == links[k + 1]
  <2>1. l \in workflow.links /\ l.from = n /\ g[k + 1] = HandOnStep(g[k], n, index, l)
    BY <1>2, <1>3, <2>0
  <2>2. TypeOK(g[k]) /\ ToCome(g[k]) \subseteq Ahead
    BY <1>2, <1>5
  <2> HIDE DEF l
  <2>3. <<n, index, l.output>> \in AllBatches
    BY <2>1, GraphFacts DEF Links, AllBatches
  <2>4. g[k + 1] = AddNodeToBeExecuted(g[k], l, <<n, index, l.output>>)
    BY <2>1 DEF HandOnStep
  <2>5. TypeOK(g[k + 1]) /\ ToCome(g[k + 1]) \subseteq ToCome(g[k]) \cup {l.to}
    BY <2>1, <2>2, <2>3, <2>4, AddFacts, AddGoesTo
  <2> QED
    BY <2>1, <2>2, <2>5
<1>6. len \in T
  <2> HIDE DEF T
  <2> QED BY <1>2, <1>4, <1>5, Induct
<1> QED
  BY <1>2, <1>3, <1>6 DEF links

\* The waiting node that is run was to come.
LEMMA RunWaitingGoesTo ==
    ASSUME workflow \in Workflows, NEW r, TypeOK(r)
    PROVE  ToCome(RunWaiting(r)) \subseteq ToCome(r)
<1>1. r \in Records
  BY DEF TypeOK
<1>2. CASE r.stack # <<>> \/ NoneReady(r)
  BY <1>1, <1>2, RunWaitingIs
<1>3. CASE r.stack = <<>> /\ ~NoneReady(r)
  <2>1. PICK n \in Ready(r) : RunWaiting(r) = RunOf(r, n)
    BY <1>1, <1>3, RunWaitingIs
  <2> DEFINE q == RunOf(r, n)
             x == Item(n, Filled(r, n))
  <2>2. q.stack = <<x>> /\ Range(q.order) \subseteq Range(r.order)
    BY RunOfFacts
  <2>3. x.node = n /\ n \in Range(r.order)
    BY DEF Item, Ready
  <2> HIDE DEF q, x
  <2>4. \A i \in DOMAIN q.stack : q.stack[i].node = n
    BY <2>2, <2>3
  <2> QED
    BY <2>1, <2>2, <2>3, <2>4 DEF ToCome, q
<1> QED
  BY <1>2, <1>3

\* What is below the top of the stack was to come, and the top too.
LEMMA TailGoesTo ==
    ASSUME NEW r \in Records, r.stack # <<>>, NEW q, q.order = r.order,
           q.stack \in {r.stack, Tail(r.stack)}
    PROVE  ToCome(q) \subseteq ToCome(r) /\ Head(r.stack).node \in ToCome(r)
BY TopFacts DEF ToCome

-----------------------------------------------------------------------------
(* What is run again stays closed: one lemma for each action *)

\* What a step makes of the execution goes on from what is run again.
GoesOnIn(q, B) == ToCome(q) \cap run.filter \subseteq B /\ q.last \in B \cup {NoNode}

\* The node whose turn it is is one of those that are run again.
LEMMA TurnInsulated ==
    ASSUME workflow \in Workflows, StandInv(run, row), Turn, NEW B, Insulated(run, B)
    PROVE  Top.node \in B /\ GoesOnIn(run, B)
<1>1. run \in Records /\ run.stack # <<>> /\ Top.node \in run.filter
  BY TurnFacts DEF Turn
<1>2. Top.node \in ToCome(run)
  BY <1>1, TailGoesTo DEF Top
<1> QED
  BY <1>1, <1>2 DEF Insulated, GoesOnIn

\* A run is added to a node that is run again, in the run and, where it is saved, in the row.
LEMMA RunsInsulated ==
    ASSUME StandInv(run, row), NEW B \in SUBSET Nodes, Insulated(run, B), InsulatedRow(run, row, B),
           NEW n \in B, NEW task \in Tasks,
           NEW p, SameCourse(run, p), p.runData = OneMore(run.runData, n, task), GoesOnIn(p, B),
           NEW q, TypeOK(q), GoesOnIn(q, B)
    PROVE  Insulated(p, B) /\ InsulatedRow(p, Progress(q, n, task), B)
<1>1. TypeOK(row) /\ run.runData \in [Nodes -> Seq(Tasks)] /\ n \in Nodes
  BY DEF StandInv, TypeOK, Records
<1>2. \A m \in Nodes \ B : p.runData[m] = run.runData[m]
  <2> SUFFICES ASSUME NEW m \in Nodes \ B PROVE p.runData[m] = run.runData[m]
    OBVIOUS
  <2>1. m \in Nodes \ {n}
    OBVIOUS
  <2> QED
    BY <1>1, <2>1, OthersStay
<1>3. Insulated(p, B)
  <2>1. ToCome(p) \cap run.filter \subseteq B /\ p.last \in B \cup {NoNode}
    BY DEF GoesOnIn
  <2> QED
    BY <1>2, <2>1, StaysInsulated
<1>4. InsulatedRow(p, Progress(q, n, task), B)
  BY <1>1, ProgressInsulated DEF GoesOnIn
<1> QED
  BY <1>3, <1>4

LEMMA NodeSucceedsInsulated ==
    ASSUME workflow \in Workflows, StandInv(run, row), NEW outs, NodeSucceeds(outs),
           NEW B \in SUBSET Nodes, Insulated(run, B), InsulatedRow(run, row, B)
    PROVE  Insulated(run', B) /\ InsulatedRow(run', row', B)
<1> DEFINE added == Added(run, outs)
           ran == Passed(run, outs)
           task == Task("success", Top.data, outs)
           q == Saved(added)
           p == RunWaiting(added)
           n == Top.node
           index == Len(run.runData[n])
<1>1. Turn /\ outs \in Outcomes(Top) /\ n # run.destination
      /\ run' = p /\ row' = Progress(q, n, task)
  BY SuccessIs
<1>2. run \in Records /\ run.stack # <<>> /\ n \in Nodes /\ index \in Nat /\ task \in Tasks
  BY <1>1, TurnFacts
<1>3. /\ TypeOK(ran) /\ RanShape(run, ran, n, task) /\ ran.stack = Tail(run.stack)
      /\ TypeOK(added) /\ Rest(ran, added)
  BY <1>1, AddedFacts
<1>4. added = HandOn(ran, n, index, NodesToAdd(n, outs))
  BY DEF Added, Top
<1>5. n \in B /\ GoesOnIn(run, B)
  BY <1>1, TurnInsulated
<1> HIDE DEF ran, added, n, index, task
<1>6. /\ added.last = n /\ added.runData = OneMore(run.runData, n, task)
      /\ SameCourse(run, added)
  BY <1>3 DEF RanShape, Rest, SameCourse
<1>7. ToCome(ran) \subseteq ToCome(run)
  BY <1>2, <1>3, TailGoesTo DEF RanShape
<1>8. ToCome(added) \cap run.filter \subseteq B
  <2> SUFFICES ASSUME NEW m \in ToCome(added), m \in run.filter PROVE m \in B
    OBVIOUS
  <2>1. m \in ToCome(ran) \/ \E l \in workflow.links : l.from = n /\ l.to = m
    BY <1>2, <1>3, <1>4, HandOnGoesTo
  <2>2. CASE m \in ToCome(ran)
    BY <1>5, <1>7, <2>2 DEF GoesOnIn
  <2>3. ASSUME NEW l \in workflow.links, l.from = n, l.to = m PROVE m \in B
    BY <1>1, <1>5, <2>3 DEF Insulated, Followed
  <2> QED
    BY <2>1, <2>2, <2>3
<1>9. /\ TypeOK(q) /\ q.stack = added.stack /\ q.order = added.order /\ q.last = added.last
      /\ Rest(added, p) /\ ToCome(p) \subseteq ToCome(added)
  BY <1>3, SavedFacts, RunWaitingFacts, RunWaitingGoesTo
<1> HIDE DEF p, q
<1>10. GoesOnIn(p, B) /\ GoesOnIn(q, B)
  BY <1>5, <1>6, <1>8, <1>9 DEF GoesOnIn, ToCome, Rest
<1>11. SameCourse(run, p) /\ p.runData = OneMore(run.runData, n, task)
  BY <1>6, <1>9 DEF SameCourse, Rest
<1> QED
  BY <1>1, <1>2, <1>5, <1>9, <1>10, <1>11, RunsInsulated

LEMMA DestinationSucceedsInsulated ==
    ASSUME workflow \in Workflows, StandInv(run, row), NEW outs, DestinationSucceeds(outs),
           NEW B \in SUBSET Nodes, Insulated(run, B), InsulatedRow(run, row, B)
    PROVE  Insulated(run', B) /\ InsulatedRow(run', row', B)
<1> DEFINE q == Ended(run, outs)
           task == Task("success", Top.data, outs)
           n == Top.node
<1>1. Turn /\ outs \in Outcomes(Top) /\ run' = q /\ row' = Progress(q, n, task)
  BY DEF DestinationSucceeds, Ended, RanOn, Top
<1>2. /\ TypeOK(run) /\ n \in Nodes /\ task \in Tasks /\ run.stack # <<>> /\ run \in Records
      /\ Tail(run.stack) \in Seq(Items)
  BY <1>1, TurnFacts
<1>3. TypeOK(q) /\ RanShape(run, q, n, task) /\ q.stack = Tail(run.stack)
  BY <1>2, RanFacts DEF Ended, Top
<1>4. n \in B /\ GoesOnIn(run, B)
  BY <1>1, TurnInsulated
<1> HIDE DEF q, n, task
<1>5. GoesOnIn(q, B) /\ SameCourse(run, q) /\ q.runData = OneMore(run.runData, n, task)
  <2>1. ToCome(q) \subseteq ToCome(run)
    BY <1>2, <1>3, TailGoesTo DEF RanShape
  <2> QED
    BY <1>3, <1>4, <2>1 DEF RanShape, SameCourse, GoesOnIn
<1> QED
  BY <1>1, <1>2, <1>3, <1>4, <1>5, RunsInsulated

LEMMA NodeFailsInsulated ==
    ASSUME workflow \in Workflows, StandInv(run, row), NodeFails,
           NEW B \in SUBSET Nodes, Insulated(run, B), InsulatedRow(run, row, B)
    PROVE  Insulated(run', B) /\ InsulatedRow(run', row', B)
<1> DEFINE q == Tried(run, "error")
           p == Failed(run)
           task == Task("error", Top.data, {})
           n == Top.node
<1>1. Turn
  BY DEF NodeFails
<1>2. run.status = "running" /\ n \in Nodes /\ task \in Tasks /\ run \in Records /\ run.stack # <<>>
  BY <1>1, TurnFacts
<1>3. /\ TypeOK(q) /\ RanShape(run, q, n, task) /\ q.stack = run.stack
      /\ Ran(run, n, task) = q
  BY <1>1, TriedFacts
<1>4. /\ p.stack = q.stack /\ p.order = q.order /\ p.runData = q.runData /\ p.last = q.last
      /\ p.destination = q.destination /\ p.filter = q.filter /\ p.kept = q.kept
      /\ q.status = "running" => [p EXCEPT !.status = "running"] = q
  BY <1>3, FailedFacts DEF Failed
<1>5. run' = p /\ row' = Progress(q, n, task)
  BY <1>2, <1>3, <1>4 DEF NodeFails, Failed, RanShape
<1>6. n \in B /\ GoesOnIn(run, B)
  BY <1>1, TurnInsulated
<1> HIDE DEF q, p, n, task
<1>7. ToCome(q) \subseteq ToCome(run) /\ ToCome(p) = ToCome(q)
  <2>1. ToCome(q) \subseteq ToCome(run)
    BY <1>2, <1>3, TailGoesTo DEF RanShape
  <2> QED
    BY <1>4, <2>1 DEF ToCome
<1>8. GoesOnIn(q, B) /\ GoesOnIn(p, B)
  BY <1>3, <1>4, <1>6, <1>7 DEF RanShape, GoesOnIn
<1>9. SameCourse(run, p) /\ p.runData = OneMore(run.runData, n, task)
  BY <1>3, <1>4 DEF RanShape, SameCourse
<1> QED
  BY <1>2, <1>3, <1>5, <1>6, <1>8, <1>9, RunsInsulated

LEMMA NodeWaitsInsulated ==
    ASSUME workflow \in Workflows, StandInv(run, row), NodeWaits,
           NEW B \in SUBSET Nodes, Insulated(run, B), InsulatedRow(run, row, B)
    PROVE  Insulated(run', B) /\ InsulatedRow(run', row', B)
<1> DEFINE t == Tried(run, "waiting")
           task == Task("waiting", Top.data, {})
           n == Top.node
           xs == Waiter(run)
           p == Pause(t, xs)
           q == PauseSave(t, xs, Tail(run.stack))
<1>1. Turn
  BY DEF NodeWaits
<1>2. /\ n \in Nodes /\ task \in Tasks /\ run.stack # <<>>
      /\ run \in Records /\ Tail(run.stack) \in Seq(Items) /\ xs \in SUBSET (Nodes \X Data)
      /\ run.stack \in Seq(Items)
  BY <1>1, TurnFacts, WaiterFacts
<1>3. /\ run' = p /\ row' = Progress(q, n, task)
      /\ TypeOK(t) /\ RanShape(run, t, n, task) /\ t.stack = run.stack
  BY WaitIs
<1>4. n \in B /\ GoesOnIn(run, B)
  BY <1>1, TurnInsulated
<1> HIDE DEF t, n, task, xs
<1>5. PausedShape(t, p, xs) /\ TypeOK(q)
  BY <1>2, <1>3, PausedFacts
<1>6. q.stack = Tail(run.stack) /\ q.order = t.order /\ q.last = t.last
  BY <1>3 DEF PauseSave, TypeOK, Records
<1> HIDE DEF p, q
<1>7. ToCome(p) \subseteq ToCome(run) /\ ToCome(q) \subseteq ToCome(run)
  BY <1>2, <1>3, <1>5, <1>6, TailGoesTo DEF PausedShape, RanShape
<1>8. GoesOnIn(p, B) /\ GoesOnIn(q, B)
  BY <1>3, <1>4, <1>5, <1>6, <1>7 DEF PausedShape, RanShape, GoesOnIn
<1>9. SameCourse(run, p) /\ p.runData = OneMore(run.runData, n, task)
  BY <1>3, <1>5 DEF PausedShape, RanShape, SameCourse
<1> QED
  BY <1>2, <1>3, <1>4, <1>5, <1>8, <1>9, RunsInsulated

\* An item that is passed over, or has nothing to run, takes the top off the stack.
LEMMA TopLeavesInsulated ==
    ASSUME NEW B, Insulated(run, B), InsulatedRow(run, row, B), run \in Records, run.stack # <<>>,
           NEW q, q.stack = Tail(run.stack), q.order = run.order, q.runData = run.runData,
           SameCourse(run, q), q.last \in B \cup {NoNode}
    PROVE  Insulated(q, B) /\ InsulatedRow(q, row, B)
<1>1. ToCome(q) \subseteq ToCome(run)
  BY TailGoesTo
<1>2. ToCome(q) \cap run.filter \subseteq B
  BY <1>1 DEF Insulated
<1>3. Insulated(q, B)
  BY <1>2, StaysInsulated
<1> QED
  BY <1>3 DEF InsulatedRow, SameCourse

LEMMA PassOverInsulated ==
    ASSUME workflow \in Workflows, StandInv(run, row), PassOver,
           NEW B \in SUBSET Nodes, Insulated(run, B), InsulatedRow(run, row, B)
    PROVE  Insulated(run', B) /\ InsulatedRow(run', row', B)
<1> DEFINE q == Dropped(run)
<1>1. run.stack # <<>> /\ run' = q /\ row' = row /\ TypeOK(run) /\ run \in Records
  BY DEF PassOver, Dropped, StandInv, TypeOK
<1>2. /\ q.stack = Tail(run.stack) /\ q.order = run.order /\ q.runData = run.runData
      /\ q.last = run.last /\ q.destination = run.destination /\ q.filter = run.filter
      /\ q.kept = run.kept
  BY <1>1, DroppedFacts
<1> HIDE DEF q
<1>3. SameCourse(run, q) /\ q.last \in B \cup {NoNode}
  BY <1>2 DEF SameCourse, Insulated
<1> QED
  BY <1>1, <1>2, <1>3, TopLeavesInsulated

LEMMA NodeReturnsNothingInsulated ==
    ASSUME workflow \in Workflows, StandInv(run, row), NodeReturnsNothing,
           NEW B \in SUBSET Nodes, Insulated(run, B), InsulatedRow(run, row, B)
    PROVE  Insulated(run', B) /\ InsulatedRow(run', row', B)
<1>1. PICK last \in {run.last, Top.node} : run' = Silenced(run, last)
  BY DEF NodeReturnsNothing, Silenced, Top
<1>2. Turn /\ run.stack # <<>> /\ row' = row /\ TypeOK(run) /\ run \in Records
  BY DEF NodeReturnsNothing, Turn, StandInv, TypeOK
<1> DEFINE q == Silenced(run, last)
<1>3. IsSilenced(run, q) /\ q.last = last
  BY <1>2 DEF Top, IsSilenced, Silenced, Records
<1> HIDE DEF q
<1>4. TopGoesSilent(run, q)
  BY <1>2, <1>3, SilencedFacts
<1>5. SameCourse(run, q) /\ q.last \in B \cup {NoNode}
  BY <1>2, <1>3, <1>4, TurnInsulated DEF TopGoesSilent, SameCourse, GoesOnIn
<1> QED
  BY <1>1, <1>2, <1>4, <1>5, TopLeavesInsulated DEF q, TopGoesSilent

\* Only how an execution stands changes.
LEMMA SameIsInsulated ==
    ASSUME NEW r, NEW q, SameBut(r, q)
    PROVE  SameCourse(r, q) /\ \A B : Insulated(r, B) => Insulated(q, B)
BY DEF SameBut, SameCourse, Insulated, ToCome, Followed

LEMMA FinishInsulated ==
    ASSUME workflow \in Workflows, StandInv(run, row), Finish,
           NEW B \in SUBSET Nodes, Insulated(run, B)
    PROVE  Insulated(run', B) /\ InsulatedRow(run', row', B)
<1>1. SameBut(run, run') /\ SameBut(run, row')
  BY FinishStand
<1>2. SameCourse(run, run') /\ SameCourse(run, row') /\ Insulated(run', B) /\ Insulated(row', B)
  BY <1>1, SameIsInsulated
<1> QED
  BY <1>2 DEF InsulatedRow, SameCourse

LEMMA CrashInsulated ==
    ASSUME workflow \in Workflows, StandInv(run, row), Crash,
           NEW B \in SUBSET Nodes, Insulated(run, B), InsulatedRow(run, row, B)
    PROVE  Insulated(run', B) /\ InsulatedRow(run', row', B)
<1>1. SameBut(run, run') /\ SameBut(row, row')
  BY CrashStand
<1>2. SameCourse(run, run') /\ SameCourse(row, row') /\ Insulated(run', B)
      /\ (Insulated(row, B) => Insulated(row', B))
  BY <1>1, SameIsInsulated
<1> QED
  BY <1>2 DEF InsulatedRow, SameCourse, Unmixed

\* Taking the last run of the last node away leaves the data of the others as it is.
LEMMA LastTakenInsulated ==
    ASSUME NEW r, TypeOK(r), NEW B, Insulated(r, B),
           NEW q, SameCourse(r, q), q.last = r.last, ToCome(q) = ToCome(r),
           q.runData \in {r.runData, LastTaken(r.runData, r.last)}
    PROVE  Insulated(q, B)
<1>1. r.runData \in [Nodes -> Seq(Tasks)] /\ r.last \in B \cup {NoNode} /\ NoNode \notin Nodes
  BY EngineAssumption DEF TypeOK, Records, Insulated
<1>2. ASSUME NEW m \in Nodes \ B PROVE q.runData[m] = r.runData[m]
  <2>1. m # r.last
    BY <1>1
  <2> QED
    BY <1>1, <2>1 DEF LastTaken
<1>3. ToCome(q) \cap r.filter \subseteq B /\ q.last \in B \cup {NoNode}
  BY <1>1 DEF Insulated
<1> QED
  BY <1>2, <1>3, StaysInsulated

\* What is to come is so after a restart too.
LEMMA RestartedToCome ==
    ASSUME workflow \in Workflows, NEW r, TypeOK(r), r.waitTill => r.stack # <<>>
    PROVE  ToCome(Restarted(r)) = ToCome(r)
<1> DEFINE q == Restarted(r)
<1>1. RestartShape(r, q)
  BY RestartFacts
<1> HIDE DEF q
<1>2. r.stack \in Seq(Items)
  BY DEF TypeOK, Records
<1>3. q.stack = TakenUp(r) /\ q.order = r.order
  BY <1>1 DEF RestartShape
<1>4. SameItems(r.stack, q.stack)
  BY <1>2, <1>3, TakenUpFacts
<1>5. {q.stack[i].node : i \in DOMAIN q.stack} = {r.stack[i].node : i \in DOMAIN r.stack}
  BY <1>4 DEF SameItems
<1> QED
  BY <1>3, <1>5 DEF ToCome, q

\* The engine begins again (Restart).
LEMMA RestartedInsulated ==
    ASSUME workflow \in Workflows, NEW r, TypeOK(r), r.waitTill => r.stack # <<>>,
           NEW B, Insulated(r, B)
    PROVE  SameCourse(r, Restarted(r)) /\ Insulated(Restarted(r), B)
<1> DEFINE q == Restarted(r)
<1>1. RestartShape(r, q)
  BY RestartFacts
<1> HIDE DEF q
<1>2. ToCome(q) = ToCome(r)
  BY RestartedToCome DEF q
<1>3. SameCourse(r, q) /\ q.last = r.last
      /\ q.runData \in {r.runData, LastTaken(r.runData, r.last)}
  BY <1>1 DEF RestartShape, SameCourse
<1>4. Insulated(q, B)
  BY <1>2, <1>3, LastTakenInsulated
<1> QED
  BY <1>3, <1>4 DEF q

\* What the row holds may be gone on with: what is run again is as for the run, or all there is.
LEMMA RowInsulated ==
    ASSUME workflow \in Workflows, StandInv(run, row), NEW B \in SUBSET Nodes, InsulatedRow(run, row, B)
    PROVE  \E C \in SUBSET Nodes : Insulated(row, C)
<1>1. row \in Records
  BY DEF StandInv, TypeOK
<1> QED
  BY <1>1, UnmixedIsInsulated DEF InsulatedRow

LEMMA ResumeInsulated ==
    ASSUME workflow \in Workflows, StandInv(run, row), ResumeByTimer \/ ResumeByWebhook,
           NEW B \in SUBSET Nodes, Insulated(row, B)
    PROVE  Insulated(run', B) /\ InsulatedRow(run', row', B)
<1>1. run' = Restarted(row) /\ (SameBut(row, row') \/ row' = run') /\ TypeOK(row)
      /\ (row.waitTill => row.stack # <<>>)
  BY ResumeStand DEF StandInv
<1>2. SameCourse(row, run') /\ Insulated(run', B)
  BY <1>1, RestartedInsulated
<1>3. SameCourse(row, row') /\ Insulated(row', B)
  BY <1>1, <1>2, SameIsInsulated
<1> QED
  BY <1>2, <1>3 DEF InsulatedRow, SameCourse

LEMMA RetryInsulated ==
    ASSUME workflow \in Workflows, StandInv(run, row), Retry,
           NEW B \in SUBSET Nodes, Insulated(row, B)
    PROVE  Insulated(run', B) /\ InsulatedRow(run', row', B)
<1> DEFINE data == Retried(row)
<1>1. /\ run' = Restarted(data) /\ row' = data /\ TypeOK(row) /\ TypeOK(data)
      /\ RetriedShape(row, data) /\ (data.waitTill => data.stack # <<>>)
  BY RetryStand DEF StandInv
<1> HIDE DEF data
<1>2. /\ SameCourse(row, data) /\ data.last = row.last /\ ToCome(data) = ToCome(row)
      /\ data.runData \in {row.runData, LastTaken(row.runData, row.last)}
  BY <1>1 DEF RetriedShape, SameCourse, ToCome
<1>3. Insulated(data, B)
  BY <1>1, <1>2, LastTakenInsulated
<1>4. SameCourse(data, run') /\ Insulated(run', B)
  BY <1>1, <1>3, RestartedInsulated
<1> QED
  BY <1>1, <1>3, <1>4 DEF InsulatedRow, SameCourse

\* What is run again is what can be reached from the nodes to start from: the data of all of it is
\* thrown away, and what the engine goes on to in the filter is in the subgraph too.
LEMMA BegunInsulated ==
    ASSUME workflow \in Workflows, NEW d \in Nodes, NEW starts \in SUBSET Subgraph(d).nodes,
           NEW data, CleanedFor(d, data, starts), NEW r, BeginsWith(r, d, data, starts)
    PROVE  \E B \in SUBSET Nodes : Insulated(r, B)
<1> DEFINE graph == Subgraph(d)
           B == Below(graph, starts)
<1>1. /\ graph.nodes \subseteq Nodes /\ \A l \in graph.links : l.from \in graph.nodes /\ l.to \in graph.nodes
      /\ \A l \in workflow.links :
            l.from \in graph.nodes /\ l.to \in graph.nodes /\ l.from # d => l \in graph.links
  BY SubgraphFacts
<1>2. /\ starts \subseteq B /\ B \subseteq Nodes
      /\ \A l \in graph.links : l.from \in B => l.to \in B
      /\ B \subseteq graph.nodes
  <2>1. \A l \in graph.links : l.to \in Nodes
    BY <1>1
  <2>2. starts \in SUBSET Nodes
    BY <1>1
  <2>3. B = Reach(graph.links, starts)
    BY DEF Below
  <2> HIDE DEF graph, B
  <2>4. /\ starts \subseteq B /\ B \subseteq Nodes
        /\ \A l \in graph.links : l.from \in B => l.to \in B
    BY <2>1, <2>2, <2>3, ReachFacts
  <2>5. \A S : starts \subseteq S /\ (\A l \in graph.links : l.from \in S => l.to \in S) => B \subseteq S
    BY <2>1, <2>2, <2>3, ReachFacts
  <2>6. starts \subseteq graph.nodes
    BY DEF graph
  <2> QED
    BY <1>1, <2>4, <2>5, <2>6
<1>3. /\ data \in [Nodes -> Seq(Tasks)]
      /\ \A n \in Nodes : n \in B \/ n \notin graph.nodes => data[n] = <<>>
  BY DEF CleanedFor
<1>4. /\ r.runData = data /\ r.kept = [n \in Nodes |-> Len(data[n])]
      /\ r.last = NoNode /\ r.destination = d /\ r.filter = graph.nodes
      /\ \A i \in DOMAIN r.stack : r.stack[i].node \in starts
      /\ Range(r.order) \subseteq starts
  BY DEF BeginsWith
<1> HIDE DEF graph, B
<1>5. \A n \in B : r.kept[n] = 0
  BY <1>2, <1>3, <1>4
<1>6. ToCome(r) \subseteq B
  BY <1>2, <1>4 DEF ToCome
<1>7. \A l \in Followed(r) : l.from \in B => l.to \in B
  BY <1>1, <1>2, <1>4 DEF Followed
<1>8. Insulated(r, B)
  BY <1>4, <1>5, <1>6, <1>7 DEF Insulated
<1> QED
  BY <1>2, <1>8

LEMMA ExecuteNodeInsulated ==
    ASSUME workflow \in Workflows, StandInv(run, row), NEW d \in workflow.destinations,
           NEW edited, NEW rank \in Orders, ExecuteNode(d, edited, rank)
    PROVE  \E B \in SUBSET Nodes : Insulated(run', B) /\ InsulatedRow(run', row', B)
<1>1. d \in Nodes /\ row' = [Blank EXCEPT !.repeats = row.repeats + 1]
  BY ExecuteNodeIs DEF StandInv
<1>2. PICK starts \in SUBSET Subgraph(d).nodes, data \in [Nodes -> Seq(Tasks)] :
          /\ CleanedFor(d, data, starts)
          /\ run' = Prepared(d, data, row.repeats + 1, rank, starts)
  BY ExecuteNodeIs DEF StandInv
<1>3. row.repeats + 1 \in Nat
  <2>1. row \in Records
    BY DEF StandInv, TypeOK
  <2> QED
    BY <2>1 DEF Records
<1>4. BeginsWith(run', d, data, starts)
  BY <1>1, <1>2, <1>3, BegunFacts
<1>5. PICK B \in SUBSET Nodes : Insulated(run', B)
  BY <1>1, <1>2, <1>4, BegunInsulated
<1>6. Unmixed(row')
  <2>1. row'.kept = [n \in Nodes |-> 0]
    BY <1>1, <1>3, NewRowIs
  <2> QED
    BY <2>1 DEF Unmixed
<1> QED
  BY <1>5, <1>6 DEF InsulatedRow

\* An execution of the whole workflow begins with nothing kept.
LEMMA InsulationInit ==
    ASSUME Init
    PROVE  Insulation
<1>1. run.kept = [n \in Nodes |-> 0] /\ row.kept = [n \in Nodes |-> 0]
  <2>1. Blank.kept = [n \in Nodes |-> 0]
    BY DEF Blank
  <2>2. Blank \in Records
    BY BlankIs DEF TypeOK
  <2> DEFINE stack == <<Item(Start, [i \in {0} |-> Given])>>
             started == [Blank EXCEPT !.stack = stack]
  <2>3. \/ run = [started EXCEPT !.stored = TRUE] /\ row = run
        \/ \E d \in workflow.destinations :
              run = [started EXCEPT !.destination = d, !.filter = Ancestors(d) \cup {d}] /\ row = Blank
    BY DEF Init
  <2> HIDE DEF stack
  <2>4. "kept" \in DOMAIN started /\ started.kept = Blank.kept
    BY <2>2 DEF Records
  <2> HIDE DEF started
  <2>5. run.kept = started.kept /\ (row = run \/ row = Blank)
    BY <2>3, <2>4
  <2> QED
    BY <2>1, <2>4, <2>5
<1>2. workflow \in Workflows /\ run \in Records
  BY StandingInit DEF Standing, StandInv, TypeOK, Init
<1>3. Unmixed(run) /\ Unmixed(row)
  BY <1>1 DEF Unmixed
<1> QED
  BY <1>2, <1>3, UnmixedIsInsulated DEF Insulation, InsulatedRow

\* The workflow does not change, so that what is said of the next state is said in it.
LEMMA InsulationTransfers ==
    ASSUME workflow' = workflow, \E B \in SUBSET Nodes : Insulated(run', B) /\ InsulatedRow(run', row', B)
    PROVE  Insulation'
BY DEF Insulation, Insulated, InsulatedRow, Unmixed, SameCourse, ToCome, Followed

LEMMA InsulationNext ==
    ASSUME Standing, Insulation, [RepeatNext]_vars
    PROVE  Insulation'
<1>0. workflow \in Workflows /\ StandInv(run, row)
  BY DEF Standing
<1>1. PICK B \in SUBSET Nodes : Insulated(run, B) /\ InsulatedRow(run, row, B)
  BY DEF Insulation
<1>2. CASE UNCHANGED vars
  BY <1>1, <1>2, InsulationTransfers DEF vars
<1>3. CASE Next
  <2>1. workflow' = workflow
    BY <1>3 DEF Next, NodeSucceeds, DestinationSucceeds, Turn, PassOver, NodeReturnsNothing,
                NodeFails, NodeWaits, Finish, Crash, ResumeByTimer, ResumeByWebhook, Retry
  <2>2. PICK C \in SUBSET Nodes : Insulated(row, C)
    BY <1>0, <1>1, RowInsulated
  <2>3. \E D \in SUBSET Nodes : Insulated(run', D) /\ InsulatedRow(run', row', D)
    <3>1. CASE ResumeByTimer \/ ResumeByWebhook \/ Retry
      BY <1>0, <2>2, <3>1, ResumeInsulated, RetryInsulated
    <3>2. CASE ~(ResumeByTimer \/ ResumeByWebhook \/ Retry)
      BY <1>0, <1>1, <1>3, <3>2, NodeSucceedsInsulated, DestinationSucceedsInsulated,
         PassOverInsulated, NodeReturnsNothingInsulated, NodeFailsInsulated, NodeWaitsInsulated,
         FinishInsulated, CrashInsulated DEF Next
    <3> QED
      BY <3>1, <3>2
  <2> QED
    BY <2>1, <2>3, InsulationTransfers
<1>4. ASSUME NEW d \in workflow.destinations, NEW edited, NEW rank \in Orders, ExecuteNode(d, edited, rank)
      PROVE  Insulation'
  BY <1>0, <1>4, ExecuteNodeInsulated, InsulationTransfers DEF ExecuteNode
<1> QED
  BY <1>2, <1>3, <1>4 DEF RepeatNext

\* What has been kept is not run again, and nothing it comes from is.
LEMMA InsulationIsEnough ==
    ASSUME workflow \in Workflows, Insulation
    PROVE  NoStaleMix
<1>1. PICK B \in SUBSET Nodes : Insulated(run, B)
  BY DEF Insulation
<1>2. \A l \in Followed(run) : l.from \in Nodes
  BY GraphFacts DEF Followed, Links
<1> SUFFICES ASSUME NEW n \in Nodes, Kept(n)
             PROVE  /\ Len(run.runData[n]) = run.kept[n]
                    /\ \A l \in Followed(run) : l.to = n =>
                          Len(run.runData[l.from]) = run.kept[l.from]
  BY DEF NoStaleMix
<1>3. n \notin B
  BY <1>1 DEF Insulated, Kept
<1> QED
  BY <1>1, <1>2, <1>3 DEF Insulated

\* No old result is mixed with a new one: a node whose data a partial execution has kept is not run
\* again, and neither is any node that its data comes from, whatever the engine does with stack,
\* waiting nodes, waits, failures, crashes and retries (runPartialWorkflow2, cleanRunData,
\* processRunExecutionData).
THEOREM NoStaleMixAlways == RepeatSpec => []NoStaleMix
<1>1. Init => Standing /\ Insulation
  BY StandingInit, InsulationInit
<1>2. Standing /\ Insulation /\ [RepeatNext]_vars => (Standing /\ Insulation)'
  BY StandingRepeat, InsulationNext
<1>3. Standing /\ Insulation => NoStaleMix
  BY InsulationIsEnough DEF Standing
<1> QED
  BY <1>1, <1>2, <1>3, PTL DEF RepeatSpec

-----------------------------------------------------------------------------
(* The destination is reached *)

\* The links to the destination, or on the way to it, along which kept data has items.
HasOld(r, l) ==
    \E k \in DOMAIN r.runData[l.from] :
        k <= r.kept[l.from] /\ l.output \in r.runData[l.from][k].outs
HasNew(r, l) ==
    \E k \in DOMAIN r.runData[l.from] :
        k > r.kept[l.from] /\ l.output \in r.runData[l.from][k].outs
OldLinks(r) == {l \in LinksUpTo(r.destination) : HasOld(r, l)}

\* The destination is due when kept items lead to it or new ones have been handed to it.  Then it
\* is to come, or has run, or had nothing to work on.
Due(r) ==
    \/ r.destination \in Reach(OldLinks(r), {Start})
    \/ \E l \in LinksUpTo(r.destination) : l.to = r.destination /\ HasNew(r, l)
HasRun(r, n) == \E k \in DOMAIN r.runData[n] : k > r.kept[n] /\ r.runData[n][k].status = "success"
Arrived(r) ==
    LET d == r.destination
    IN  d \in ToCome(r) \/ d \in {x.node : x \in r.silent} \/ HasRun(r, d)
Served(r) ==
    r.destination # NoNode =>
        /\ r.destination \in r.filter
        /\ \A n \in Nodes : r.runData[n] # <<>> => n \in r.filter
        /\ Due(r) => Arrived(r)
ServedRow(r, w) == ~w.marred /\ ~OutOfStep(r, w) => Served(w)

\* Of an execution that has not begun, or has only the data that was kept.
LEMMA OldLinksLead ==
    ASSUME workflow \in Workflows, NEW r
    PROVE  OldLinks(r) \subseteq workflow.links /\ \A l \in OldLinks(r) : l.to \in Nodes /\ l.from \in Nodes
BY GraphFacts DEF OldLinks, LinksUpTo, Links

\* When the items get to the destination, it is due: where they have been handed on anew is what
\* is run again, and from there on all that is in the filter is.
LEMMA ReachedIsDue ==
    ASSUME workflow \in Workflows, NEW r, TypeOK(r), NEW B \in SUBSET Nodes, Insulated(r, B),
           Served(r), r.destination \in Nodes, r.destination \in Reached(r)
    PROVE  Due(r)
<1> DEFINE d == r.destination
           K == {l \in workflow.links : /\ l.from # d
                                        /\ RunsWithItems(r.runData, l.from, l.output) # {}}
           one == {Start}
           Q == Reach(OldLinks(r), one)
           S == {x \in Nodes : x # d /\ (x \in Q \/ x \in B \/ x \notin r.filter)}
<1> SUFFICES ASSUME ~Due(r) PROVE FALSE
  OBVIOUS
<1>1. /\ one \in SUBSET Nodes /\ NoNode \notin Nodes
      /\ \A l \in workflow.links : l.from \in Nodes /\ l.to \in Nodes
  BY EngineAssumption, GraphFacts DEF Links
<1>2. d \in Reach(K, one)
  BY DEF Reached
<1>3. /\ one \subseteq Q
      /\ \A l \in OldLinks(r) : l.from \in Q => l.to \in Q
  BY <1>1, OldLinksLead, ReachFacts
<1>4. d \notin Q /\ \A l \in LinksUpTo(d) : l.to = d => ~HasNew(r, l)
  BY DEF Due
<1>5. \A n \in Nodes : r.runData[n] # <<>> => n \in r.filter
  BY <1>1 DEF Served
<1>6. /\ \A n \in B : r.kept[n] = 0
      /\ \A n \in Nodes \ B : Len(r.runData[n]) = r.kept[n]
      /\ \A l \in Followed(r) : l.from \in B => l.to \in B
  BY DEF Insulated
<1>7. r.runData \in [Nodes -> Seq(Tasks)] /\ r.kept \in [Nodes -> Nat]
  BY DEF TypeOK, Records
<1> HIDE DEF Q
<1>8. one \subseteq S
  BY <1>1, <1>3, <1>4
<1>9. ASSUME NEW l \in K, l.from \in S PROVE l.to \in S
  <2>1. /\ l \in workflow.links /\ l.from \in Nodes /\ l.to \in Nodes /\ l.from # d
        /\ l \in LinksUpTo(d)
    BY <1>1 DEF LinksUpTo
  <2>2. PICK k \in DOMAIN r.runData[l.from] : l.output \in r.runData[l.from][k].outs
    BY DEF RunsWithItems
  <2>3. k \in Nat /\ k >= 1 /\ k <= Len(r.runData[l.from]) /\ r.runData[l.from] # <<>>
        /\ r.kept[l.from] \in Nat /\ Len(r.runData[l.from]) \in Nat
    BY <1>7, <2>1, <2>2
  <2>4. l.from \in r.filter
    BY <1>5, <2>1, <2>3
  <2>5. l.from \in Q \/ l.from \in B
    BY <1>9, <2>4
  <2>6. CASE k <= r.kept[l.from]
    <3>1. HasOld(r, l)
      BY <2>2, <2>6 DEF HasOld
    <3>2. l \in OldLinks(r)
      BY <2>1, <3>1 DEF OldLinks
    <3>3. l.from \notin B
      BY <1>6, <2>3, <2>6
    <3>4. l.to \in Q
      BY <1>3, <2>5, <3>2, <3>3
    <3> QED
      BY <1>4, <2>1, <3>4
  <2>7. CASE k > r.kept[l.from]
    <3>1. HasNew(r, l)
      BY <2>2, <2>7 DEF HasNew
    <3>2. l.to # d
      BY <1>4, <2>1, <3>1
    <3>3. l.from \in B
      BY <1>6, <2>1, <2>3, <2>7
    <3>4. l.to \in r.filter => l \in Followed(r)
      BY <2>1 DEF Followed
    <3> QED
      BY <1>6, <2>1, <3>2, <3>3, <3>4
  <2> QED
    BY <2>3, <2>6, <2>7
<1>10. Reach(K, one) \subseteq S
  <2>1. \A l \in K : l.to \in Nodes
    BY <1>1
  <2> HIDE DEF K, one, S
  <2>2. \A R : one \subseteq R /\ (\A l \in K : l.from \in R => l.to \in R) => Reach(K, one) \subseteq R
    BY <1>1, <2>1, ReachFacts
  <2> QED
    BY <1>8, <1>9, <2>2
<1> QED
  BY <1>2, <1>10

\* When nothing is left to do, the destination that is reached has run or waits for input.
LEMMA ServedIsEnough ==
    ASSUME workflow \in Workflows, TypeOK(run), ~run.marred => Served(run),
           NEW B \in SUBSET Nodes, Insulated(run, B)
    PROVE  DestinationIsReached
<1> DEFINE d == run.destination
<1> SUFFICES ASSUME run.stack = <<>>, ~run.marred, d \in Reached(run)
             PROVE  \/ Len(run.runData[d]) > run.kept[d] \/ d \in {x.node : x \in run.silent}
                    \/ d \in Range(run.order)
  BY DEF DestinationIsReached
<1>1. d \in Nodes /\ NoNode \notin Nodes
  <2>1. \A l \in workflow.links : l.to \in Nodes
    BY GraphFacts DEF Links
  <2> DEFINE K == {l \in workflow.links : /\ l.from # run.destination
                                         /\ RunsWithItems(run.runData, l.from, l.output) # {}}
             one == {Start}
  <2>2. \A l \in K : l.to \in Nodes
    BY <2>1
  <2>3. one \in SUBSET Nodes /\ NoNode \notin Nodes
    BY EngineAssumption
  <2>4. d \in Reach(K, one)
    BY DEF Reached
  <2> HIDE DEF K, one, d
  <2>5. Reach(K, one) \subseteq Nodes
    BY <2>2, <2>3, ReachFacts
  <2> QED
    BY <2>3, <2>4, <2>5
<1>2. Due(run) /\ (Due(run) => Arrived(run))
  BY <1>1, ReachedIsDue DEF Served
<1>3. ToCome(run) = Range(run.order)
  BY DEF ToCome
<1>4. ASSUME HasRun(run, d) PROVE Len(run.runData[d]) > run.kept[d]
  <2>1. run.runData \in [Nodes -> Seq(Tasks)] /\ run.kept \in [Nodes -> Nat]
    BY DEF TypeOK, Records
  <2>2. PICK k \in DOMAIN run.runData[d] : k > run.kept[d]
    BY <1>4 DEF HasRun
  <2>3. k \in Nat /\ k <= Len(run.runData[d]) /\ Len(run.runData[d]) \in Nat /\ run.kept[d] \in Nat
    BY <1>1, <2>1, <2>2
  <2> QED
    BY <2>2, <2>3
<1> QED
  BY <1>2, <1>3, <1>4 DEF Arrived

\* Adding a batch for a node makes the node come.
LEMMA AddKeeps ==
    ASSUME workflow \in Workflows, NEW r, TypeOK(r), NEW l \in workflow.links, NEW b \in AllBatches
    PROVE  LET q == AddNodeToBeExecuted(r, l, b)
           IN  Keeps(r, q) /\ l.to \in ToCome(q)
<1> DEFINE q == AddNodeToBeExecuted(r, l, b)
           n == l.to
           x == Item(n, NewData(r, l, b))
<1>1. /\ TypeOK(q) /\ q.stack = AddedStack(r, l, b) /\ q.waiting = AddedWaiting(r, l, b)
  BY AddFacts
<1>2. r.stack \in Seq(Items) /\ x \in Items /\ x.node = n /\ n \in Nodes
      /\ r.waiting \in [Nodes -> UNION {[D -> Data] : D \in SUBSET Nat}]
      /\ r.order \in Seq(Nodes)
  BY NewDataIs DEF TypeOK, Records, Item, Items, Waitings
<1>3. q.stack = IF Complete(r, l, b) THEN <<x>> \o r.stack ELSE r.stack
  BY <1>1 DEF AddedStack
<1>4. /\ \A m \in Nodes \ {n} : q.waiting[m] = r.waiting[m]
      /\ ~Complete(r, l, b) => DOMAIN q.waiting[n] # {}
  <2>1. \A m \in Nodes \ {n} : q.waiting[m] = r.waiting[m]
    BY <1>1, <1>2 DEF AddedWaiting
  <2>2. ASSUME ~Complete(r, l, b) PROVE DOMAIN q.waiting[n] # {}
    <3> DEFINE y == Put(r.waiting, n, Slot(r, l), NewData(r, l, b))
    <3>1. q.waiting = [r.waiting EXCEPT ![n] = y]
      BY <1>1, <2>2 DEF AddedWaiting
    <3>2. Slot(r, l) \in DOMAIN y
      BY DEF Put
    <3> HIDE DEF y
    <3> QED
      BY <1>2, <3>1, <3>2
  <2> QED
    BY <2>1, <2>2
<1> HIDE DEF q, x
<1>5. /\ \A m \in Nodes : m \in Range(r.order) <=> DOMAIN r.waiting[m] # {}
      /\ \A m \in Nodes : m \in Range(q.order) <=> DOMAIN q.waiting[m] # {}
      /\ Range(r.order) \subseteq Nodes
  BY <1>1, <1>2 DEF TypeOK, WaitingOK, Range
<1>6. Complete(r, l, b) =>
          /\ 1 \in DOMAIN q.stack /\ q.stack[1] = x
          /\ \A i \in DOMAIN r.stack : \E j \in DOMAIN q.stack : q.stack[j] = r.stack[i]
  <2> SUFFICES ASSUME Complete(r, l, b)
               PROVE  /\ 1 \in DOMAIN q.stack /\ q.stack[1] = x
                      /\ \A i \in DOMAIN r.stack : \E j \in DOMAIN q.stack : q.stack[j] = r.stack[i]
    OBVIOUS
  <2> DEFINE t == <<x>> \o r.stack
  <2>1. /\ 1 \in DOMAIN t /\ t[1] = x
        /\ \A i \in DOMAIN r.stack : i + 1 \in DOMAIN t /\ t[i + 1] = r.stack[i]
    BY <1>2
  <2>2. q.stack = t
    BY <1>3
  <2> HIDE DEF t
  <2> QED
    BY <2>1, <2>2
<1>7. n \in ToCome(q)
  <2>1. CASE Complete(r, l, b)
    BY <1>2, <1>6, <2>1 DEF ToCome
  <2>2. CASE ~Complete(r, l, b)
    BY <1>2, <1>4, <1>5, <2>2 DEF ToCome
  <2> QED
    BY <2>1, <2>2
<1>8. \A i \in DOMAIN r.stack : r.stack[i].node \in ToCome(q)
  <2>1. \A i \in DOMAIN r.stack : \E j \in DOMAIN q.stack : q.stack[j] = r.stack[i]
    BY <1>3, <1>6
  <2> QED
    BY <2>1 DEF ToCome
<1>9. \A m \in Range(r.order) : m \in ToCome(q)
  <2> SUFFICES ASSUME NEW m \in Range(r.order) PROVE m \in ToCome(q)
    OBVIOUS
  <2>1. m \in Nodes
    BY <1>5
  <2>2. CASE m = n
    BY <1>7, <2>2
  <2>3. CASE m # n
    <3>1. m \in Range(q.order)
      BY <1>4, <1>5, <2>1, <2>3
    <3> QED
      BY <3>1 DEF ToCome
  <2> QED
    BY <2>2, <2>3
<1>10. Keeps(r, q)
  BY <1>8, <1>9 DEF Keeps, ToCome
<1> QED
  BY <1>7, <1>10 DEF q

\* What a node hands on makes all come that its links lead to.
LEMMA HandOnKeeps ==
    ASSUME workflow \in Workflows, NEW r, TypeOK(r), NEW n \in Nodes, NEW index \in Nat, NEW outs
    PROVE  LET q == HandOn(r, n, index, NodesToAdd(n, outs))
           IN  /\ Keeps(r, q)
               /\ \A l \in workflow.links : l.from = n /\ l.output \in outs => l.to \in ToCome(q)
<1> DEFINE links == NodesToAdd(n, outs)
           len == Len(links)
           q == HandOn(r, n, index, links)
<1>1. /\ links \in Seq(workflow.links)
      /\ {links[i] : i \in 1..Len(links)} = {l \in workflow.links : l.from = n /\ l.output \in outs}
  BY NodesToAddFacts
<1> HIDE DEF links
<1>2. len \in Nat /\ DOMAIN links = 1..len
      /\ \A k \in 1..len : links[k] \in workflow.links /\ links[k].from = n
  BY <1>1
<1>3. PICK g : /\ g[0] = r /\ q = g[len]
               /\ \A k \in 1..len : g[k] = HandOnStep(g[k - 1], n, index, links[k])
  BY <1>2, HandOnSteps
<1> DEFINE To(k) == links[k].to
<1>4. \A l \in workflow.links : l.from = n /\ l.output \in outs => \E k \in 1..len : l.to = To(k)
  BY <1>1
<1> HIDE DEF len, q
<1> DEFINE T == {k \in Nat : k <= len => /\ TypeOK(g[k]) /\ Keeps(r, g[k])
                                         /\ \A j \in 1..k : To(j) \in ToCome(g[k])}
<1>5. 0 \in T
  BY <1>3 DEF Keeps
<1>6. ASSUME NEW k \in Nat, k \in T PROVE k + 1 \in T
  <2> SUFFICES ASSUME k + 1 <= len
               PROVE  /\ TypeOK(g[k + 1]) /\ Keeps(r, g[k + 1])
                      /\ \A j \in 1..(k + 1) : To(j) \in ToCome(g[k + 1])
    OBVIOUS
  <2>0. k + 1 \in 1..len /\ k + 1 - 1 = k /\ k <= len
    BY <1>2
  <2> DEFINE l == links[k + 1]
  <2>1. l \in workflow.links /\ l.from = n /\ g[k + 1] = HandOnStep(g[k], n, index, l) /\ l.to = To(k + 1)
    BY <1>2, <1>3, <2>0
  <2>2. TypeOK(g[k]) /\ Keeps(r, g[k]) /\ \A j \in 1..k : To(j) \in ToCome(g[k])
    BY <1>6, <2>0
  <2> HIDE DEF l, To
  <2>3. <<n, index, l.output>> \in AllBatches
    BY <2>1, GraphFacts DEF Links, AllBatches
  <2>4. g[k + 1] = AddNodeToBeExecuted(g[k], l, <<n, index, l.output>>)
    BY <2>1 DEF HandOnStep
  <2>5. TypeOK(g[k + 1]) /\ Keeps(g[k], g[k + 1]) /\ To(k + 1) \in ToCome(g[k + 1])
    BY <2>1, <2>2, <2>3, <2>4, AddFacts, AddKeeps
  <2>6. \A j \in 1..(k + 1) : j \in 1..k \/ j = k + 1
    OBVIOUS
  <2> QED
    BY <2>2, <2>5, <2>6 DEF Keeps
<1>7. len \in T
  <2>1. Nat \subseteq T
    <3> HIDE DEF T
    <3> QED BY <1>5, <1>6, Induct
  <2> QED
    BY <1>2, <2>1
<1>8. Keeps(r, q) /\ \A j \in 1..len : To(j) \in ToCome(q)
  BY <1>2, <1>3, <1>7
<1> HIDE DEF To
<1>9. \A l \in workflow.links : l.from = n /\ l.output \in outs => l.to \in ToCome(q)
  BY <1>4, <1>8
<1> QED
  BY <1>8, <1>9 DEF q, links

\* The waiting node that is run is on the stack then.
LEMMA RunWaitingKeeps ==
    ASSUME workflow \in Workflows, NEW r, TypeOK(r)
    PROVE  Keeps(r, RunWaiting(r))
<1>1. r \in Records
  BY DEF TypeOK
<1>2. CASE r.stack # <<>> \/ NoneReady(r)
  BY <1>1, <1>2, RunWaitingIs DEF Keeps
<1>3. CASE r.stack = <<>> /\ ~NoneReady(r)
  <2>1. PICK n \in Ready(r) : RunWaiting(r) = RunOf(r, n)
    BY <1>1, <1>3, RunWaitingIs
  <2> DEFINE q == RunOf(r, n)
             x == Item(n, Filled(r, n))
  <2>2. TypeOK(q) /\ q.stack = <<x>>
        /\ q.waiting = [r.waiting EXCEPT ![n] = Left(r.waiting, n, Min(DOMAIN r.waiting[n]))]
    BY RunOfFacts
  <2>3. x.node = n /\ r.order \in Seq(Nodes) /\ r.waiting \in [Nodes -> UNION {[D -> Data] : D \in SUBSET Nat}]
    BY <1>1 DEF Item, Records, Waitings
  <2> HIDE DEF q, x
  <2>4. n \in ToCome(q)
    BY <2>2, <2>3 DEF ToCome
  <2>5. ASSUME NEW m \in Range(r.order), m # n PROVE m \in Range(q.order)
    <3>1. m \in Nodes
      BY <2>3 DEF Range
    <3>2. q.waiting[m] = r.waiting[m]
      BY <2>2, <2>3, <2>5, <3>1
    <3> QED
      BY <2>2, <2>5, <3>1, <3>2 DEF TypeOK, WaitingOK
  <2>6. ToCome(r) = Range(r.order)
    BY <1>3 DEF ToCome
  <2> QED
    BY <2>1, <2>4, <2>5, <2>6 DEF Keeps, ToCome, q
<1> QED
  BY <1>2, <1>3

\* Without the top of the stack all but its node is still to come.
LEMMA TailKeeps ==
    ASSUME NEW r \in Records, r.stack # <<>>, NEW q, q.order = r.order, q.stack = Tail(r.stack)
    PROVE  ToCome(r) \ {Head(r.stack).node} \subseteq ToCome(q)
<1>1. r.stack \in Seq(Items)
  BY DEF Records
<1>2. \A i \in DOMAIN r.stack : i = 1 \/ (i - 1 \in DOMAIN q.stack /\ q.stack[i - 1] = r.stack[i])
  <2> DEFINE s == r.stack
             t == Tail(s)
  <2>1. s \in Seq(Items) /\ s # <<>>
    BY <1>1
  <2> HIDE DEF s
  <2>2. t \in Seq(Items) /\ Len(t) = Len(s) - 1 /\ \A j \in 1..Len(t) : t[j] = s[j + 1]
    BY <2>1
  <2>3. DOMAIN s = 1..Len(s) /\ DOMAIN t = 1..Len(t) /\ Len(s) \in Nat
    BY <2>1, <2>2
  <2>4. \A i \in DOMAIN s : i = 1 \/ (i - 1 \in DOMAIN t /\ t[i - 1] = s[i])
    <3> SUFFICES ASSUME NEW i \in DOMAIN s, i # 1 PROVE i - 1 \in DOMAIN t /\ t[i - 1] = s[i]
      OBVIOUS
    <3>1. i - 1 \in 1..Len(t) /\ (i - 1) + 1 = i
      BY <2>2, <2>3
    <3> HIDE DEF t
    <3> QED
      BY <2>2, <2>3, <3>1
  <2> QED
    BY <2>4 DEF s
<1>3. Head(r.stack) = r.stack[1]
  BY <1>1
<1>4. ASSUME NEW m \in ToCome(r), m # Head(r.stack).node PROVE m \in ToCome(q)
  <2>1. CASE m \in {r.stack[i].node : i \in DOMAIN r.stack}
    <3>1. PICK i \in DOMAIN r.stack : m = r.stack[i].node
      BY <2>1
    <3>2. i # 1
      BY <1>3, <1>4, <3>1
    <3>3. i - 1 \in DOMAIN q.stack /\ q.stack[i - 1].node = m
      BY <1>2, <3>1, <3>2
    <3> QED
      BY <3>3 DEF ToCome
  <2>2. CASE m \in Range(r.order)
    BY <2>2 DEF ToCome
  <2> QED
    BY <1>4, <2>1, <2>2 DEF ToCome
<1> QED
  BY <1>4

\* An execution that holds the same and has the same to do.
LEMMA ServedSame ==
    ASSUME NEW r, NEW q, SameCourse(r, q), q.runData = r.runData, q.silent = r.silent,
           ToCome(q) = ToCome(r), Served(r)
    PROVE  Served(q)
BY DEF SameCourse, Served, Due, Arrived, HasRun, HasNew, OldLinks, HasOld

\* One more run of a node of which nothing has been kept makes the destination due only when the
\* node hands items to it.
LEMMA OneMoreDue ==
    ASSUME NEW r, TypeOK(r), NEW n \in Nodes, r.kept[n] = 0, NEW task \in Tasks,
           NEW q, SameCourse(r, q), q.runData = OneMore(r.runData, n, task), workflow \in Workflows
    PROVE  /\ Due(q) => \/ Due(r)
                        \/ \E l \in LinksUpTo(r.destination) :
                              l.from = n /\ l.to = r.destination /\ l.output \in task.outs
           /\ \A m \in Nodes : HasRun(r, m) => HasRun(q, m)
           /\ task.status = "success" => HasRun(q, n)
           /\ \A m \in Nodes : q.runData[m] # <<>> => r.runData[m] # <<>> \/ m = n
<1>1. r.runData \in [Nodes -> Seq(Tasks)] /\ r.kept \in [Nodes -> Nat]
  BY DEF TypeOK, Records
<1>2. /\ \A m \in Nodes \ {n} : q.runData[m] = r.runData[m]
      /\ q.runData[n] = Append(r.runData[n], task)
  BY <1>1 DEF OneMore
<1> DEFINE old == r.runData[n]
           new == q.runData[n]
           len == Len(old)
<1>3. /\ len \in Nat /\ DOMAIN old = 1..len /\ DOMAIN new = 1..(len + 1)
      /\ new[len + 1] = task /\ \A k \in 1..len : new[k] = old[k]
  <2>1. old \in Seq(Tasks) /\ new = Append(old, task)
    BY <1>1, <1>2
  <2> HIDE DEF old, new
  <2> QED
    BY <2>1
<1> HIDE DEF len
<1>4. r.kept[n] = 0 /\ q.kept = r.kept /\ q.destination = r.destination
  BY DEF SameCourse
<1>5. ASSUME NEW l \in workflow.links PROVE HasOld(q, l) <=> HasOld(r, l)
  <2>1. l.from \in Nodes
    BY GraphFacts DEF Links
  <2>2. CASE l.from = n
    BY <1>3, <1>4, <2>2 DEF HasOld
  <2>3. CASE l.from # n
    BY <1>2, <1>4, <2>1, <2>3 DEF HasOld
  <2> QED
    BY <2>2, <2>3
<1>6. ASSUME NEW l \in workflow.links, HasNew(q, l)
      PROVE  HasNew(r, l) \/ (l.from = n /\ l.output \in task.outs)
  <2>1. l.from \in Nodes
    BY GraphFacts DEF Links
  <2>2. CASE l.from = n
    <3>1. PICK k \in DOMAIN new : l.output \in new[k].outs
      BY <1>6, <2>2 DEF HasNew
    <3>2. CASE k = len + 1
      BY <1>3, <2>2, <3>1, <3>2
    <3>3. CASE k # len + 1
      <4>1. k \in 1..len /\ k > 0
        BY <1>3, <3>1, <3>3
      <4>2. k \in DOMAIN old /\ k > r.kept[n] /\ l.output \in old[k].outs
        BY <1>3, <1>4, <3>1, <4>1
      <4>3. HasNew(r, l)
        BY <2>2, <4>2 DEF HasNew
      <4> QED
        BY <4>3
    <3> QED
      BY <3>2, <3>3
  <2>3. CASE l.from # n
    <3>1. q.runData[l.from] = r.runData[l.from]
      BY <1>2, <2>1, <2>3
    <3> QED
      BY <1>4, <1>6, <3>1 DEF HasNew
  <2> QED
    BY <2>2, <2>3
<1>7. OldLinks(q) = OldLinks(r)
  BY <1>4, <1>5 DEF OldLinks, LinksUpTo
<1>8. ASSUME Due(q)
      PROVE  \/ Due(r)
             \/ \E l \in LinksUpTo(r.destination) :
                   l.from = n /\ l.to = r.destination /\ l.output \in task.outs
  <2>1. CASE q.destination \in Reach(OldLinks(q), {Start})
    BY <1>4, <1>7, <2>1 DEF Due
  <2>2. CASE \E l \in LinksUpTo(q.destination) : l.to = q.destination /\ HasNew(q, l)
    <3>1. PICK l \in LinksUpTo(q.destination) : l.to = q.destination /\ HasNew(q, l)
      BY <2>2
    <3>2. l \in workflow.links
      BY DEF LinksUpTo
    <3> QED
      BY <1>4, <1>6, <3>1, <3>2 DEF Due
  <2> QED
    BY <1>8, <2>1, <2>2 DEF Due
<1>9. ASSUME NEW m \in Nodes, HasRun(r, m) PROVE HasRun(q, m)
  <2>1. CASE m = n
    BY <1>3, <1>4, <1>9, <2>1 DEF HasRun
  <2>2. CASE m # n
    BY <1>2, <1>4, <1>9, <2>2 DEF HasRun
  <2> QED
    BY <2>1, <2>2
<1>10. ASSUME task.status = "success" PROVE HasRun(q, n)
  BY <1>3, <1>4, <1>10 DEF HasRun
<1> QED
  BY <1>2, <1>8, <1>9, <1>10

\* A node that has had its turn: what it hands to the destination makes that come.
LEMMA RanServed ==
    ASSUME workflow \in Workflows, NEW r, TypeOK(r), Served(r),
           NEW n \in Nodes, n \in r.filter, r.kept[n] = 0, NEW task \in Tasks,
           NEW q, SameCourse(r, q), q.silent = r.silent, q.runData = OneMore(r.runData, n, task),
           ToCome(r) \ {n} \subseteq ToCome(q),
           n = r.destination => n \in ToCome(q) \/ task.status = "success",
           \A l \in workflow.links : l.from = n /\ l.output \in task.outs /\ n # r.destination =>
               l.to \in ToCome(q)
    PROVE  Served(q)
<1> SUFFICES ASSUME q.destination # NoNode
             PROVE  /\ q.destination \in q.filter
                    /\ \A m \in Nodes : q.runData[m] # <<>> => m \in q.filter
                    /\ Due(q) => Arrived(q)
  BY DEF Served
<1>1. /\ q.destination = r.destination /\ q.filter = r.filter /\ q.kept = r.kept
      /\ r.destination \in r.filter /\ (Due(r) => Arrived(r))
      /\ \A m \in Nodes : r.runData[m] # <<>> => m \in r.filter
  BY DEF SameCourse, Served
<1>2. r.destination \in Nodes
  BY <1>1 DEF TypeOK, Records
<1>3. /\ Due(q) => \/ Due(r)
                   \/ \E l \in LinksUpTo(r.destination) :
                         l.from = n /\ l.to = r.destination /\ l.output \in task.outs
      /\ \A m \in Nodes : HasRun(r, m) => HasRun(q, m)
      /\ task.status = "success" => HasRun(q, n)
      /\ \A m \in Nodes : q.runData[m] # <<>> => r.runData[m] # <<>> \/ m = n
  BY OneMoreDue
<1>4. Arrived(r) => Arrived(q)
  BY <1>1, <1>2, <1>3 DEF Arrived
<1>5. ASSUME NEW l \in LinksUpTo(r.destination), l.from = n, l.to = r.destination, l.output \in task.outs
      PROVE  Arrived(q)
  <2>1. l \in workflow.links /\ n # r.destination
    BY <1>5 DEF LinksUpTo
  <2>2. r.destination \in ToCome(q)
    BY <1>5, <2>1
  <2> QED
    BY <1>1, <2>2 DEF Arrived
<1> QED
  BY <1>1, <1>3, <1>4, <1>5

\* A run that has not succeeded is taken away.
LEMMA TakenServed ==
    ASSUME workflow \in Workflows, NEW r, TypeOK(r), Served(r), NEW n \in Nodes,
           r.runData[n] # <<>>, Last(r.runData[n]).status # "success",
           NEW q, SameCourse(r, q), q.silent = r.silent, q.runData = LastTaken(r.runData, n),
           ToCome(q) = ToCome(r)
    PROVE  Served(q)
<1>1. r.runData \in [Nodes -> Seq(Tasks)] /\ r.kept \in [Nodes -> Nat]
  BY DEF TypeOK, Records
<1>2. /\ \A m \in Nodes \ {n} : q.runData[m] = r.runData[m]
      /\ q.runData[n] = Front(r.runData[n])
  BY <1>1 DEF LastTaken
<1> DEFINE old == r.runData[n]
           new == q.runData[n]
           len == Len(old)
<1>3. /\ len \in Nat \ {0} /\ DOMAIN old = 1..len /\ DOMAIN new = 1..(len - 1)
      /\ \A k \in 1..(len - 1) : new[k] = old[k]
      /\ old[len].status # "success"
  <2>1. old \in Seq(Tasks) /\ old # <<>> /\ new = SubSeq(old, 1, Len(old) - 1)
    BY <1>1, <1>2 DEF Front
  <2>2. Last(old).status # "success" /\ Last(old) = old[Len(old)]
    BY DEF Last
  <2> HIDE DEF old, new
  <2>3. DOMAIN old = 1..Len(old) /\ Len(old) \in Nat \ {0}
    BY <2>1
  <2>4. DOMAIN new = 1..(Len(old) - 1) /\ \A k \in 1..(Len(old) - 1) : new[k] = old[k]
    BY <2>1, <2>3
  <2> QED
    BY <2>2, <2>3, <2>4
<1> HIDE DEF len
<1>4. q.kept = r.kept /\ q.destination = r.destination /\ q.filter = r.filter
  BY DEF SameCourse
<1>5. \A k \in DOMAIN new : k \in DOMAIN old /\ new[k] = old[k]
  BY <1>3
<1>6. ASSUME NEW m \in Nodes
      PROVE  \A k \in DOMAIN q.runData[m] : k \in DOMAIN r.runData[m] /\ q.runData[m][k] = r.runData[m][k]
  BY <1>2, <1>5
<1>7. ASSUME NEW l \in workflow.links
      PROVE  (HasOld(q, l) => HasOld(r, l)) /\ (HasNew(q, l) => HasNew(r, l))
  <2>1. l.from \in Nodes
    BY GraphFacts DEF Links
  <2> QED
    BY <1>4, <1>6, <2>1 DEF HasOld, HasNew
<1>8. Due(q) => Due(r)
  <2>1. OldLinks(q) \subseteq OldLinks(r)
    BY <1>4, <1>7 DEF OldLinks, LinksUpTo
  <2>2. \A l \in OldLinks(r) : l.to \in Nodes
    BY OldLinksLead
  <2>3. {Start} \in SUBSET Nodes
    BY EngineAssumption
  <2>4. Reach(OldLinks(q), {Start}) \subseteq Reach(OldLinks(r), {Start})
    <3> DEFINE K == OldLinks(q)
               L == OldLinks(r)
    <3>1. K \subseteq L /\ \A l \in L : l.to \in Nodes
      BY <2>1, <2>2
    <3> HIDE DEF K, L
    <3>2. Reach(K, {Start}) \subseteq Reach(L, {Start})
      BY <2>3, <3>1, ReachMore
    <3> QED
      BY <3>2 DEF K, L
  <2>5. ASSUME NEW l \in LinksUpTo(q.destination), l.to = q.destination, HasNew(q, l)
        PROVE  l \in LinksUpTo(r.destination) /\ l.to = r.destination /\ HasNew(r, l)
    BY <1>4, <1>7, <2>5 DEF LinksUpTo
  <2> QED
    BY <1>4, <2>4, <2>5 DEF Due
<1>9. ASSUME NEW m \in Nodes, HasRun(r, m) PROVE HasRun(q, m)
  <2>1. CASE m = n
    <3>1. PICK k \in DOMAIN old : k > r.kept[n] /\ old[k].status = "success"
      BY <1>9, <2>1 DEF HasRun
    <3>2. k \in DOMAIN new /\ new[k] = old[k]
      <4>1. k \in 1..len /\ k # len
        BY <1>3, <3>1
      <4> QED
        BY <1>3, <4>1
    <3> QED
      BY <1>4, <2>1, <3>1, <3>2 DEF HasRun
  <2>2. CASE m # n
    BY <1>2, <1>4, <1>9, <2>2 DEF HasRun
  <2> QED
    BY <2>1, <2>2
<1>10. \A m \in Nodes : q.runData[m] # <<>> => r.runData[m] # <<>>
  <2>1. ASSUME NEW m \in Nodes, m # n PROVE q.runData[m] = r.runData[m]
    BY <1>2, <2>1
  <2> QED
    BY <2>1
<1>11. r.destination # NoNode => r.destination \in Nodes
  BY DEF TypeOK, Records
<1> QED
  BY <1>4, <1>8, <1>9, <1>10, <1>11 DEF Served, Arrived

-----------------------------------------------------------------------------
(* What leads to the destination is served: one lemma for each action *)

\* What holds of the run and, when it is in step, of its row.
IsServed(r, w) == (~r.marred => Served(r)) /\ ServedRow(r, w)

\* The row follows when it is given the run's data, and stays otherwise.
LEMMA ProgressServed ==
    ASSUME StandInv(run, row), run.status = "running", ServedRow(run, row),
           NEW n \in Nodes, NEW task \in Tasks,
           NEW q, TypeOK(q), q.status = "running", q.marred = run.marred, SameCourse(run, q),
           q.runData = OneMore(run.runData, n, task),
           NEW p, SameCourse(run, p), p.status # "waiting" /\ ~run.marred => Served(q)
    PROVE  ServedRow(p, Progress(q, n, task))
<1> DEFINE w == Progress(q, n, task)
<1>1. TypeOK(row) /\ Agree(run, row)
  BY DEF StandInv
<1>2. CASE ~workflow.saveProgress
  <2>1. w = row /\ ~OutOfStep(run, row)
    BY <1>2 DEF Progress, OutOfStep
  <2> QED
    BY <2>1 DEF ServedRow
<1>3. CASE workflow.saveProgress
  <2>1. SavedShape(q, w, n, task)
    BY <1>1, <1>3, ProgressIs
  <2> HIDE DEF w
  <2> SUFFICES ASSUME ~w.marred, ~OutOfStep(p, w) PROVE Served(w)
    BY DEF ServedRow, w
  <2>2. p.status # "waiting" /\ ~run.marred /\ row.waitTill = w.waitTill /\ ~w.waitTill
        /\ row.destination = run.destination
    BY <1>3, <2>1 DEF SavedShape, OutOfStep, SameCourse
  <2>3. row.status = "running" /\ ~OutOfStep(run, row)
    BY <1>1, <2>2 DEF Agree, OutOfStep
  <2>4. row.runData = run.runData /\ row.kept = run.kept /\ row.filter = run.filter
    BY <1>1, <1>3, <2>3 DEF Agree
  <2>5. /\ SameCourse(q, w) /\ w.runData = q.runData /\ w.silent = q.silent /\ ToCome(w) = ToCome(q)
    BY <2>1, <2>2, <2>4 DEF SavedShape, SameCourse, ToCome
  <2>6. Served(q)
    BY <2>2
  <2> QED
    BY <2>5, <2>6, ServedSame
<1> QED
  BY <1>2, <1>3

LEMMA NodeSucceedsServed ==
    ASSUME workflow \in Workflows, StandInv(run, row), NEW outs, NodeSucceeds(outs),
           NEW B \in SUBSET Nodes, Insulated(run, B), IsServed(run, row)
    PROVE  IsServed(run', row')
<1> DEFINE added == Added(run, outs)
           ran == Passed(run, outs)
           task == Task("success", Top.data, outs)
           q == Saved(added)
           p == RunWaiting(added)
           n == Top.node
           index == Len(run.runData[n])
<1>1. Turn /\ outs \in Outcomes(Top) /\ n # run.destination
      /\ run' = p /\ row' = Progress(q, n, task)
  BY SuccessIs
<1>2. /\ TypeOK(run) /\ run \in Records /\ run.stack # <<>> /\ n \in Nodes /\ index \in Nat
      /\ task \in Tasks /\ run.status = "running" /\ n \in run.filter /\ n = Head(run.stack).node
  BY <1>1, TurnFacts DEF Turn, Top
<1>3. /\ TypeOK(ran) /\ RanShape(run, ran, n, task) /\ ran.stack = Tail(run.stack)
      /\ TypeOK(added) /\ Rest(ran, added)
  BY <1>1, AddedFacts
<1>4. added = HandOn(ran, n, index, NodesToAdd(n, outs))
  BY DEF Added, Top
<1>5. n \in B /\ run.kept[n] = 0
  BY <1>1, TurnInsulated DEF Insulated
<1>6. task.outs = outs
  BY DEF Task
<1> HIDE DEF ran, added, n, index, task
<1>7. /\ added.runData = OneMore(run.runData, n, task) /\ SameCourse(run, added)
      /\ added.silent = run.silent /\ added.status = "running" /\ added.marred = run.marred
  BY <1>2, <1>3 DEF RanShape, Rest, SameCourse
<1>8. ToCome(run) \ {n} \subseteq ToCome(added)
      /\ \A l \in workflow.links : l.from = n /\ l.output \in outs => l.to \in ToCome(added)
  <2>1. ToCome(run) \ {n} \subseteq ToCome(ran)
    BY <1>2, <1>3, TailKeeps DEF RanShape
  <2>2. /\ Keeps(ran, added)
        /\ \A l \in workflow.links : l.from = n /\ l.output \in outs => l.to \in ToCome(added)
    BY <1>2, <1>3, <1>4, HandOnKeeps
  <2> QED
    BY <2>1, <2>2 DEF Keeps
<1>9. /\ TypeOK(q) /\ SameCourse(added, q) /\ q.runData = added.runData /\ q.silent = added.silent
      /\ q.status = added.status /\ q.marred = added.marred /\ ToCome(q) = ToCome(added)
  BY <1>3, SavedFacts DEF SameCourse, ToCome
<1>10. /\ Rest(added, p) /\ Keeps(added, p)
  BY <1>3, RunWaitingFacts, RunWaitingKeeps
<1> HIDE DEF p, q
<1>11. /\ SameCourse(run, p) /\ p.runData = OneMore(run.runData, n, task) /\ p.silent = run.silent
       /\ p.marred = run.marred
       /\ SameCourse(run, q) /\ q.runData = OneMore(run.runData, n, task) /\ q.silent = run.silent
       /\ q.marred = run.marred /\ q.status = "running"
  BY <1>7, <1>9, <1>10 DEF SameCourse, Rest
<1>12. ASSUME ~run.marred PROVE Served(p) /\ Served(q)
  <2>1. Served(run)
    BY <1>12 DEF IsServed
  <2>2. /\ ToCome(run) \ {n} \subseteq ToCome(p)
        /\ \A l \in workflow.links : l.from = n /\ l.output \in task.outs => l.to \in ToCome(p)
        /\ ToCome(run) \ {n} \subseteq ToCome(q)
        /\ \A l \in workflow.links : l.from = n /\ l.output \in task.outs => l.to \in ToCome(q)
    BY <1>6, <1>8, <1>9, <1>10 DEF Keeps
  <2>3. Served(p)
    BY <1>1, <1>2, <1>5, <1>11, <2>1, <2>2, RanServed
  <2>4. Served(q)
    BY <1>1, <1>2, <1>5, <1>11, <2>1, <2>2, RanServed
  <2> QED
    BY <2>3, <2>4
<1>13. ServedRow(p, Progress(q, n, task))
  BY <1>2, <1>9, <1>11, <1>12, ProgressServed DEF IsServed
<1> QED
  BY <1>1, <1>11, <1>12, <1>13 DEF IsServed

LEMMA DestinationSucceedsServed ==
    ASSUME workflow \in Workflows, StandInv(run, row), NEW outs, DestinationSucceeds(outs),
           NEW B \in SUBSET Nodes, Insulated(run, B), IsServed(run, row)
    PROVE  IsServed(run', row')
<1> DEFINE q == Ended(run, outs)
           task == Task("success", Top.data, outs)
           n == Top.node
<1>1. Turn /\ outs \in Outcomes(Top) /\ run' = q /\ row' = Progress(q, n, task)
      /\ n = run.destination
  BY DEF DestinationSucceeds, Ended, RanOn, Top
<1>2. /\ TypeOK(run) /\ n \in Nodes /\ task \in Tasks /\ run.stack # <<>> /\ run \in Records
      /\ Tail(run.stack) \in Seq(Items) /\ run.status = "running" /\ n \in run.filter
      /\ n = Head(run.stack).node
  BY <1>1, TurnFacts DEF Turn, Top
<1>3. TypeOK(q) /\ RanShape(run, q, n, task) /\ q.stack = Tail(run.stack)
  BY ZenonT(30), <1>2, RanFacts DEF Ended, Top
<1>4. n \in B /\ run.kept[n] = 0
  BY <1>1, TurnInsulated DEF Insulated
<1>5. task.status = "success"
  BY DEF Task
<1> HIDE DEF q, n, task
<1>6. /\ SameCourse(run, q) /\ q.runData = OneMore(run.runData, n, task) /\ q.silent = run.silent
      /\ q.marred = run.marred /\ q.status = "running" /\ ToCome(run) \ {n} \subseteq ToCome(q)
  <2>1. ToCome(run) \ {n} \subseteq ToCome(q)
    BY <1>2, <1>3, TailKeeps DEF RanShape
  <2> QED
    BY <1>2, <1>3, <2>1 DEF RanShape, SameCourse
<1>7. ASSUME ~run.marred PROVE Served(q)
  <2>1. Served(run)
    BY <1>7 DEF IsServed
  <2> QED
    BY <1>1, <1>2, <1>4, <1>5, <1>6, <2>1, RanServed
<1>8. ServedRow(q, Progress(q, n, task))
  BY <1>2, <1>3, <1>6, <1>7, ProgressServed DEF IsServed
<1> QED
  BY <1>1, <1>6, <1>7, <1>8 DEF IsServed

LEMMA NodeFailsServed ==
    ASSUME workflow \in Workflows, StandInv(run, row), NodeFails,
           NEW B \in SUBSET Nodes, Insulated(run, B), IsServed(run, row)
    PROVE  IsServed(run', row')
<1> DEFINE q == Tried(run, "error")
           p == Failed(run)
           task == Task("error", Top.data, {})
           n == Top.node
<1>1. Turn
  BY DEF NodeFails
<1>2. /\ TypeOK(run) /\ run.status = "running" /\ n \in Nodes /\ task \in Tasks
      /\ run \in Records /\ run.stack # <<>> /\ n \in run.filter /\ n = Head(run.stack).node
  BY <1>1, TurnFacts DEF Turn, Top
<1>3. /\ TypeOK(q) /\ RanShape(run, q, n, task) /\ q.stack = run.stack
      /\ Ran(run, n, task) = q
  BY <1>1, TriedFacts
<1>4. /\ p.stack = q.stack /\ p.order = q.order /\ p.runData = q.runData /\ p.silent = q.silent
      /\ p.destination = q.destination /\ p.filter = q.filter /\ p.kept = q.kept /\ p.marred = q.marred
      /\ q.status = "running" => [p EXCEPT !.status = "running"] = q
  BY <1>3, FailedFacts DEF Failed
<1>5. run' = p /\ row' = Progress(q, n, task)
  BY <1>2, <1>3, <1>4 DEF NodeFails, Failed, RanShape
<1>6. n \in B /\ run.kept[n] = 0
  BY <1>1, TurnInsulated DEF Insulated
<1>7. task.outs = {}
  BY DEF Task
<1> HIDE DEF q, p, n, task
<1>8. /\ SameCourse(run, q) /\ q.runData = OneMore(run.runData, n, task) /\ q.silent = run.silent
      /\ q.marred = run.marred /\ q.status = "running" /\ ToCome(q) = ToCome(run)
  BY <1>2, <1>3 DEF RanShape, SameCourse, ToCome
<1>9. /\ SameCourse(q, p) /\ p.runData = q.runData /\ p.silent = q.silent /\ ToCome(p) = ToCome(q)
      /\ SameCourse(run, p) /\ p.marred = run.marred
  BY <1>4, <1>8 DEF SameCourse, ToCome
<1>10. n = run.destination => n \in ToCome(q)
  <2>1. n = run.stack[1].node /\ 1 \in DOMAIN run.stack
    BY <1>2, TopFacts
  <2> QED
    BY <1>8, <2>1 DEF ToCome
<1>11. ASSUME ~run.marred PROVE Served(q) /\ Served(p)
  <2>1. Served(run)
    BY <1>11 DEF IsServed
  <2>2. Served(q)
    BY <1>2, <1>6, <1>7, <1>8, <1>10, <2>1, RanServed
  <2>3. Served(p)
    BY <1>9, <2>2, ServedSame
  <2> QED
    BY <2>2, <2>3
<1>12. ServedRow(p, Progress(q, n, task))
  BY <1>2, <1>3, <1>8, <1>9, <1>11, ProgressServed DEF IsServed
<1> QED
  BY <1>5, <1>9, <1>11, <1>12 DEF IsServed

LEMMA NodeWaitsServed ==
    ASSUME workflow \in Workflows, StandInv(run, row), NodeWaits,
           NEW B \in SUBSET Nodes, Insulated(run, B), IsServed(run, row)
    PROVE  IsServed(run', row')
<1> DEFINE t == Tried(run, "waiting")
           task == Task("waiting", Top.data, {})
           n == Top.node
           xs == Waiter(run)
           p == Pause(t, xs)
           q == PauseSave(t, xs, Tail(run.stack))
<1>1. Turn
  BY DEF NodeWaits
<1>2. /\ TypeOK(run) /\ run.status = "running" /\ n \in Nodes /\ task \in Tasks /\ run.stack # <<>>
      /\ run \in Records /\ Tail(run.stack) \in Seq(Items) /\ xs \in SUBSET (Nodes \X Data)
      /\ run.stack \in Seq(Items)
      /\ n \in run.filter /\ n = Head(run.stack).node
  BY <1>1, TurnFacts, WaiterFacts DEF Turn, Top
<1>3. /\ run' = p /\ row' = Progress(q, n, task)
      /\ TypeOK(t) /\ RanShape(run, t, n, task) /\ t.stack = run.stack
  BY WaitIs
<1>4. n \in B /\ run.kept[n] = 0
  BY <1>1, TurnInsulated DEF Insulated
<1>5. task.outs = {}
  BY DEF Task
<1> HIDE DEF t, n, task, xs
<1>6. PausedShape(t, p, xs) /\ TypeOK(q)
  BY <1>2, <1>3, PausedFacts
<1>7. /\ q.runData = t.runData /\ SameCourse(t, q) /\ q.status = t.status /\ q.marred = t.marred
  BY <1>3 DEF PauseSave, TypeOK, Records, SameCourse
<1> HIDE DEF p, q
<1>8. /\ SameCourse(run, p) /\ p.runData = OneMore(run.runData, n, task) /\ p.silent = run.silent
      /\ p.marred = run.marred /\ ToCome(p) = ToCome(run) /\ p.status = "waiting"
      /\ SameCourse(run, q) /\ q.runData = OneMore(run.runData, n, task)
      /\ q.status = "running" /\ q.marred = run.marred
  BY <1>2, <1>3, <1>6, <1>7 DEF PausedShape, RanShape, SameCourse, ToCome
<1>9. n = run.destination => n \in ToCome(p)
  <2>1. n = run.stack[1].node /\ 1 \in DOMAIN run.stack
    BY <1>2, TopFacts
  <2> QED
    BY <1>8, <2>1 DEF ToCome
<1>10. ASSUME ~run.marred PROVE Served(p)
  <2>1. Served(run)
    BY <1>10 DEF IsServed
  <2> QED
    BY <1>2, <1>4, <1>5, <1>8, <1>9, <2>1, RanServed
<1>11. ServedRow(p, Progress(q, n, task))
  BY <1>2, <1>6, <1>8, ProgressServed DEF IsServed
<1> QED
  BY <1>3, <1>8, <1>10, <1>11 DEF IsServed

\* The row of a run that goes on as it was stays as good as it was.
LEMMA RowStaysServed ==
    ASSUME NEW w, ServedRow(run, w), run.status = "running",
           NEW p, p.destination = run.destination, p.status = "running"
    PROVE  ServedRow(p, w)
BY DEF ServedRow, OutOfStep

LEMMA PassOverServed ==
    ASSUME workflow \in Workflows, StandInv(run, row), PassOver, IsServed(run, row)
    PROVE  IsServed(run', row')
<1> DEFINE q == Dropped(run)
           n == Top.node
<1>1. /\ run.stack # <<>> /\ run' = q /\ row' = row /\ TypeOK(run) /\ run \in Records
      /\ run.status = "running" /\ n \notin run.filter /\ n = Head(run.stack).node
  BY DEF PassOver, Dropped, StandInv, TypeOK, Top
<1>2. /\ q.stack = Tail(run.stack) /\ q.order = run.order /\ q.runData = run.runData
      /\ q.silent = run.silent /\ q.destination = run.destination /\ q.filter = run.filter
      /\ q.kept = run.kept /\ q.status = run.status /\ q.marred = run.marred
  BY <1>1, DroppedFacts
<1> HIDE DEF q, n
<1>3. ToCome(run) \ {n} \subseteq ToCome(q)
  BY <1>1, <1>2, TailKeeps
<1>4. ASSUME ~run.marred PROVE Served(q)
  <2>1. Served(run)
    BY <1>4 DEF IsServed
  <2>2. (run.destination # NoNode => run.destination # n) /\ (Due(q) <=> Due(run))
    BY <1>1, <1>2, <2>1 DEF Served, Due, OldLinks, HasOld, HasNew
  <2>3. run.destination # NoNode => (Arrived(run) => Arrived(q))
    BY <1>2, <1>3, <2>2 DEF Arrived, HasRun
  <2> QED
    BY <1>2, <2>1, <2>2, <2>3 DEF Served
<1>5. ServedRow(q, row)
  BY <1>1, <1>2, RowStaysServed DEF IsServed
<1> QED
  BY <1>1, <1>2, <1>4, <1>5 DEF IsServed

LEMMA NodeReturnsNothingServed ==
    ASSUME workflow \in Workflows, StandInv(run, row), NodeReturnsNothing, IsServed(run, row)
    PROVE  IsServed(run', row')
<1>1. PICK last \in {run.last, Top.node} : run' = Silenced(run, last)
  BY DEF NodeReturnsNothing, Silenced, Top
<1>2. /\ Turn /\ run.stack # <<>> /\ row' = row /\ TypeOK(run) /\ run \in Records
      /\ run.status = "running"
  BY DEF NodeReturnsNothing, Turn, StandInv, TypeOK
<1> DEFINE q == Silenced(run, last)
           n == Head(run.stack).node
<1>3. IsSilenced(run, q)
  BY DEF Top, IsSilenced
<1> HIDE DEF q
<1>4. TopGoesSilent(run, q)
  BY <1>2, <1>3, SilencedFacts
<1>5. ToCome(run) \ {n} \subseteq ToCome(q)
  BY <1>2, <1>4, TailKeeps DEF TopGoesSilent
<1>6. q.silent = run.silent \cup {Head(run.stack)} /\ SameCourse(run, q)
      /\ q.runData = run.runData /\ q.status = run.status /\ q.marred = run.marred
  BY <1>4 DEF TopGoesSilent, SameCourse
<1>7. ASSUME ~run.marred PROVE Served(q)
  <2>1. Served(run)
    BY <1>7 DEF IsServed
  <2>2. Due(q) <=> Due(run)
    BY <1>6 DEF SameCourse, Due, OldLinks, HasOld, HasNew
  <2>3. Arrived(run) => Arrived(q)
    <3>1. \A d : d \in ToCome(run) => d \in ToCome(q) \/ d = n
      BY <1>5
    <3>2. {x.node : x \in run.silent} \subseteq {x.node : x \in q.silent} /\ n \in {x.node : x \in q.silent}
      BY <1>6
    <3>3. \A d : HasRun(run, d) => HasRun(q, d)
      BY <1>6 DEF SameCourse, HasRun
    <3>4. q.destination = run.destination
      BY <1>6 DEF SameCourse
    <3> HIDE DEF n
    <3> QED
      BY <3>1, <3>2, <3>3, <3>4 DEF Arrived
  <2> QED
    BY <1>6, <2>1, <2>2, <2>3 DEF SameCourse, Served
<1>8. ServedRow(q, row)
  BY <1>2, <1>6, RowStaysServed DEF IsServed, SameCourse
<1> QED
  BY <1>1, <1>2, <1>6, <1>7, <1>8 DEF IsServed, q

\* Only how an execution stands changes.
LEMMA SameIsServed ==
    ASSUME NEW r, NEW q, SameBut(r, q), Served(r)
    PROVE  Served(q)
<1>1. SameCourse(r, q) /\ q.runData = r.runData /\ q.silent = r.silent /\ ToCome(q) = ToCome(r)
  BY DEF SameBut, SameCourse, ToCome
<1> QED
  BY <1>1, ServedSame

LEMMA FinishServed ==
    ASSUME workflow \in Workflows, StandInv(run, row), Finish, IsServed(run, row)
    PROVE  IsServed(run', row')
<1>1. SameBut(run, run') /\ SameBut(run, row') /\ run'.marred = run.marred /\ row'.marred = run.marred
  BY FinishStand
<1>2. ASSUME ~run.marred PROVE Served(run') /\ Served(row')
  BY <1>1, <1>2, SameIsServed DEF IsServed
<1> QED
  BY <1>1, <1>2 DEF IsServed, ServedRow

LEMMA CrashServed ==
    ASSUME workflow \in Workflows, StandInv(run, row), Crash, IsServed(run, row)
    PROVE  IsServed(run', row')
<1>1. SameBut(run, run') /\ SameBut(row, row') /\ run'.marred = run.marred
      /\ row'.marred = (row.marred \/ OutOfStep(run, row))
  BY CrashStand
<1>2. ASSUME ~run.marred PROVE Served(run')
  BY <1>1, <1>2, SameIsServed DEF IsServed
<1>3. ASSUME ~row.marred, ~OutOfStep(run, row) PROVE Served(row')
  BY <1>1, <1>3, SameIsServed DEF IsServed, ServedRow
<1> QED
  BY <1>1, <1>2, <1>3 DEF IsServed, ServedRow

\* The engine begins again (Restart): of a wait the last run is taken away, and its node is on top.
LEMMA RestartedServed ==
    ASSUME workflow \in Workflows, NEW r, TypeOK(r), r.waitTill => r.stack # <<>>,
           WaitIsOnTop(r), Served(r)
    PROVE  Served(Restarted(r))
<1> DEFINE q == Restarted(r)
<1>1. RestartShape(r, q)
  BY RestartFacts
<1> HIDE DEF q
<1>2. SameCourse(r, q) /\ q.silent = r.silent
  BY <1>1 DEF RestartShape, SameCourse
<1>3. ToCome(q) = ToCome(r)
  BY RestartedToCome DEF q
<1>4. CASE ~r.waitTill
  <2>1. q.runData = r.runData
    BY <1>1, <1>4 DEF RestartShape
  <2> QED
    BY <1>2, <1>3, <2>1, ServedSame DEF q
<1>5. CASE r.waitTill
  <2>1. /\ r.last \in Nodes /\ r.runData[r.last] # <<>>
        /\ Last(r.runData[r.last]).status # "success"
    BY <1>5 DEF WaitIsOnTop
  <2>2. q.runData = LastTaken(r.runData, r.last)
    BY <1>1, <1>5 DEF RestartShape
  <2> QED
    BY <1>2, <1>3, <2>1, <2>2, TakenServed DEF q
<1> QED
  BY <1>4, <1>5

LEMMA ResumeServed ==
    ASSUME workflow \in Workflows, StandInv(run, row), ResumeByTimer \/ ResumeByWebhook,
           IsServed(run, row)
    PROVE  IsServed(run', row')
<1>1. run' = Restarted(row) /\ (SameBut(row, row') \/ row' = run') /\ TypeOK(row)
      /\ (row.waitTill => row.stack # <<>>) /\ row.status # "running" /\ row'.marred = row.marred
  BY ResumeStand DEF StandInv
<1>2. ~OutOfStep(run, row) /\ run'.marred = row.marred
  BY <1>1, RestartFacts DEF OutOfStep, RestartShape
<1>3. ASSUME ~row.marred PROVE Served(run') /\ Served(row')
  <2>1. Served(row) /\ WaitIsOnTop(row)
    BY <1>2, <1>3 DEF IsServed, ServedRow, StandInv
  <2>2. Served(run')
    BY <1>1, <2>1, RestartedServed
  <2> QED
    BY <1>1, <2>1, <2>2, SameIsServed
<1> QED
  BY <1>1, <1>2, <1>3 DEF IsServed, ServedRow

LEMMA RetryServed ==
    ASSUME workflow \in Workflows, StandInv(run, row), Retry, IsServed(run, row)
    PROVE  IsServed(run', row')
<1> DEFINE data == Retried(row)
<1>1. /\ run' = Restarted(data) /\ row' = data /\ TypeOK(row) /\ TypeOK(data)
      /\ RetriedShape(row, data) /\ (data.waitTill => data.stack # <<>>)
      /\ row.status # "running" /\ (~data.marred => WaitIsOnTop(data))
  BY RetryStand DEF StandInv
<1> HIDE DEF data
<1>2. run'.marred = row.marred /\ row'.marred = row.marred /\ ~OutOfStep(run, row)
  BY <1>1, RestartFacts DEF RestartShape, RetriedShape, OutOfStep
<1>3. ASSUME ~row.marred PROVE Served(run') /\ Served(row')
  <2>1. Served(row)
    BY <1>2, <1>3 DEF IsServed, ServedRow
  <2>2. SameCourse(row, data) /\ data.silent = row.silent /\ ToCome(data) = ToCome(row)
    BY <1>1 DEF RetriedShape, SameCourse, ToCome
  <2>3. Served(data)
    <3>1. CASE EndsInError(row)
      <4>1. /\ row.last \in Nodes /\ row.runData[row.last] # <<>>
            /\ Last(row.runData[row.last]).status # "success"
        BY <1>1, <3>1 DEF EndsInError, TypeOK, Records
      <4>2. data.runData = LastTaken(row.runData, row.last)
        BY <1>1, <3>1 DEF RetriedShape
      <4> QED
        BY <1>1, <2>1, <2>2, <4>1, <4>2, TakenServed
    <3>2. CASE ~EndsInError(row)
      <4>1. data.runData = row.runData
        BY <1>1, <3>2 DEF RetriedShape
      <4> QED
        BY <2>1, <2>2, <4>1, ServedSame
    <3> QED
      BY <3>1, <3>2
  <2>4. ~data.marred
    BY <1>1, <1>3 DEF RetriedShape
  <2>5. Served(run')
    BY <1>1, <2>3, <2>4, RestartedServed
  <2> QED
    BY <1>1, <2>3, <2>5
<1> QED
  BY <1>2, <1>3 DEF IsServed, ServedRow

\* When items that have been kept lead to the destination, it is to come.
LEMMA BegunServed ==
    ASSUME workflow \in Workflows, NEW d \in Nodes, d \in Reach(workflow.links, {Start}),
           NEW starts \in SUBSET Subgraph(d).nodes,
           NEW data, CleanedFor(d, data, starts), Chosen(d, data, starts),
           NEW repeats \in Nat, NEW rank \in Orders
    PROVE  Served(Prepared(d, data, repeats, rank, starts))
<1> DEFINE p == Prepared(d, data, repeats, rank, starts)
           r == New0(d, data, repeats)
<1>1. BeginsWith(p, d, data, starts)
  BY BegunFacts
<1>2. TypeOK(r) /\ r.runData = data
  BY New0Holds
<1>3. data \in [Nodes -> Seq(Tasks)] /\ \A n \in Nodes : n \notin Subgraph(d).nodes => data[n] = <<>>
  BY DEF CleanedFor
<1>4. starts \in SUBSET Nodes
  BY SubgraphFacts
<1>5. d \in Subgraph(d).nodes
  BY DestinationInGraph
<1>6. d \in starts /\ (StartLinks(Subgraph(d), d) = {} \/ \E l \in StartLinks(Subgraph(d), d) : HasBatch(data, l))
          => d \in ToCome(p)
  <2> HIDE DEF p, r
  <2>1. p = RecreateStack(r, Subgraph(d), rank, starts)
    BY DEF p, r, Prepared
  <2> SUFFICES ASSUME d \in starts,
                      StartLinks(Subgraph(d), d) = {} \/ \E l \in StartLinks(Subgraph(d), d) : HasBatch(data, l)
               PROVE  d \in ToCome(p)
    OBVIOUS
  <2>2. LET links == StartLinks(Subgraph(d), d)
        IN  links = {} \/ \E l \in links : HasBatch(r.runData, l)
    BY <1>2
  <2>3. d \in ToCome(RecreateStack(r, Subgraph(d), rank, starts))
    BY <1>2, <1>4, <2>2, RecreateKeeps
  <2> QED
    BY <2>1, <2>3
<1> HIDE DEF p, r
<1>7. /\ p.runData = data /\ p.kept = [n \in Nodes |-> Len(data[n])]
      /\ p.destination = d /\ p.filter = Subgraph(d).nodes
  BY <1>1 DEF BeginsWith
<1>8. \A l \in workflow.links : l.from \in Nodes /\ l.to \in Nodes
  BY GraphFacts DEF Links
<1>9. ASSUME NEW l \in LinksUpTo(d) PROVE ~HasNew(p, l) /\ (HasOld(p, l) => HasBatch(data, l))
  <2>1. l.from \in Nodes
    BY <1>8 DEF LinksUpTo
  <2>2. p.kept[l.from] = Len(data[l.from]) /\ data[l.from] \in Seq(Tasks)
    BY <1>3, <1>7, <2>1
  <2>3. \A k \in DOMAIN data[l.from] : ~(k > p.kept[l.from])
    BY <2>2
  <2>4. ~HasNew(p, l)
    BY <1>7, <2>3 DEF HasNew
  <2>5. HasOld(p, l) => HasBatch(data, l)
    BY <1>7 DEF HasOld, HasBatch, RunsWithItems
  <2> QED
    BY <2>4, <2>5
<1>10. ASSUME Due(p) PROVE d \in ToCome(p)
  <2> DEFINE K == OldLinks(p)
             L == WithItems(d, data)
             one == {Start}
  <2>1. d \in Reach(K, one)
    BY <1>7, <1>9, <1>10 DEF Due
  <2>2. K \subseteq L
    BY <1>7, <1>9 DEF OldLinks, WithItems
  <2>3. \A l \in L : l.to \in Nodes
    BY <1>8 DEF WithItems, LinksUpTo
  <2>4. one \in SUBSET Nodes
    BY EngineAssumption
  <2> HIDE DEF K, L, one
  <2>5. d \in Reach(L, one)
    BY <2>1, <2>2, <2>3, <2>4, ReachMore
  <2>6. PICK known : Covers(d, known, starts) /\ CleanedFrom(d, known, data, starts)
    BY DEF Chosen
  <2>7. /\ d \in starts
        /\ StartLinks(Subgraph(d), d) # {} => \E l \in StartLinks(Subgraph(d), d) : HasBatch(data, l)
    BY <2>5, <2>6, KeptToDestination DEF L, one
  <2> QED
    BY <1>6, <2>7
<1>11. Served(p)
  BY <1>3, <1>5, <1>7, <1>10 DEF Served, Arrived
<1> QED
  BY <1>11 DEF p

LEMMA ExecuteNodeServed ==
    ASSUME workflow \in Workflows, StandInv(run, row), NEW d \in workflow.destinations,
           NEW edited, NEW rank \in Orders, ExecuteNode(d, edited, rank)
    PROVE  IsServed(run', row')
<1>1. /\ d \in Nodes /\ d \in Reach(workflow.links, {Start})
      /\ row' = [Blank EXCEPT !.repeats = row.repeats + 1]
  BY ExecuteNodeIs DEF StandInv
<1>2. PICK starts \in SUBSET Subgraph(d).nodes, data \in [Nodes -> Seq(Tasks)] :
          /\ CleanedFor(d, data, starts) /\ Chosen(d, data, starts)
          /\ run' = Prepared(d, data, row.repeats + 1, rank, starts)
  BY ExecuteNodeIs DEF StandInv
<1>3. row.repeats + 1 \in Nat
  <2>1. row \in Records
    BY DEF StandInv, TypeOK
  <2> QED
    BY <2>1 DEF Records
<1>4. Served(run')
  BY <1>1, <1>2, <1>3, BegunServed
<1>5. row'.destination = NoNode
  BY <1>1, <1>3, NewRowIs
<1> QED
  BY <1>4, <1>5 DEF IsServed, ServedRow, Served

\* When an execution begins, the destination is due only if it is the trigger.
LEMMA ServedInit ==
    ASSUME Init
    PROVE  IsServed(run, row)
<1> DEFINE item == Item(Start, [i \in {0} |-> Given])
           stack == <<item>>
           started == [Blank EXCEPT !.stack = stack]
<1>1. /\ Blank \in Records /\ Blank.destination = NoNode
      /\ Blank.runData = [n \in Nodes |-> <<>>]
  BY BlankIs DEF TypeOK, Blank
<1>2. workflow \in Workflows
  BY DEF Init
<1>3. 1 \in DOMAIN stack /\ stack[1].node = Start
  BY DEF Item
<1>4. \/ run = [started EXCEPT !.stored = TRUE] /\ row = run
      \/ \E d \in workflow.destinations :
            run = [started EXCEPT !.destination = d, !.filter = Ancestors(d) \cup {d}] /\ row = Blank
  BY DEF Init
<1> HIDE DEF stack
<1>5. DOMAIN started = DOMAIN Blank /\ started.stack = stack /\ started.destination = NoNode
      /\ started.runData = Blank.runData
      /\ {"destination", "filter", "runData", "stored", "stack"} \subseteq DOMAIN started
  BY <1>1 DEF Records
<1> HIDE DEF started
<1>6. CASE run = [started EXCEPT !.stored = TRUE] /\ row = run
  <2>1. run.destination = NoNode /\ row.destination = NoNode
    BY <1>5, <1>6
  <2> QED
    BY <2>1 DEF IsServed, ServedRow, Served
<1>7. ASSUME NEW d \in workflow.destinations,
             run = [started EXCEPT !.destination = d, !.filter = Ancestors(d) \cup {d}], row = Blank
      PROVE  IsServed(run, row)
  <2>1. run.destination = d /\ run.filter = Ancestors(d) \cup {d} /\ run.stack = stack
        /\ run.runData = [n \in Nodes |-> <<>>]
    BY <1>1, <1>5, <1>7
  <2>2. \A l \in workflow.links : l.from \in Nodes
    BY <1>2, GraphFacts DEF Links
  <2>3. \A n \in Nodes : run.runData[n] = <<>> /\ DOMAIN run.runData[n] = {}
    BY <2>1
  <2>4. \A l \in LinksUpTo(d) : ~HasOld(run, l) /\ ~HasNew(run, l)
    BY <2>2, <2>3 DEF HasOld, HasNew, LinksUpTo
  <2>5. OldLinks(run) = {}
    BY <2>1, <2>4 DEF OldLinks
  <2>6. ASSUME Due(run) PROVE d = Start
    <3> DEFINE one == {Start}
               K == OldLinks(run)
    <3>1. d \in Reach(K, one)
      BY <2>1, <2>4, <2>6 DEF Due
    <3>2. K = {} /\ one \in SUBSET Nodes
      BY <2>5, EngineAssumption
    <3> HIDE DEF one, K
    <3>3. \A S : one \subseteq S /\ (\A l \in K : l.from \in S => l.to \in S) => Reach(K, one) \subseteq S
      BY <3>2, ReachFacts
    <3>4. Reach(K, one) \subseteq one
      BY <3>2, <3>3
    <3> QED
      BY <3>1, <3>4 DEF one
  <2>7. Start \in ToCome(run)
    BY <1>3, <2>1 DEF ToCome
  <2>8. Served(run)
    BY <2>1, <2>3, <2>6, <2>7 DEF Served, Arrived
  <2> QED
    BY <1>1, <1>7, <2>8 DEF IsServed, ServedRow, Served
<1> QED
  BY <1>4, <1>6, <1>7

\* The workflow does not change, so that what is said of the next state is said in it.
LEMMA ServedTransfers ==
    ASSUME workflow' = workflow, IsServed(run', row')
    PROVE  IsServed(run, row)'
BY DEF IsServed, ServedRow, OutOfStep, Served, Due, Arrived, HasRun, HasNew, HasOld, OldLinks,
       LinksUpTo, ToCome, Reach

LEMMA ServedNext ==
    ASSUME Standing, Insulation, IsServed(run, row), [RepeatNext]_vars
    PROVE  IsServed(run, row)'
<1>0. workflow \in Workflows /\ StandInv(run, row)
  BY DEF Standing
<1>1. PICK B \in SUBSET Nodes : Insulated(run, B)
  BY DEF Insulation
<1>2. CASE UNCHANGED vars
  BY <1>2, ServedTransfers DEF vars
<1>3. CASE Next
  <2>1. workflow' = workflow
    BY <1>3 DEF Next, NodeSucceeds, DestinationSucceeds, Turn, PassOver, NodeReturnsNothing,
                NodeFails, NodeWaits, Finish, Crash, ResumeByTimer, ResumeByWebhook, Retry
  <2>2. IsServed(run', row')
    BY <1>0, <1>1, <1>3, NodeSucceedsServed, DestinationSucceedsServed, PassOverServed,
       NodeReturnsNothingServed, NodeFailsServed, NodeWaitsServed, FinishServed, CrashServed,
       ResumeServed, RetryServed DEF Next
  <2> QED
    BY <2>1, <2>2, ServedTransfers
<1>4. ASSUME NEW d \in workflow.destinations, NEW edited, NEW rank \in Orders, ExecuteNode(d, edited, rank)
      PROVE  IsServed(run, row)'
  BY <1>0, <1>4, ExecuteNodeServed, ServedTransfers DEF ExecuteNode
<1> QED
  BY <1>2, <1>3, <1>4 DEF RepeatNext

\* When the engine has nothing more to do, the destination has run, or waits for input, or the
\* items did not get there: what runPartialWorkflow2 takes for start nodes (findStartNodes,
\* handleCycles), keeps (cleanRunData) and puts on the stack and among the waiting entries
\* (recreateNodeExecutionStack) leads the loop of processRunExecutionData to the chosen node,
\* through waits, failures, crashes, retries and partial executions upon it.
THEOREM DestinationIsReachedAlways == RepeatSpec => []DestinationIsReached
<1>1. Init => Standing /\ Insulation /\ IsServed(run, row)
  BY StandingInit, InsulationInit, ServedInit
<1>2. Standing /\ Insulation /\ IsServed(run, row) /\ [RepeatNext]_vars
          => (Standing /\ Insulation /\ IsServed(run, row))'
  BY StandingRepeat, InsulationNext, ServedNext
<1>3. Standing /\ Insulation /\ IsServed(run, row) => DestinationIsReached
  <2> SUFFICES ASSUME Standing, Insulation, IsServed(run, row) PROVE DestinationIsReached
    OBVIOUS
  <2>1. workflow \in Workflows /\ TypeOK(run) /\ (~run.marred => Served(run))
    BY DEF Standing, StandInv, IsServed
  <2>2. PICK B \in SUBSET Nodes : Insulated(run, B)
    BY DEF Insulation
  <2> QED
    BY <2>1, <2>2, ServedIsEnough
<1> QED
  BY <1>1, <1>2, <1>3, PTL DEF RepeatSpec

=============================================================================
