------------------------ MODULE DependencyGraphProofs ------------------------
(***************************************************************************)
(* Reachability in the dependency graph, and the two steps that keep it    *)
(* acyclic: an edge whose insertion the cycle query allows, and the edges  *)
(* a task is created with.                                                 *)
(***************************************************************************)
EXTENDS DependencyGraph, TLAPS

Graphs == [Tasks -> SUBSET Tasks]

(* The set AddDependency's query computes is closed under dependency and   *)
(* holds the direct dependencies.                                          *)
LEMMA ReachableIsClosed ==
  ASSUME NEW g \in Graphs, NEW x \in Tasks
  PROVE  /\ Reachable(g, x) \subseteq Tasks
         /\ g[x] \subseteq Reachable(g, x)
         /\ ClosedUnder(g, Reachable(g, x))
BY DEF Graphs, Reachable, ClosedUnder

(* It is the least such set. *)
LEMMA ReachableIsLeast ==
  ASSUME NEW g \in Graphs, NEW x \in Tasks, NEW S \in SUBSET Tasks,
         g[x] \subseteq S, ClosedUnder(g, S)
  PROVE  Reachable(g, x) \subseteq S
BY DEF Reachable

(* What is reachable from a reachable task is reachable. *)
LEMMA ReachableIsTransitive ==
  ASSUME NEW g \in Graphs, NEW x \in Tasks, NEW y \in Reachable(g, x)
  PROVE  Reachable(g, y) \subseteq Reachable(g, x)
<1>1. y \in Tasks /\ g[y] \subseteq Reachable(g, x)
  BY ReachableIsClosed DEF ClosedUnder
<1>2. QED
  BY <1>1, ReachableIsClosed, ReachableIsLeast

(* The check of AddDependency is sufficient: an edge between two different *)
(* tasks that the cycle query lets through closes no cycle.                *)
THEOREM AddEdgeKeepsAcyclic ==
  ASSUME NEW g \in Graphs, Acyclic(g),
         NEW t \in Tasks, NEW d \in Tasks, t # d, ~WouldCycle(g, t, d)
  PROVE  Acyclic(AddEdge(g, t, d))
<1> DEFINE new == AddEdge(g, t, d)
<1>1. new \in Graphs
  BY DEF Graphs, AddEdge
<1>2. t \notin Reachable(g, d)
  BY DEF WouldCycle
<1>3. SUFFICES ASSUME NEW x \in Tasks
               PROVE  x \notin Reachable(new, x)
  BY DEF Acyclic
<1>4. x \notin Reachable(g, x)
  BY DEF Acyclic
<1>5. CASE t \notin Reachable(g, x) \cup {x}
  <2>1. new[x] \subseteq Reachable(g, x) /\ ClosedUnder(new, Reachable(g, x))
    BY <1>5, ReachableIsClosed DEF Graphs, AddEdge, ClosedUnder
  <2>2. Reachable(new, x) \subseteq Reachable(g, x)
    BY <1>1, <2>1, ReachableIsClosed, ReachableIsLeast
  <2> QED
    BY <1>4, <2>2
<1>6. CASE t \in Reachable(g, x) \cup {x}
  <2> DEFINE S == Reachable(g, x) \cup {d} \cup Reachable(g, d)
  <2>1. S \in SUBSET Tasks
    BY ReachableIsClosed
  <2>2. \A y \in Tasks : y # t => new[y] = g[y]
    BY DEF Graphs, AddEdge
  <2>3. new[t] = g[t] \cup {d}
    BY DEF Graphs, AddEdge
  <2>4. g[t] \subseteq Reachable(g, x)
    BY <1>6, ReachableIsClosed DEF ClosedUnder
  <2>5. new[x] \subseteq S
    BY <2>2, <2>3, <2>4, ReachableIsClosed
  <2>6. ClosedUnder(new, S)
    <3> SUFFICES ASSUME NEW y \in S PROVE new[y] \subseteq S
      BY DEF ClosedUnder
    <3>1. CASE y = t
      BY <3>1, <2>3, <2>4
    <3>2. CASE y # t
      <4>1. y \in Tasks /\ new[y] = g[y]
        BY <2>1, <2>2, <3>2
      <4>2. g[y] \subseteq Reachable(g, x) \cup Reachable(g, d)
        BY ReachableIsClosed DEF ClosedUnder
      <4> QED
        BY <4>1, <4>2
    <3> QED
      BY <3>1, <3>2
  <2>7. x \notin S
    <3>1. x # d
      BY <1>2, <1>6
    <3>2. x \notin Reachable(g, d)
      BY <1>2, <1>6, ReachableIsTransitive
    <3> QED
      BY <1>4, <3>1, <3>2
  <2> HIDE DEF S, new
  <2> QED
    BY <1>1, <2>1, <2>5, <2>6, <2>7, ReachableIsLeast
<1> QED
  BY <1>5, <1>6

(* createInTx needs no cycle query: a new task on which nothing depends    *)
(* may start with any dependencies but itself.                             *)
THEOREM NewTaskKeepsAcyclic ==
  ASSUME NEW g \in Graphs, Acyclic(g),
         NEW t \in Tasks, NEW D \in SUBSET Tasks, t \notin D, \A x \in Tasks : t \notin g[x]
  PROVE  Acyclic([g EXCEPT ![t] = D])
<1> DEFINE new == [g EXCEPT ![t] = D]
           Others == Tasks \ {t}
<1>1. new \in Graphs /\ new[t] = D /\ \A x \in Others : new[x] = g[x]
  BY DEF Graphs
<1>2. SUFFICES ASSUME NEW x \in Tasks
               PROVE  x \notin Reachable(new, x)
  BY Zenon DEF Acyclic
<1>3. CASE x = t
  <2>1. new[x] \subseteq Others /\ ClosedUnder(new, Others)
    BY <1>1, <1>3 DEF ClosedUnder, Graphs
  <2> HIDE DEF new
  <2> QED
    BY <1>1, <1>3, <2>1, ReachableIsLeast
<1>4. CASE x # t
  <2>1. ClosedUnder(g, Others) /\ g[x] \subseteq Others
    BY DEF ClosedUnder, Graphs
  <2>2. t \notin Reachable(g, x)
    BY <2>1, ReachableIsLeast
  <2>3. new[x] \subseteq Reachable(g, x) /\ ClosedUnder(new, Reachable(g, x))
    BY <1>1, <1>4, <2>2, ReachableIsClosed DEF ClosedUnder
  <2>4. x \notin Reachable(g, x)
    BY DEF Acyclic
  <2> HIDE DEF new
  <2> QED
    BY <1>1, <2>3, <2>4, ReachableIsClosed, ReachableIsLeast
<1> QED
  BY <1>3, <1>4
=============================================================================
