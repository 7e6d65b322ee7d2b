--------------------------- MODULE DependencyGraph ---------------------------
(***************************************************************************)
(* The task dependency graph: deps[t] is the set of tasks t depends on.    *)
(* The recursive SQL query of AddDependency computes the least set that    *)
(* contains the dependencies of a task and is closed under dependency;     *)
(* Reachable states exactly that, as an intersection, without recursion.   *)
(***************************************************************************)
CONSTANT Tasks

ClosedUnder(deps, S) == \A x \in S : deps[x] \subseteq S

Reachable(deps, from) ==
  {y \in Tasks : \A S \in SUBSET Tasks : deps[from] \subseteq S /\ ClosedUnder(deps, S) => y \in S}

(* Mutant: only a dependency in the opposite direction is refused. *)
WouldCycleDirectly(deps, task, dependsOn) == task \in deps[dependsOn]

WouldCycle(deps, task, dependsOn) == task \in Reachable(deps, dependsOn)

AddEdge(deps, task, dependsOn) == [deps EXCEPT ![task] = @ \cup {dependsOn}]

Acyclic(deps) == \A t \in Tasks : t \notin Reachable(deps, t)
=============================================================================
