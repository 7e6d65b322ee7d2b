-------------------------- MODULE AddDependencyRace --------------------------
(***************************************************************************)
(* Store.AddDependency statement by statement, several transactions at a   *)
(* time.  A transaction locks its task's row, then the row of the task     *)
(* depended on, asks whether the new edge would close a cycle, inserts the *)
(* edge and commits.  Transactions run at READ COMMITTED: the cycle query  *)
(* reads the edges committed when it starts, an inserted edge is seen by   *)
(* others from the commit on, and only the two task rows are locked.       *)
(***************************************************************************)
EXTENDS DependencyGraph, FiniteSets

CONSTANTS
  Callers,       \* connections that may be inside AddDependency at once
  NoCaller       \* "no caller holds the row"

ASSUME CallersAssumption == NoCaller \notin Callers

VARIABLES
  deps,       \* task_dependencies, committed
  rowHolder,  \* caller holding FOR UPDATE on each task's row
  statement,  \* the statement each caller executes next
  edge        \* <<command.TaskID, command.DependsOnID>> of each caller

edgeVars == <<deps, rowHolder, statement, edge>>

Statements == {"idle", "lockTask", "lockDependency", "checkCycle", "insert"}

EdgeInit ==
  /\ deps = [t \in Tasks |-> {}]
  /\ rowHolder = [t \in Tasks |-> NoCaller]
  /\ statement = [x \in Callers |-> "idle"]
  /\ \E t \in Tasks : edge = [x \in Callers |-> <<t, t>>]

Task(x) == edge[x][1]
DependsOn(x) == edge[x][2]

(* The service refuses a task that depends on itself before it begins. *)
Begin(x) ==
  /\ statement[x] = "idle"
  /\ \E t, d \in Tasks : t # d /\ edge' = [edge EXCEPT ![x] = <<t, d>>]
  /\ statement' = [statement EXCEPT ![x] = "lockTask"]
  /\ UNCHANGED <<deps, rowHolder>>

lockTask(x, t, next) ==
  /\ rowHolder[t] = NoCaller
  /\ rowHolder' = [rowHolder EXCEPT ![t] = x]
  /\ statement' = [statement EXCEPT ![x] = next]
  /\ UNCHANGED <<deps, edge>>

LockTask(x) == statement[x] = "lockTask" /\ lockTask(x, Task(x), "lockDependency")

(* Mutant: the task depended on is read without a lock. *)
ReadDependency(x) ==
  /\ statement[x] = "lockDependency"
  /\ statement' = [statement EXCEPT ![x] = "checkCycle"]
  /\ UNCHANGED <<deps, rowHolder, edge>>

LockDependency(x) == statement[x] = "lockDependency" /\ lockTask(x, DependsOn(x), "checkCycle")

(* Mutant: the transaction is left open and keeps its rows. *)
LeaveCallOpen(x) ==
  /\ statement' = [statement EXCEPT ![x] = "idle"]
  /\ UNCHANGED <<rowHolder, edge>>

(* The end of a transaction, by commit or by rollback, frees its rows. *)
EndCall(x) ==
  /\ rowHolder' = [t \in Tasks |-> IF rowHolder[t] = x THEN NoCaller ELSE rowHolder[t]]
  /\ statement' = [statement EXCEPT ![x] = "idle"]
  /\ UNCHANGED edge

(* The first row, once locked, is missing or in a status that admits no    *)
(* new dependency; or the second one is missing or of another organization. *)
(* A call that waits for a row is not refused.                             *)
Refuse(x) ==
  /\ \/ statement[x] = "lockTask" /\ rowHolder[Task(x)] = NoCaller
     \/ statement[x] = "checkCycle"
  /\ EndCall(x)
  /\ UNCHANGED deps

CheckCycle(x) ==
  /\ statement[x] = "checkCycle"
  /\ IF WouldCycle(deps, Task(x), DependsOn(x))
       THEN EndCall(x) /\ UNCHANGED deps
       ELSE statement' = [statement EXCEPT ![x] = "insert"] /\ UNCHANGED <<deps, rowHolder, edge>>

(* INSERT ... ON CONFLICT DO NOTHING, the task's own update, COMMIT. *)
InsertAndCommit(x) ==
  /\ statement[x] = "insert"
  /\ deps' = AddEdge(deps, Task(x), DependsOn(x))
  /\ EndCall(x)

(* The row a transaction asks for is held by another one. *)
CallWaitsFor == [x \in Callers |->
  CASE statement[x] = "lockTask" -> {rowHolder[Task(x)]} \ {NoCaller}
    [] statement[x] = "lockDependency" -> {rowHolder[DependsOn(x)]} \ {NoCaller}
    [] OTHER -> {}]

CallWaits == INSTANCE DependencyGraph WITH Tasks <- Callers

(* PostgreSQL aborts a transaction that is part of a cycle of waits. *)
AbortCall(x) ==
  /\ x \in CallWaits!Reachable(CallWaitsFor, x)
  /\ EndCall(x)
  /\ UNCHANGED deps

(* What a call does on its way to a commit, or to the abort of a deadlock. *)
Proceed(x) == LockTask(x) \/ LockDependency(x) \/ CheckCycle(x) \/ InsertAndCommit(x) \/ AbortCall(x)

AddDependency(x) == Proceed(x) \/ Refuse(x)

EdgeNext == \E x \in Callers : Begin(x) \/ AddDependency(x)

(* A transaction that can go on does: each statement is a call already     *)
(* sent to the database, and a waiter gets the row in its turn.  Nothing   *)
(* is assumed of refusals: no call may count on one to come to its end.    *)
EdgeSpec == EdgeInit /\ [][EdgeNext]_edgeVars /\ \A x \in Callers : SF_edgeVars(Proceed(x))

-----------------------------------------------------------------------------
(* Every variable has its shape and a row is held by a transaction that    *)
(* asked for it.                                                           *)
EdgeTypeOK ==
  /\ deps \in [Tasks -> SUBSET Tasks]
  /\ rowHolder \in [Tasks -> Callers \cup {NoCaller}]
  /\ statement \in [Callers -> Statements]
  /\ edge \in [Callers -> Tasks \X Tasks]
  /\ \A t \in Tasks, x \in Callers :
       rowHolder[t] = x => t \in {Task(x), DependsOn(x)} /\ statement[x] \notin {"idle", "lockTask"}

(* The committed graph is acyclic, whatever AddDependency calls overlap.   *)
CommittedAcyclic == Acyclic(deps)

(* Two edges that share a task are decided one after the other: no two     *)
(* transactions are between check and commit with a task in common.        *)
OverlappingEdgesSerialised ==
  \A x, y \in Callers :
    x # y /\ statement[x] \in {"checkCycle", "insert"} /\ statement[y] \in {"checkCycle", "insert"}
      => {Task(x), DependsOn(x)} \cap {Task(y), DependsOn(y)} = {}

(* Every call returns.  Two calls may lock their rows in opposite orders   *)
(* (an edge and its reverse, or a ring of edges); what ends such a cycle   *)
(* of waits is the database's abort and nothing in the store.              *)
EveryCallReturns == \A x \in Callers : statement[x] # "idle" ~> statement[x] = "idle"
=============================================================================
