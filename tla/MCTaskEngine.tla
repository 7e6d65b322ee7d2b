---------------------------- MODULE MCTaskEngine ----------------------------
(* Small instances of TaskEngine for TLC. *)
EXTENDS TaskEngine, TLC

CONSTANTS t1, t2, t3

NoParents == [t \in Tasks |-> None]

AllEdges == {<<x, y>> \in Tasks \X Tasks : x # y}

PermutedTasks == Permutations(Tasks)
=============================================================================
