------------------------ MODULE MCAddDependencyRace ------------------------
(* Instances of AddDependencyRace for TLC. *)
EXTENDS AddDependencyRace, TLC

PermutedTasks == Permutations(Tasks)
=============================================================================
