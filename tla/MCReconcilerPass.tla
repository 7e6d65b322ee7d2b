-------------------------- MODULE MCReconcilerPass --------------------------
(* Instances of ReconcilerPass for TLC. *)
EXTENDS ReconcilerPass

CONSTANTS t1, t2, r1

(* t1 is created on behalf of t2. *)
OneFamily == [t \in Tasks |-> IF t = t1 THEN t2 ELSE None]

(* t1 may come to depend on t2. *)
OneEdge == {<<t1, t2>>}

(* r1 may be required of t1. *)
OneRequirement == {<<t1, r1>>}
=============================================================================
