-------------------------- MODULE MCClaimAncestors --------------------------
(* ClaimAncestors for TLC: two claims of one task and one of two. *)
EXTENDS ClaimAncestors

CONSTANTS grandparent, parent, child, batch

ThreeLevels == [t \in Tasks |-> CASE t = child -> parent [] t = parent -> grandparent [] OTHER -> None]

Ids == [t \in Tasks |-> CASE t = grandparent -> 1 [] t = parent -> 2 [] OTHER -> 3]

BusyParents ==
  [t \in Tasks |-> CASE t = child -> {"ready"} [] t = parent -> {"ready", "running", "blocked"} [] OTHER -> {"ready", "blocked"}]

Batches == [x \in Claims |-> IF x = batch THEN 2 ELSE 1]
=============================================================================
