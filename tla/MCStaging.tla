----------------------------- MODULE MCStaging -----------------------------
(***************************************************************************)
(* Staging with one attempt and its workspace, one promotion, an author    *)
(* and one other role, one commit pushed by someone else, and two callers, *)
(* one of which builds workspaces while both apply promotions.             *)
(***************************************************************************)
EXTENDS Staging

CONSTANTS t1, author

MCTaskOf == [w \in Workspaces |-> t1]
MCAssignee == [t \in {t1} |-> author]
MCCommits == {Root} \cup Workspaces \cup Foreign
=============================================================================
