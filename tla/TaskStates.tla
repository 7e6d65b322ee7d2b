----------------------------- MODULE TaskStates -----------------------------
(***************************************************************************)
(* The task vocabulary shared by every module about the task engine:       *)
(* statuses, the table of legal transitions, and the status classes the    *)
(* guards of the engine ask about.                                         *)
(***************************************************************************)
EXTENDS Naturals

(* "absent" stands for a row that has not been inserted yet. *)
Terminal == {"completed", "no_action", "failed", "dead_letter", "rejected", "cancelled"}
NonTerminal == {"pending", "ready", "leased", "running", "awaiting_verification", "blocked", "retry_wait"}
Status == {"absent"} \cup NonTerminal \cup Terminal

allowedTransitions ==
  [pending               |-> {"ready", "blocked", "rejected", "cancelled"},
   ready                 |-> {"leased", "blocked", "rejected", "cancelled"},
   leased                |-> {"running", "retry_wait", "blocked", "dead_letter", "cancelled"},
   running               |-> {"awaiting_verification", "retry_wait", "blocked", "failed", "dead_letter", "cancelled"},
   awaiting_verification |-> {"completed", "no_action", "failed", "blocked", "rejected", "cancelled"},
   blocked               |-> {"pending", "ready", "rejected", "cancelled"},
   retry_wait            |-> {"ready", "blocked", "dead_letter", "cancelled"}]

CanTransition(from, to) == from \in NonTerminal /\ from # to /\ to \in allowedTransitions[from]

(* A dependency in one of these has ended without completing. *)
EndedUncompleted == Terminal \ {"completed"}

(* An ancestor in one of these withdraws the scope of its descendants. *)
BlocksDescendantClaim == {"blocked", "cancelled", "rejected", "failed", "dead_letter"}

(* Reason codes of the blocked status.  "operator" stands for every code   *)
(* no guard of the engine looks for.                                       *)
NoReason == "none"
CoordinationHold == "awaiting_child_coordination"
Reconcilable == {"dependency_unsatisfied", "dependency_terminal", "assignee_unavailable", "capacity"}
BlockedReason == Reconcilable \cup {CoordinationHold, "operator"}
Reason == BlockedReason \cup {NoReason}

AttemptState == {"none", "leased", "running", "finished", "failed", "lease_expired", "cancelled"}
LeaseStatus == {"none", "active", "released", "expired", "revoked"}
RequirementStatus == {"none", "pending", "satisfied", "failed"}
=============================================================================
