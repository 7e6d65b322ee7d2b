---------------------------- MODULE StagingStore ----------------------------
(***************************************************************************)
(* The rows behind staging: workspaces, promotions, their reviews, and the *)
(* requirements of the task they are gates of.  Each operator is one       *)
(* transaction of internal/staging/postgres, or a transaction of the task  *)
(* engine that changes the same rows; a transaction that fails changes     *)
(* nothing.  One repository and one target ref; an attempt of a task is    *)
(* named by the workspace it may have, since the key of a workspace is     *)
(* made of task and attempt and is unique.                                 *)
(***************************************************************************)
EXTENDS Naturals

CONSTANTS
  Workspaces,  \* workspaces, and the attempts they belong to
  Promotions,
  Tasks,
  TaskOf,      \* task of an attempt
  Roles,
  Assignee,    \* role a task is assigned to: the author of its candidates
  Owners,      \* roles of the authority class owner
  Commits,     \* commits a workspace may be based on
  Outside,     \* gates that may be resolved through the task engine itself
  None

ASSUME TaskOfAssumption == TaskOf \in [Workspaces -> Tasks]
ASSUME RolesAssumption == Assignee \in [Tasks -> Roles] /\ Owners \subseteq Roles
ASSUME OutsideAssumption == Outside \subseteq {"artifact", "check", "approval"}
ASSUME NoneAssumption == None \notin Workspaces

VARIABLES
  workspace,    \* staging_workspaces
  promotion,    \* staging_promotions
  review,       \* staging_reviews, one approval requirement per task
  requirement,  \* task_requirements, one required per gate
  task          \* tasks and task_attempts

storeVars == <<workspace, promotion, review, requirement, task>>

Gates == {"artifact", "check", "approval"}
Outcomes == {"satisfied", "failed"}
Live == {"awaiting_gates", "approved"}

WorkspaceStatus ==
  {"absent", "provisioning", "active", "sealed", "abandoned", "cleanup_pending", "cleaned", "failed"}
PromotionStatus ==
  {"absent", "awaiting_gates", "approved", "applied", "rejected", "conflicted", "cancelled"}

(* A task that waits (pending, ready, for its retry, or blocked) is ready. *)
TaskStatus == {"ready", "running", "awaiting_verification", "ended"}

NoWorkspace == [status |-> "absent", version |-> 0, base |-> None]
NoPromotion == [status |-> "absent", of |-> None]

StoreTypeOK ==
  /\ workspace \in [Workspaces -> [status: WorkspaceStatus, version: Nat, base: Commits \cup {None}]]
  /\ promotion \in [Promotions -> [status: PromotionStatus, of: Workspaces \cup {None}]]
  /\ review \in [Promotions -> [Roles -> {"none", "approve", "reject"}]]
  /\ requirement \in [Tasks -> [Gates -> {"pending"} \cup Outcomes]]
  /\ task \in [Tasks -> [status: TaskStatus, attempt: Workspaces \cup {None}, tried: SUBSET Workspaces]]

StoreInit ==
  /\ workspace = [w \in Workspaces |-> NoWorkspace]
  /\ promotion = [p \in Promotions |-> NoPromotion]
  /\ review = [p \in Promotions |-> [r \in Roles |-> "none"]]
  /\ requirement = [t \in Tasks |-> [g \in Gates |-> "pending"]]
  /\ task = [t \in Tasks |-> [status |-> "ready", attempt |-> None, tried |-> {}]]

-----------------------------------------------------------------------------
(* Workspaces *)

WorkspaceTransition ==
  [s \in WorkspaceStatus |->
     CASE s = "provisioning" -> {"active", "failed"}
       [] s = "active" -> {"sealed", "abandoned", "failed"}
       [] s \in {"sealed", "abandoned", "failed"} -> {"cleanup_pending"}
       [] s = "cleanup_pending" -> {"cleaned", "failed"}
       [] OTHER -> {}]

(* Set the status of a workspace; every update of the row counts. *)
MoveWorkspace(w, to) ==
  /\ to \in WorkspaceTransition[workspace[w].status]
  /\ workspace' = [workspace EXCEPT ![w].status = to, ![w].version = @ + 1]

(* The attempt runs under an unexpired lease of its task. *)
LeaseActive(w) ==
  LET t == TaskOf[w] IN task[t].status = "running" /\ task[t].attempt = w

(* The row is inserted, and updated once with its ref. *)
CreateProvisioning(w, base) ==
  /\ LeaseActive(w)
  /\ requirement[TaskOf[w]]["artifact"] = "pending"
  /\ workspace[w].status = "absent"
  /\ workspace' = [workspace EXCEPT ![w] = [status |-> "provisioning", version |-> 2, base |-> base]]
  /\ UNCHANGED <<promotion, review, requirement, task>>

ActivateWorkspace(w, version) ==
  /\ workspace[w].status = "provisioning" /\ workspace[w].version = version
  /\ MoveWorkspace(w, "active")
  /\ UNCHANGED <<promotion, review, requirement, task>>

FailWorkspace(w) ==
  /\ MoveWorkspace(w, "failed")
  /\ UNCHANGED <<promotion, review, requirement, task>>

(* A gate that is pending is resolved, once. *)
recordTaskRequirement(t, gate, outcome) ==
  /\ requirement[t][gate] = "pending"
  /\ requirement' = [requirement EXCEPT ![t][gate] = outcome]

SealWorkspace(w, version) ==
  /\ workspace[w].status = "active" /\ workspace[w].version = version
  /\ MoveWorkspace(w, "sealed")
  /\ recordTaskRequirement(TaskOf[w], "artifact", "satisfied")
  /\ UNCHANGED <<promotion, review, task>>

AbandonWorkspace(w) ==
  /\ MoveWorkspace(w, "abandoned")
  /\ UNCHANGED <<promotion, review, requirement, task>>

(* Mutant: the promotions of the workspace are not looked at. *)
CleanupUnderPromotion(w) ==
  /\ MoveWorkspace(w, "cleanup_pending")
  /\ UNCHANGED <<promotion, review, requirement, task>>

BeginCleanup(w) ==
  /\ \/ /\ workspace[w].status = "cleanup_pending"
        /\ UNCHANGED workspace
     \/ /\ \A p \in Promotions : promotion[p].of = w => promotion[p].status \notin Live
        /\ MoveWorkspace(w, "cleanup_pending")
  /\ UNCHANGED <<promotion, review, requirement, task>>

CompleteCleanup(w) ==
  /\ MoveWorkspace(w, "cleaned")
  /\ UNCHANGED <<promotion, review, requirement, task>>

-----------------------------------------------------------------------------
(* Promotions *)

Satisfied(gates) == \A g \in Gates : gates[g] = "satisfied"

Awaiting(w) == {p \in Promotions : promotion[p].of = w /\ promotion[p].status = "awaiting_gates"}

(* The approval that follows a gate: given the gates and the reviews as    *)
(* the transaction has written them, the promotion of w that awaits them   *)
(* is approved.  Without an approving review of that promotion the whole   *)
(* transaction fails.                                                      *)
maybeApprovePromotionForWorkspace(w, gates, reviews) ==
  IF Satisfied(gates) /\ Awaiting(w) # {}
    THEN /\ \A p \in Awaiting(w) : \E r \in Roles : reviews[p][r] = "approve"
         /\ promotion' = [p \in Promotions |->
              IF p \in Awaiting(w) THEN [promotion[p] EXCEPT !.status = "approved"] ELSE promotion[p]]
    ELSE UNCHANGED promotion

RecordCheck(w, outcome) ==
  /\ workspace[w].status = "sealed"
  /\ recordTaskRequirement(TaskOf[w], "check", outcome)
  /\ IF outcome = "satisfied"
       THEN maybeApprovePromotionForWorkspace(w, requirement'[TaskOf[w]], review)
       ELSE UNCHANGED promotion
  /\ UNCHANGED <<workspace, review, task>>

(* The row is inserted as requested and set to await its gates in the same *)
(* transaction.  One live promotion per workspace is a unique index.       *)
RequestPromotion(w, p) ==
  /\ workspace[w].status = "sealed"
  /\ task[TaskOf[w]].status = "awaiting_verification"
  /\ requirement[TaskOf[w]]["artifact"] = "satisfied"
  /\ \A g \in Gates : requirement[TaskOf[w]][g] # "failed"
  /\ \A q \in Promotions : promotion[q].of = w => promotion[q].status \notin Live
  /\ promotion[p].status = "absent"
  /\ promotion' = [promotion EXCEPT ![p] = [status |-> "awaiting_gates", of |-> w]]
  /\ UNCHANGED <<workspace, review, requirement, task>>

MayReview(role, w) == role # Assignee[TaskOf[w]] \/ role \in Owners

(* A second review of the approval requirement finds it resolved. *)
SubmitReview(p, role, decision) ==
  LET w == promotion[p].of IN
  /\ promotion[p].status = "awaiting_gates"
  /\ workspace[w].status = "sealed"
  /\ MayReview(role, w)
  /\ review[p][role] = "none"
  /\ review' = [review EXCEPT ![p][role] = decision]
  /\ recordTaskRequirement(TaskOf[w], "approval", IF decision = "approve" THEN "satisfied" ELSE "failed")
  /\ IF decision = "approve"
       THEN maybeApprovePromotionForWorkspace(w, requirement'[TaskOf[w]], review')
       ELSE promotion' = [promotion EXCEPT ![p].status = "rejected"]
  /\ UNCHANGED <<workspace, task>>

PromotionTransition ==
  [s \in PromotionStatus |->
     CASE s = "awaiting_gates" -> {"cancelled"}
       [] s = "approved" -> {"applied", "conflicted", "cancelled"}
       [] OTHER -> {}]

(* Recording a status the promotion already has is a success. *)
transitionPromotion(p, to) ==
  /\ \/ promotion[p].status = to /\ UNCHANGED promotion
     \/ /\ to \in PromotionTransition[promotion[p].status]
        /\ promotion' = [promotion EXCEPT ![p].status = to]
  /\ UNCHANGED <<workspace, review, requirement, task>>

(* What ApplyPromotion and the reconciler read before touching the ref. *)
GetPromotionApplyContext(p) ==
  LET w == promotion[p].of IN
  /\ promotion[p].status = "approved"
  /\ workspace[w].status = "sealed"
  /\ task[TaskOf[w]].status = "awaiting_verification"
  /\ Satisfied(requirement[TaskOf[w]])

-----------------------------------------------------------------------------
(* The task engine, as far as it touches these rows. *)

StartAttempt(w) ==
  LET t == TaskOf[w] IN
  /\ task[t].status = "ready" /\ w \notin task[t].tried
  /\ task' = [task EXCEPT ![t] = [status |-> "running", attempt |-> w, tried |-> @.tried \cup {w}]]
  /\ UNCHANGED <<workspace, promotion, review, requirement>>

(* The running attempt ends: succeeded, failed, expired or revoked. *)
EndAttempt(t, to) ==
  /\ task[t].status = "running"
  /\ to \in {"awaiting_verification", "ready"}
  /\ task' = [task EXCEPT ![t].status = to]
  /\ UNCHANGED <<workspace, promotion, review, requirement>>

(* A task under verification is blocked, and unblocked goes back to wait.  *)
(* (A running task that is blocked ends its attempt as above.)             *)
Block(t) ==
  /\ task[t].status = "awaiting_verification"
  /\ task' = [task EXCEPT ![t].status = "ready"]
  /\ UNCHANGED <<workspace, promotion, review, requirement>>

(* Completed, failed, rejected, cancelled or no action. *)
Finalize(t) ==
  /\ task[t].status # "ended"
  /\ task' = [task EXCEPT ![t].status = "ended"]
  /\ UNCHANGED <<workspace, promotion, review, requirement>>

(* The task engine resolves any pending requirement of a task that has not *)
(* ended, and does not look at promotions.                                 *)
RecordRequirementVerification(t, gate, outcome) ==
  /\ task[t].status # "ended"
  /\ recordTaskRequirement(t, gate, outcome)
  /\ UNCHANGED <<workspace, promotion, review, task>>

-----------------------------------------------------------------------------
WorkspaceStep(w) ==
  \/ \E base \in Commits : CreateProvisioning(w, base)
  \/ \E version \in Nat : ActivateWorkspace(w, version) \/ SealWorkspace(w, version)
  \/ FailWorkspace(w) \/ AbandonWorkspace(w) \/ BeginCleanup(w) \/ CompleteCleanup(w)

PromotionStep(p) ==
  \/ \E w \in Workspaces : RequestPromotion(w, p)
  \/ \E role \in Roles, decision \in {"approve", "reject"} : SubmitReview(p, role, decision)
  \/ \E to \in {"applied", "conflicted", "cancelled"} : transitionPromotion(p, to)

TaskStep(t) ==
  \/ \E to \in {"awaiting_verification", "ready"} : EndAttempt(t, to)
  \/ Block(t) \/ Finalize(t)
  \/ \E gate \in Outside, outcome \in Outcomes : RecordRequirementVerification(t, gate, outcome)

StoreNext ==
  \/ \E w \in Workspaces : WorkspaceStep(w) \/ StartAttempt(w)
  \/ \E w \in Workspaces, outcome \in Outcomes : RecordCheck(w, outcome)
  \/ \E p \in Promotions : PromotionStep(p)
  \/ \E t \in Tasks : TaskStep(t)

StoreSpec == StoreInit /\ [][StoreNext]_storeVars
-----------------------------------------------------------------------------
(* The gates behind a promotion of w: all satisfied, the candidate sealed  *)
(* and kept, and an approving review by somebody who may give one.         *)
Backed(p) ==
  LET w == promotion[p].of IN
  /\ w \in Workspaces
  /\ Satisfied(requirement[TaskOf[w]])
  /\ \E r \in Roles : review[p][r] = "approve" /\ MayReview(r, w)

(* An approved promotion rests on satisfied gates and on a review by       *)
(* somebody other than the author (or an owner), and its workspace is      *)
(* still sealed: no cleanup, abandonment or late failure took the          *)
(* candidate away between approval and application.                        *)
ApprovedIsBacked ==
  \A p \in Promotions :
    promotion[p].status = "approved" => Backed(p) /\ workspace[promotion[p].of].status = "sealed"
=============================================================================
