---------------------------- MODULE StagingProofs ----------------------------
(***************************************************************************)
(* Theorems about StagingStore and Staging, for any number of workspaces,  *)
(* promotions, tasks, roles, callers and pushes.                           *)
(***************************************************************************)
EXTENDS Staging, TLAPS

-----------------------------------------------------------------------------
(* The rows *)

(* What is kept of promotions and reviews besides ApprovedIsBacked: a      *)
(* promotion that exists belongs to a workspace that exists, and a review  *)
(* that approves one was given by somebody who may.                        *)
PromotionsRooted ==
  \A p \in Promotions :
    /\ promotion[p].status = "absent" <=> promotion[p].of = None
    /\ promotion[p].of # None => workspace[promotion[p].of].status # "absent"

ReviewsIndependent ==
  \A p \in Promotions, r \in Roles :
    review[p][r] = "approve" => promotion[p].of \in Workspaces /\ MayReview(r, promotion[p].of)

StoreInv == StoreTypeOK /\ PromotionsRooted /\ ReviewsIndependent /\ ApprovedIsBacked

(* What no transaction takes back. *)
Kept ==
  /\ \A p \in Promotions : promotion[p].of # None => promotion'[p].of = promotion[p].of
  /\ \A p \in Promotions : Backed(p) => Backed(p)'
  /\ \A w \in Workspaces : workspace[w].status # "absent" =>
       workspace'[w].status # "absent" /\ workspace'[w].base = workspace[w].base

(* The store starts in its invariant: no rows. *)
LEMMA StoreInitInv == StoreInit => StoreInv
<1> SUFFICES ASSUME StoreInit PROVE StoreInv
  BY Zenon
<1>1. StoreTypeOK
  BY Zenon DEF StoreInit, StoreTypeOK, NoWorkspace, NoPromotion, WorkspaceStatus, PromotionStatus, TaskStatus
<1>2. PromotionsRooted /\ ReviewsIndependent /\ ApprovedIsBacked
  BY Zenon DEF StoreInit, NoPromotion, PromotionsRooted, ReviewsIndependent, ApprovedIsBacked
<1> QED
  BY <1>1, <1>2, Zenon DEF StoreInv

(* A requirement is resolved once, so satisfied gates stay satisfied. *)
LEMMA ResolvedOnce ==
  ASSUME NEW t \in Tasks, NEW g \in Gates, NEW outcome \in Outcomes, StoreTypeOK,
         recordTaskRequirement(t, g, outcome)
  PROVE  /\ requirement' \in [Tasks -> [Gates -> {"pending"} \cup Outcomes]]
         /\ \A u \in Tasks : Satisfied(requirement[u]) => Satisfied(requirement'[u])
<1> DEFINE row == [requirement[t] EXCEPT ![g] = outcome]
<1>1. row \in [Gates -> {"pending"} \cup Outcomes]
  BY Zenon DEF StoreTypeOK
<1>2. requirement' = [requirement EXCEPT ![t] = row]
  BY Zenon DEF recordTaskRequirement
<1>3. ~Satisfied(requirement[t])
  BY Zenon DEF recordTaskRequirement, Satisfied
<1> HIDE DEF row
<1>4. requirement' \in [Tasks -> [Gates -> {"pending"} \cup Outcomes]]
  BY <1>1, <1>2, Zenon DEF StoreTypeOK
<1>5. \A u \in Tasks : u # t => requirement'[u] = requirement[u]
  BY <1>2, Zenon DEF StoreTypeOK
<1> QED
  BY <1>3, <1>4, <1>5, Zenon

(* A transaction that only moves a workspace that exists, and does not     *)
(* take a sealed one from under a live promotion, keeps the invariant.     *)
LEMMA WorkspaceMoves ==
  ASSUME NEW w \in Workspaces, NEW to \in WorkspaceStatus \ {"absent"}, StoreInv, MoveWorkspace(w, to),
         UNCHANGED <<promotion, review>>,
         requirement' = requirement \/ \E g \in Gates : recordTaskRequirement(TaskOf[w], g, "satisfied"),
         task' = task,
         workspace[w].status # "sealed"
           \/ \A p \in Promotions : promotion[p].of = w => promotion[p].status \notin Live
  PROVE  StoreInv' /\ Kept
<1>1. /\ workspace[w].status # "absent"
      /\ workspace' = [workspace EXCEPT ![w] = [status |-> to, version |-> workspace[w].version + 1,
                                                base |-> workspace[w].base]]
  BY DEF MoveWorkspace, WorkspaceTransition, StoreInv, StoreTypeOK, WorkspaceStatus
<1>2. /\ requirement' \in [Tasks -> [Gates -> {"pending"} \cup Outcomes]]
      /\ \A t \in Tasks : Satisfied(requirement[t]) => Satisfied(requirement'[t])
  <2>1. CASE requirement' = requirement
    BY <2>1, Zenon DEF StoreInv, StoreTypeOK
  <2>2. ASSUME NEW g \in Gates, recordTaskRequirement(TaskOf[w], g, "satisfied")
        PROVE  /\ requirement' \in [Tasks -> [Gates -> {"pending"} \cup Outcomes]]
               /\ \A t \in Tasks : Satisfied(requirement[t]) => Satisfied(requirement'[t])
    BY <2>2, TaskOfAssumption, ResolvedOnce, Zenon DEF StoreInv, Outcomes
  <2> QED
    BY <2>1, <2>2, Zenon
<1>3. StoreTypeOK'
  BY <1>1, <1>2 DEF StoreInv, StoreTypeOK
<1>4. /\ \A v \in Workspaces : v # w => workspace'[v] = workspace[v]
      /\ workspace'[w].status = to /\ workspace'[w].base = workspace[w].base
  BY <1>1, Zenon DEF StoreInv, StoreTypeOK
<1>5. PromotionsRooted' /\ ReviewsIndependent'
  BY <1>4, Zenon DEF StoreInv, PromotionsRooted, ReviewsIndependent, MayReview, StoreTypeOK
<1>6. \A p \in Promotions : Backed(p) => Backed(p)'
  BY <1>2, TaskOfAssumption, Zenon DEF Backed, MayReview
<1>7. ApprovedIsBacked'
  BY <1>4, <1>6, Zenon DEF StoreInv, ApprovedIsBacked, Live, Backed
<1>8. Kept
  BY <1>1, <1>4, <1>6, Zenon DEF Kept
<1> QED
  BY <1>3, <1>5, <1>7, <1>8, Zenon DEF StoreInv

(* A transaction that changes nothing keeps everything. *)
LEMMA StutterKeeps ==
  ASSUME StoreInv, UNCHANGED storeVars
  PROVE  StoreInv' /\ Kept
<1>1. \A p \in Promotions : Backed(p) <=> Backed(p)'
  BY Zenon DEF storeVars, Backed, MayReview
<1>2. StoreTypeOK' /\ PromotionsRooted' /\ ReviewsIndependent'
  BY Zenon DEF StoreInv, storeVars, StoreTypeOK, PromotionsRooted, ReviewsIndependent, MayReview
<1>3. ApprovedIsBacked'
  BY <1>1, Zenon DEF StoreInv, storeVars, ApprovedIsBacked
<1> QED
  BY <1>1, <1>2, <1>3, Zenon DEF StoreInv, storeVars, Kept

(* Every transaction on a workspace keeps the invariant; cleanup is the    *)
(* one that has to look at the promotions.                                 *)
LEMMA WorkspaceSteps ==
  ASSUME NEW w \in Workspaces, StoreInv, WorkspaceStep(w)
  PROVE  StoreInv' /\ Kept
<1> USE DEF StoreInv
<1>1. ASSUME NEW base \in Commits, CreateProvisioning(w, base)
      PROVE  StoreInv' /\ Kept
  <2>1. /\ workspace[w].status = "absent"
        /\ workspace' = [workspace EXCEPT ![w] = [status |-> "provisioning", version |-> 2, base |-> base]]
        /\ UNCHANGED <<promotion, review, requirement, task>>
    BY <1>1, Zenon DEF CreateProvisioning
  <2>2. StoreTypeOK'
    BY <2>1, Zenon DEF StoreTypeOK, WorkspaceStatus
  <2>3. \A v \in Workspaces : v # w => workspace'[v] = workspace[v]
    BY <2>1, Zenon DEF StoreTypeOK
  <2>4. \A p \in Promotions : promotion[p].of # w
    BY <2>1, NoneAssumption, Zenon DEF PromotionsRooted
  <2>5. \A p \in Promotions : Backed(p) => Backed(p)'
    BY <2>1, Zenon DEF Backed, MayReview
  <2>6. PromotionsRooted' /\ ReviewsIndependent'
    BY <2>1, <2>3, <2>4 DEF PromotionsRooted, ReviewsIndependent, MayReview, StoreTypeOK
  <2>7. ApprovedIsBacked'
    BY <2>1, <2>3, <2>4, <2>5 DEF ApprovedIsBacked, Backed
  <2> QED
    BY <2>1, <2>2, <2>3, <2>5, <2>6, <2>7, Zenon DEF Kept
<1>2. ASSUME NEW version \in Nat, ActivateWorkspace(w, version)
      PROVE  StoreInv' /\ Kept
  BY <1>2, WorkspaceMoves, Zenon DEF ActivateWorkspace, WorkspaceStatus
<1>3. ASSUME NEW version \in Nat, SealWorkspace(w, version)
      PROVE  StoreInv' /\ Kept
  <2>1. \E g \in Gates : recordTaskRequirement(TaskOf[w], g, "satisfied")
    BY <1>3, Zenon DEF SealWorkspace, Gates
  <2> QED
    BY <1>3, <2>1, WorkspaceMoves, Zenon DEF SealWorkspace, WorkspaceStatus
<1>4. CASE FailWorkspace(w)
  <2>1. workspace[w].status # "sealed"
    BY <1>4, Zenon DEF FailWorkspace, MoveWorkspace, WorkspaceTransition, WorkspaceStatus
  <2> QED
    BY <1>4, <2>1, WorkspaceMoves, Zenon DEF FailWorkspace, WorkspaceStatus
<1>5. CASE AbandonWorkspace(w)
  <2>1. workspace[w].status # "sealed"
    BY <1>5, Zenon DEF AbandonWorkspace, MoveWorkspace, WorkspaceTransition, WorkspaceStatus
  <2> QED
    BY <1>5, <2>1, WorkspaceMoves, Zenon DEF AbandonWorkspace, WorkspaceStatus
<1>6. CASE BeginCleanup(w)
  <2>1. CASE UNCHANGED workspace
    <3>1. UNCHANGED storeVars
      BY <1>6, <2>1, Zenon DEF BeginCleanup, storeVars
    <3> QED
      BY <3>1, StutterKeeps, Zenon
  <2>2. CASE MoveWorkspace(w, "cleanup_pending")
             /\ \A p \in Promotions : promotion[p].of = w => promotion[p].status \notin Live
    BY <1>6, <2>2, WorkspaceMoves, Zenon DEF BeginCleanup, WorkspaceStatus
  <2> QED
    BY <1>6, <2>1, <2>2, Zenon DEF BeginCleanup
<1>7. CASE CompleteCleanup(w)
  <2>1. workspace[w].status # "sealed"
    BY <1>7, Zenon DEF CompleteCleanup, MoveWorkspace, WorkspaceTransition, WorkspaceStatus
  <2> QED
    BY <1>7, <2>1, WorkspaceMoves, Zenon DEF CompleteCleanup, WorkspaceStatus
<1> QED
  BY <1>1, <1>2, <1>3, <1>4, <1>5, <1>6, <1>7, Zenon DEF WorkspaceStep

(* A transaction that resolves gates or adds reviews, and moves promotions *)
(* of a sealed workspace only to approved when they are backed or to a     *)
(* status that promises nothing, keeps the invariant.                      *)
LEMMA PromotionMoves ==
  ASSUME StoreInv, workspace' = workspace,
         task' \in [Tasks -> [status: TaskStatus, attempt: Workspaces \cup {None}, tried: SUBSET Workspaces]],
         requirement' \in [Tasks -> [Gates -> {"pending"} \cup Outcomes]],
         \A t \in Tasks : Satisfied(requirement[t]) => Satisfied(requirement'[t]),
         review' \in [Promotions -> [Roles -> {"none", "approve", "reject"}]],
         \A p \in Promotions, r \in Roles : review[p][r] = "approve" => review'[p][r] = "approve",
         \A p \in Promotions, r \in Roles :
           review'[p][r] = "approve" => promotion[p].of \in Workspaces /\ MayReview(r, promotion[p].of),
         promotion' \in [Promotions -> [status: PromotionStatus, of: Workspaces \cup {None}]],
         \A p \in Promotions :
           /\ promotion'[p].of = promotion[p].of
           /\ promotion'[p].status = "absent" <=> promotion[p].status = "absent"
           /\ promotion'[p].status = "approved" =>
                \/ promotion[p].status = "approved"
                \/ /\ Satisfied(requirement'[TaskOf[promotion[p].of]])
                   /\ \E r \in Roles : review'[p][r] = "approve"
                   /\ workspace[promotion[p].of].status = "sealed"
  PROVE  StoreInv' /\ Kept
<1> USE DEF StoreInv
<1>1. StoreTypeOK'
  BY Zenon DEF StoreTypeOK
<1>2. PromotionsRooted'
  BY DEF PromotionsRooted
<1>3. ReviewsIndependent'
  BY DEF ReviewsIndependent, MayReview
<1>4. \A p \in Promotions : Backed(p) => Backed(p)'
  BY TaskOfAssumption DEF Backed, MayReview
<1>5. ASSUME NEW p \in Promotions, promotion'[p].status = "approved"
      PROVE  Backed(p)' /\ workspace'[promotion'[p].of].status = "sealed"
  <2>1. CASE promotion[p].status = "approved"
    BY <2>1, <1>4 DEF ApprovedIsBacked
  <2>2. CASE /\ Satisfied(requirement'[TaskOf[promotion[p].of]])
             /\ \E r \in Roles : review'[p][r] = "approve"
             /\ workspace[promotion[p].of].status = "sealed"
    BY <2>2, SMTT(30) DEF Backed, MayReview
  <2> QED
    BY <1>5, <2>1, <2>2, Zenon
<1>6. ApprovedIsBacked'
  BY <1>5, Zenon DEF ApprovedIsBacked
<1>7. Kept
  BY <1>4, Zenon DEF Kept
<1> QED
  BY <1>1, <1>2, <1>3, <1>6, <1>7, Zenon

(* What approving the promotions of a sealed workspace does to the rows. *)
LEMMA ApprovalMoves ==
  ASSUME StoreInv, NEW w \in Workspaces, NEW gates, NEW reviews, workspace[w].status = "sealed",
         maybeApprovePromotionForWorkspace(w, gates, reviews)
  PROVE  /\ promotion' \in [Promotions -> [status: PromotionStatus, of: Workspaces \cup {None}]]
         /\ \A p \in Promotions :
              /\ promotion'[p].of = promotion[p].of
              /\ promotion'[p].status = "absent" <=> promotion[p].status = "absent"
              /\ promotion'[p].status = "approved" =>
                   \/ promotion[p].status = "approved"
                   \/ /\ promotion[p].of = w
                      /\ Satisfied(gates)
                      /\ \E r \in Roles : reviews[p][r] = "approve"
<1> USE DEF StoreInv, StoreTypeOK
<1>1. CASE Satisfied(gates) /\ Awaiting(w) # {}
  <2>1. /\ \A p \in Awaiting(w) : \E r \in Roles : reviews[p][r] = "approve"
        /\ promotion' = [p \in Promotions |->
             IF p \in Awaiting(w) THEN [promotion[p] EXCEPT !.status = "approved"] ELSE promotion[p]]
    BY <1>1, Zenon DEF maybeApprovePromotionForWorkspace
  <2>2. \A p \in Promotions : p \in Awaiting(w) <=> promotion[p].of = w /\ promotion[p].status = "awaiting_gates"
    BY Zenon DEF Awaiting
  <2>3. \A p \in Promotions :
          /\ p \in Awaiting(w) => promotion'[p] = [status |-> "approved", of |-> promotion[p].of]
          /\ p \notin Awaiting(w) => promotion'[p] = promotion[p]
    BY <2>1
  <2>4. promotion' \in [Promotions -> [status: PromotionStatus, of: Workspaces \cup {None}]]
    BY <2>1, <2>3 DEF PromotionStatus
  <2> QED
    BY <1>1, <2>1, <2>2, <2>3, <2>4, Zenon
<1>2. CASE ~(Satisfied(gates) /\ Awaiting(w) # {})
  <2>1. promotion' = promotion
    BY <1>2, Zenon DEF maybeApprovePromotionForWorkspace
  <2> QED
    BY <2>1, Zenon
<1> QED
  BY <1>1, <1>2, Zenon

(* The result of a check, and the approval that may follow it. *)
LEMMA CheckSteps ==
  ASSUME NEW w \in Workspaces, NEW outcome \in Outcomes, StoreInv, RecordCheck(w, outcome)
  PROVE  StoreInv' /\ Kept
<1> USE DEF StoreInv
<1>1. /\ requirement' \in [Tasks -> [Gates -> {"pending"} \cup Outcomes]]
      /\ \A t \in Tasks : Satisfied(requirement[t]) => Satisfied(requirement'[t])
  BY ResolvedOnce, TaskOfAssumption, Zenon DEF RecordCheck, Gates
<1>2. workspace' = workspace /\ review' = review /\ task' = task /\ workspace[w].status = "sealed"
  BY Zenon DEF RecordCheck
<1>3. CASE outcome = "satisfied"
  <2>1. maybeApprovePromotionForWorkspace(w, requirement'[TaskOf[w]], review)
    BY <1>3, Zenon DEF RecordCheck
  <2> DEFINE gates == requirement'[TaskOf[w]]
  <2>2. /\ promotion' \in [Promotions -> [status: PromotionStatus, of: Workspaces \cup {None}]]
        /\ \A p \in Promotions :
             /\ promotion'[p].of = promotion[p].of
             /\ promotion'[p].status = "absent" <=> promotion[p].status = "absent"
             /\ promotion'[p].status = "approved" =>
                  \/ promotion[p].status = "approved"
                  \/ /\ promotion[p].of = w
                     /\ Satisfied(gates)
                     /\ \E r \in Roles : review[p][r] = "approve"
    BY <1>2, <2>1, ApprovalMoves
  <2> QED
    BY <1>1, <1>2, <2>2, PromotionMoves, Zenon DEF ReviewsIndependent, StoreTypeOK
<1>4. CASE outcome # "satisfied"
  <2>1. promotion' = promotion
    BY <1>4, Zenon DEF RecordCheck
  <2> QED
    BY <1>1, <1>2, <2>1, PromotionMoves, Zenon DEF ReviewsIndependent, StoreTypeOK
<1> QED
  BY <1>3, <1>4, Zenon

(* A promotion is requested under an identifier nothing refers to yet. *)
LEMMA RequestSteps ==
  ASSUME NEW w \in Workspaces, NEW p \in Promotions, StoreInv, RequestPromotion(w, p)
  PROVE  StoreInv' /\ Kept
<1> USE DEF StoreInv
<1>1. /\ promotion[p].status = "absent" /\ promotion[p].of = None
      /\ workspace[w].status = "sealed"
      /\ promotion' = [promotion EXCEPT ![p] = [status |-> "awaiting_gates", of |-> w]]
      /\ UNCHANGED <<workspace, review, requirement, task>>
  BY Zenon DEF RequestPromotion, PromotionsRooted
<1>2. StoreTypeOK'
  BY <1>1, Zenon DEF StoreTypeOK, PromotionStatus
<1>3. /\ promotion'[p] = [status |-> "awaiting_gates", of |-> w]
      /\ \A q \in Promotions : q # p => promotion'[q] = promotion[q]
  BY <1>1, Zenon DEF StoreTypeOK
<1>4. PromotionsRooted'
  BY <1>1, <1>3, NoneAssumption DEF PromotionsRooted
<1>5. ReviewsIndependent'
  BY <1>1, <1>3, NoneAssumption, Zenon DEF ReviewsIndependent, MayReview
<1>6. \A q \in Promotions : Backed(q) => Backed(q)'
  BY <1>1, <1>3, NoneAssumption, Zenon DEF Backed, MayReview
<1>7. ApprovedIsBacked'
  BY <1>1, <1>3, <1>6 DEF ApprovedIsBacked
<1> QED
  BY <1>1, <1>2, <1>3, <1>4, <1>5, <1>6, <1>7, Zenon DEF Kept

(* A review by somebody who may give it, with the approval or rejection    *)
(* that follows it.                                                        *)
LEMMA ReviewSteps ==
  ASSUME NEW p \in Promotions, NEW role \in Roles, NEW decision \in {"approve", "reject"}, StoreInv,
         SubmitReview(p, role, decision)
  PROVE  StoreInv' /\ Kept
<1> USE DEF StoreInv
<1>0. PICK w : w = promotion[p].of
  BY Zenon
<1>1. /\ promotion[p].status = "awaiting_gates" /\ w \in Workspaces
      /\ workspace[w].status = "sealed" /\ MayReview(role, w) /\ review[p][role] = "none"
      /\ review' = [review EXCEPT ![p][role] = decision]
      /\ workspace' = workspace /\ task' = task
  BY <1>0, Zenon DEF SubmitReview, PromotionsRooted, StoreTypeOK
<1>2. /\ requirement' \in [Tasks -> [Gates -> {"pending"} \cup Outcomes]]
      /\ \A t \in Tasks : Satisfied(requirement[t]) => Satisfied(requirement'[t])
  <2>1. PICK outcome \in Outcomes : recordTaskRequirement(TaskOf[w], "approval", outcome)
    BY <1>0, Zenon DEF SubmitReview, Outcomes
  <2> QED
    BY <1>1, <2>1, ResolvedOnce, TaskOfAssumption, Zenon DEF Gates
<1>3. /\ review' \in [Promotions -> [Roles -> {"none", "approve", "reject"}]]
      /\ \A q \in Promotions, r \in Roles : review'[q][r] = IF q = p /\ r = role THEN decision ELSE review[q][r]
  <2> DEFINE row == [review[p] EXCEPT ![role] = decision]
  <2>1. row \in [Roles -> {"none", "approve", "reject"}]
        /\ \A r \in Roles : row[r] = IF r = role THEN decision ELSE review[p][r]
    BY Zenon DEF StoreTypeOK
  <2>2. review' = [review EXCEPT ![p] = row]
    BY <1>1, Zenon
  <2> HIDE DEF row
  <2> QED
    BY <2>1, <2>2, Zenon DEF StoreTypeOK
<1>4. /\ \A q \in Promotions, r \in Roles : review[q][r] = "approve" => review'[q][r] = "approve"
      /\ \A q \in Promotions, r \in Roles :
           review'[q][r] = "approve" => promotion[q].of \in Workspaces /\ MayReview(r, promotion[q].of)
  BY <1>0, <1>1, <1>3, Zenon DEF ReviewsIndependent
<1>5. CASE decision = "approve"
  <2>0. PICK gates, reviews : gates = requirement'[TaskOf[w]] /\ reviews = review'
    BY Zenon
  <2>1. maybeApprovePromotionForWorkspace(w, gates, reviews)
    BY <1>0, <1>5, <2>0, Zenon DEF SubmitReview
  <2>2. /\ promotion' \in [Promotions -> [status: PromotionStatus, of: Workspaces \cup {None}]]
        /\ \A q \in Promotions :
             /\ promotion'[q].of = promotion[q].of
             /\ promotion'[q].status = "absent" <=> promotion[q].status = "absent"
             /\ promotion'[q].status = "approved" =>
                  \/ promotion[q].status = "approved"
                  \/ /\ promotion[q].of = w
                     /\ Satisfied(gates)
                     /\ \E r \in Roles : reviews[q][r] = "approve"
    BY <1>1, <2>1, ApprovalMoves
  <2>3. \A q \in Promotions :
             /\ promotion'[q].of = promotion[q].of
             /\ promotion'[q].status = "absent" <=> promotion[q].status = "absent"
             /\ promotion'[q].status = "approved" =>
                  \/ promotion[q].status = "approved"
                  \/ /\ Satisfied(requirement'[TaskOf[promotion[q].of]])
                     /\ \E r \in Roles : review'[q][r] = "approve"
                     /\ workspace[promotion[q].of].status = "sealed"
    BY <1>1, <2>0, <2>2, Zenon
  <2>4. task' \in [Tasks -> [status: TaskStatus, attempt: Workspaces \cup {None}, tried: SUBSET Workspaces]]
    BY <1>1, Zenon DEF StoreTypeOK
  <2> HIDE DEF StoreInv
  <2> QED
    BY <1>1, <1>2, <1>3, <1>4, <2>2, <2>3, <2>4, PromotionMoves, Zenon
<1>6. CASE decision = "reject"
  <2>1. promotion' = [promotion EXCEPT ![p] = [status |-> "rejected", of |-> w]]
    BY <1>0, <1>6 DEF SubmitReview, StoreTypeOK
  <2>2. promotion' \in [Promotions -> [status: PromotionStatus, of: Workspaces \cup {None}]]
    BY <1>1, <2>1, Zenon DEF StoreTypeOK, PromotionStatus
  <2>3. \A q \in Promotions :
             /\ promotion'[q].of = promotion[q].of
             /\ promotion'[q].status = "absent" <=> promotion[q].status = "absent"
             /\ promotion'[q].status = "approved" => promotion[q].status = "approved"
    BY <1>0, <1>1, <2>1, Zenon DEF StoreTypeOK
  <2> QED
    BY <1>1, <1>2, <1>3, <1>4, <2>2, <2>3, PromotionMoves, Zenon DEF StoreTypeOK
<1> QED
  BY <1>5, <1>6, Zenon

(* An outcome is recorded: the promotion leaves approved, or stays. *)
LEMMA TransitionSteps ==
  ASSUME NEW p \in Promotions, NEW to \in {"applied", "conflicted", "cancelled"}, StoreInv,
         transitionPromotion(p, to)
  PROVE  StoreInv' /\ Kept
<1> USE DEF StoreInv
<1>1. UNCHANGED <<workspace, review, requirement, task>>
  BY Zenon DEF transitionPromotion
<1>2. CASE promotion' = promotion
  BY <1>1, <1>2, StutterKeeps, Zenon DEF storeVars
<1>3. CASE /\ to \in PromotionTransition[promotion[p].status]
           /\ promotion' = [promotion EXCEPT ![p].status = to]
  <2>1. promotion[p].status # "absent"
    BY <1>3, Zenon DEF PromotionTransition, PromotionStatus
  <2>2. PICK w \in Workspaces \cup {None} :
          w = promotion[p].of /\ promotion' = [promotion EXCEPT ![p] = [status |-> to, of |-> w]]
    <3>1. promotion[p] \in [status: PromotionStatus, of: Workspaces \cup {None}]
      BY Zenon DEF StoreTypeOK
    <3>2. [promotion[p] EXCEPT !.status = to] = [status |-> to, of |-> promotion[p].of]
      BY <3>1
    <3>3. promotion' = [promotion EXCEPT ![p] = [promotion[p] EXCEPT !.status = to]]
      BY <1>3, Zenon
    <3> QED
      BY <3>1, <3>2, <3>3, Zenon
  <2>3. promotion' \in [Promotions -> [status: PromotionStatus, of: Workspaces \cup {None}]]
    BY <2>2, Zenon DEF StoreTypeOK, PromotionStatus
  <2>4. \A q \in Promotions :
             /\ promotion'[q].of = promotion[q].of
             /\ promotion'[q].status = "absent" <=> promotion[q].status = "absent"
             /\ promotion'[q].status = "approved" => promotion[q].status = "approved"
    BY <2>1, <2>2, Zenon DEF StoreTypeOK
  <2> QED
    BY <1>1, <2>3, <2>4, PromotionMoves, Zenon DEF StoreTypeOK, ReviewsIndependent
<1> QED
  BY <1>2, <1>3, Zenon DEF transitionPromotion

(* The task engine's steps leave workspaces, promotions and reviews alone. *)
LEMMA TaskSteps ==
  ASSUME StoreInv, (\E w \in Workspaces : StartAttempt(w)) \/ (\E t \in Tasks : TaskStep(t))
  PROVE  StoreInv' /\ Kept
<1> USE DEF StoreInv
<1>1. ASSUME NEW w \in Workspaces, StartAttempt(w)
      PROVE  StoreInv' /\ Kept
  <2>1. PICK t \in Tasks : t = TaskOf[w]
    BY TaskOfAssumption, Zenon
  <2>2. /\ task' = [task EXCEPT ![t] = [status |-> "running", attempt |-> w, tried |-> task[t].tried \cup {w}]]
        /\ UNCHANGED <<workspace, promotion, review, requirement>>
    BY <1>1, <2>1, Zenon DEF StartAttempt, StoreTypeOK
  <2>3. task' \in [Tasks -> [status: TaskStatus, attempt: Workspaces \cup {None}, tried: SUBSET Workspaces]]
    BY <2>2, Zenon DEF StoreTypeOK, TaskStatus
  <2> QED
    BY <2>2, <2>3, PromotionMoves, Zenon DEF StoreTypeOK, ReviewsIndependent
<1>2. ASSUME NEW t \in Tasks, TaskStep(t)
      PROVE  StoreInv' /\ Kept
  <2>1. ASSUME NEW to \in {"awaiting_verification", "ready", "ended"},
               task' = [task EXCEPT ![t].status = to],
               UNCHANGED <<workspace, promotion, review, requirement>>
        PROVE  StoreInv' /\ Kept
    <3>1. task' \in [Tasks -> [status: TaskStatus, attempt: Workspaces \cup {None}, tried: SUBSET Workspaces]]
      BY <2>1, Zenon DEF StoreTypeOK, TaskStatus
    <3> QED
      BY <2>1, <3>1, PromotionMoves, Zenon DEF StoreTypeOK, ReviewsIndependent
  <2>2. ASSUME NEW gate \in Outside, NEW outcome \in Outcomes, RecordRequirementVerification(t, gate, outcome)
        PROVE  StoreInv' /\ Kept
    <3>1. gate \in Gates
      BY OutsideAssumption, Zenon DEF Gates
    <3>2. /\ requirement' \in [Tasks -> [Gates -> {"pending"} \cup Outcomes]]
          /\ \A u \in Tasks : Satisfied(requirement[u]) => Satisfied(requirement'[u])
      BY <2>2, <3>1, ResolvedOnce, Zenon DEF RecordRequirementVerification
    <3>3. UNCHANGED <<workspace, promotion, review, task>>
      BY <2>2, Zenon DEF RecordRequirementVerification
    <3> QED
      BY <3>2, <3>3, PromotionMoves, Zenon DEF StoreTypeOK, ReviewsIndependent
  <2> QED
    BY <1>2, <2>1, <2>2, Zenon DEF TaskStep, EndAttempt, Block, Finalize
<1> QED
  BY <1>1, <1>2, Zenon

(* Every transaction, and nothing happening, keeps the invariant and what  *)
(* must not be taken back.                                                 *)
LEMMA StoreSteps ==
  ASSUME StoreInv, [StoreNext]_storeVars
  PROVE  StoreInv' /\ Kept
<1>1. CASE UNCHANGED storeVars
  BY <1>1, StutterKeeps, Zenon
<1>2. ASSUME NEW p \in Promotions, PromotionStep(p)
      PROVE  StoreInv' /\ Kept
  BY <1>2, RequestSteps, ReviewSteps, TransitionSteps, Zenon DEF PromotionStep
<1>3. ASSUME NEW w \in Workspaces, NEW outcome \in Outcomes, RecordCheck(w, outcome)
      PROVE  StoreInv' /\ Kept
  BY <1>3, CheckSteps, Zenon
<1>4. ASSUME NEW w \in Workspaces, WorkspaceStep(w)
      PROVE  StoreInv' /\ Kept
  BY <1>4, WorkspaceSteps, Zenon
<1> QED
  BY <1>1, <1>2, <1>3, <1>4, TaskSteps, Zenon DEF StoreNext

(* Whatever order transactions come in, an approved promotion rests on     *)
(* satisfied gates, an independent approving review and a sealed workspace.*)
THEOREM ApprovalRestsOnItsGates == StoreSpec => []ApprovedIsBacked
<1>1. StoreInv /\ [StoreNext]_storeVars => StoreInv'
  BY StoreSteps, Zenon
<1>2. StoreInv => ApprovedIsBacked
  BY Zenon DEF StoreInv
<1> QED
  BY StoreInitInv, <1>1, <1>2, PTL DEF StoreSpec

-----------------------------------------------------------------------------
(* The whole of staging *)

(* Where a caller is says what it has seen: the promotion it is about to   *)
(* put on the target is backed and its artifacts stored, and it is about   *)
(* to record as applied only what the target has held.                     *)
CallerKnows(c) ==
  /\ proc[c].pc \in Building => On(c) \in Workspaces
  /\ proc[c].pc = "provision" => proc[c].base \in Commits
  /\ proc[c].pc \in Promoting => On(c) \in Promotions /\ Backed(On(c)) /\ CandidateOf(On(c)) \in stored
  /\ proc[c].pc = "applied" => Reached(CandidateOf(On(c)))

ReconcilerKnows ==
  /\ rec.pc = "stale" => rec.todo \subseteq Rows
  /\ rec.pc = "inspected" => rec.todo \subseteq Rows /\ rec.on \in Rows
  /\ rec.pc \in {"promotions", "read"} => \A p \in rec.todo : p \in Promotions /\ promotion[p].of # None
  /\ rec.pc = "read" =>
       /\ rec.on \in Promotions /\ promotion[rec.on].of # None
       /\ rec.found \in {"applied", "update_ref", "conflicted"}
       /\ rec.found = "applied" => Reached(CandidateOf(rec.on))

ProcessTypeOK ==
  /\ proc \in [Callers -> [pc: {"idle"} \cup Building \cup Promoting, on: Workspaces \cup Promotions \cup {None},
                          version: Nat, base: Commits \cup {None}]]
  /\ rec \in [pc: Passes, todo: SUBSET (Rows \cup Workspaces \cup Promotions),
              on: Rows \cup Promotions \cup {None}, found: Trees \cup Promoting]

DiskTypeOK == history \in Seq(Commits) /\ history # <<>> /\ stored \subseteq Workspaces

Inv ==
  /\ StoreInv /\ DiskTypeOK /\ ProcessTypeOK
  /\ \A c \in Callers : CallerKnows(c)
  /\ ReconcilerKnows
  /\ TargetMatchesRecords /\ NothingPromotedIsLost

(* The ways a step may change what the properties speak of: the target     *)
(* stays, or moves from the base of a backed, stored candidate to that     *)
(* candidate, or to a commit of someone else.                              *)
TargetStep ==
  \/ history' = history
  \/ \E x \in Commits :
       /\ history' = Append(history, x)
       /\ x \in Workspaces =>
            /\ x \in stored /\ workspace[x].base = ReadTarget
            /\ \E p \in Promotions : promotion[p].of = x /\ Backed(p)

AppliedStep ==
  \A p \in Promotions : promotion'[p].status = "applied" =>
    promotion[p].status = "applied" \/ (promotion[p].of # None /\ Reached(promotion[p].of))

Remembered ==
  /\ stored \subseteq stored'
  /\ \A x \in Commits : Reached(x) => Reached(x)'

Lawful == [StoreNext]_storeVars /\ TargetStep /\ AppliedStep /\ stored \subseteq stored' /\ stored' \subseteq Workspaces

(* The target's history only grows. *)
LEMMA HistoryGrows ==
  ASSUME DiskTypeOK, NEW x \in Commits, history' = Append(history, x)
  PROVE  /\ history' \in Seq(Commits) /\ history' # <<>>
         /\ Len(history') = Len(history) + 1 /\ Len(history) \in Nat \ {0}
         /\ history'[Len(history) + 1] = x
         /\ \A i \in 1..Len(history) : history'[i] = history[i]
BY DEF DiskTypeOK

(* A lawful step keeps everything but the positions of the processes. *)
LEMMA LawfulStep ==
  ASSUME Inv, Lawful
  PROVE  /\ StoreInv' /\ Kept /\ DiskTypeOK' /\ Remembered
         /\ TargetMatchesRecords' /\ NothingPromotedIsLost'
<1>1. StoreInv' /\ Kept
  BY StoreSteps, Zenon DEF Inv, Lawful
<1>2. DiskTypeOK' /\ Remembered
  <2>1. CASE history' = history
    BY <2>1, Zenon DEF Inv, Lawful, DiskTypeOK, Remembered, Reached
  <2>2. ASSUME NEW x \in Commits, history' = Append(history, x)
        PROVE  DiskTypeOK' /\ Remembered
    BY <2>2, HistoryGrows DEF Inv, Lawful, DiskTypeOK, Remembered, Reached
  <2> QED
    BY <2>1, <2>2, Zenon DEF Lawful, TargetStep
<1>3. \A p \in Promotions : promotion[p].of # None => promotion[p].of \in Workspaces /\ promotion'[p].of = promotion[p].of
  BY <1>1, Zenon DEF Kept, Inv, StoreInv, StoreTypeOK
<1>4. ASSUME NEW w \in Workspaces, w \in stored, NEW p \in Promotions, promotion[p].of = w, Backed(p)
      PROVE  w \in stored' /\ \E q \in Promotions : promotion'[q].of = w /\ Backed(q)'
  BY <1>1, <1>2, <1>3, <1>4, NoneAssumption, Zenon DEF Kept, Remembered
<1>5. \A w \in Workspaces : Reached(w)' => w \in stored' /\ \E q \in Promotions : promotion'[q].of = w /\ Backed(q)'
  <2> TAKE w \in Workspaces
  <2> HAVE Reached(w)'
  <2>1. CASE Reached(w)
    <3>1. w \in stored /\ \E p \in Promotions : promotion[p].of = w /\ Backed(p)
      BY <2>1, Zenon DEF Inv, TargetMatchesRecords
    <3> QED
      BY <3>1, <1>4, Zenon
  <2>2. CASE ~Reached(w)
    <3>1. PICK x \in Commits :
            /\ history' = Append(history, x)
            /\ x \in Workspaces =>
                 /\ x \in stored /\ workspace[x].base = ReadTarget
                 /\ \E p \in Promotions : promotion[p].of = x /\ Backed(p)
      BY <2>2, Zenon DEF Lawful, TargetStep, Reached
    <3>2. x = w
      BY <2>2, <3>1, HistoryGrows DEF Inv, Reached
    <3> QED
      BY <3>1, <3>2, <1>4, Zenon
  <2> QED
    BY <2>1, <2>2, Zenon
<1>6. \A p \in Promotions : promotion'[p].status = "applied" => Reached(CandidateOf(p))'
  <2> TAKE p \in Promotions
  <2> HAVE promotion'[p].status = "applied"
  <2>1. promotion[p].of # None /\ Reached(promotion[p].of)
    BY Zenon DEF Lawful, AppliedStep, Inv, TargetMatchesRecords, CandidateOf, StoreInv, PromotionsRooted
  <2>2. promotion'[p].of = promotion[p].of /\ promotion[p].of \in Commits
    BY <2>1, <1>3, CommitsAssumption, Zenon
  <2> QED
    BY <1>2, <2>1, <2>2, Zenon DEF Remembered, CandidateOf, Reached
<1>7. TargetMatchesRecords'
  BY <1>5, <1>6, Zenon DEF TargetMatchesRecords
<1>8. NothingPromotedIsLost'
  <2>1. \A w \in Workspaces : Reached(w) => workspace'[w].base = workspace[w].base
    BY <1>1, NoneAssumption DEF Inv, TargetMatchesRecords, Kept, StoreInv, PromotionsRooted
  <2>2. CASE history' = history
    BY <2>1, <2>2 DEF Inv, NothingPromotedIsLost, Reached, DiskTypeOK
  <2>3. ASSUME NEW x \in Commits, history' = Append(history, x),
               x \in Workspaces =>
                 /\ x \in stored /\ workspace[x].base = ReadTarget
                 /\ \E p \in Promotions : promotion[p].of = x /\ Backed(p)
        PROVE  NothingPromotedIsLost'
    <3>1. x \in Workspaces => workspace'[x].base = history[Len(history)]
      BY <2>3, <1>1, NoneAssumption, Zenon DEF Kept, Inv, StoreInv, PromotionsRooted, ReadTarget
    <3>2. ASSUME NEW i \in 1..Len(history) - 1, history[i + 1] \in Workspaces
          PROVE  workspace'[history[i + 1]].base = history[i]
      BY <3>2, <2>1 DEF Inv, NothingPromotedIsLost, Reached, DiskTypeOK
    <3>3. DiskTypeOK
      BY Zenon DEF Inv
    <3>4. /\ Len(history') = Len(history) + 1 /\ Len(history) \in Nat \ {0}
          /\ history'[Len(history) + 1] = x
          /\ \A i \in 1..Len(history) : history'[i] = history[i]
      BY <2>3, <3>3, HistoryGrows, Zenon
    <3>5. ASSUME NEW i \in 1..Len(history') - 1, history'[i + 1] \in Workspaces
          PROVE  workspace'[history'[i + 1]].base = history'[i]
      <4>1. CASE i = Len(history)
        BY <3>1, <3>4, <3>5, <4>1
      <4>2. CASE i # Len(history)
        <5>1. i \in 1..Len(history) - 1 /\ i + 1 \in 1..Len(history) /\ i \in 1..Len(history)
          BY <3>4, <3>5, <4>2
        <5> QED
          BY <3>2, <3>4, <3>5, <5>1, Zenon
      <4> QED
        BY <4>1, <4>2, Zenon
    <3> QED
      BY <3>5, Zenon DEF NothingPromotedIsLost
  <2> QED
    BY <2>2, <2>3, Zenon DEF Lawful, TargetStep
<1> QED
  BY <1>1, <1>2, <1>7, <1>8, Zenon

(* What a process knows stays true while it does not move. *)
LEMMA StillKnown ==
  ASSUME Inv, Lawful
  PROVE  /\ \A c \in Callers : proc'[c] = proc[c] => CallerKnows(c)'
         /\ rec' = rec => ReconcilerKnows'
<1>1. Kept /\ Remembered
  BY LawfulStep, Zenon
<1>2. \A p \in Promotions : promotion[p].of # None =>
        promotion[p].of \in Commits /\ promotion'[p].of = promotion[p].of
  BY <1>1, CommitsAssumption, Zenon DEF Kept, Inv, StoreInv, StoreTypeOK
<1>3. \A p \in Promotions : Backed(p) => promotion[p].of # None /\ Backed(p)'
  BY <1>1, NoneAssumption, Zenon DEF Backed, Kept
<1>4. \A p \in Promotions : promotion[p].of # None /\ Reached(CandidateOf(p)) => Reached(CandidateOf(p))'
  BY <1>1, <1>2, Zenon DEF Remembered, CandidateOf, Reached
<1>5. ASSUME NEW c \in Callers, proc'[c] = proc[c]
      PROVE  CallerKnows(c)'
  <2>1. CASE proc[c].pc \in Promoting
    <3>1. On(c) \in Promotions /\ Backed(On(c)) /\ CandidateOf(On(c)) \in stored /\ On(c)' = On(c)
      BY <1>5, <2>1, Zenon DEF Inv, CallerKnows, On
    <3>2. Backed(On(c))' /\ CandidateOf(On(c))' \in stored'
      BY <3>1, <1>1, <1>2, <1>3 DEF Remembered, CandidateOf, Backed, MayReview
    <3>3. proc[c].pc = "applied" => Reached(CandidateOf(On(c)))'
      BY <3>1, <1>2, <1>3, <1>1, SMTT(30) DEF Inv, CallerKnows, CandidateOf, Remembered, Reached
    <3> QED
      BY <1>5, <2>1, <3>1, <3>2, <3>3, Zenon DEF CallerKnows, Promoting, Building
  <2>2. CASE proc[c].pc \notin Promoting
    BY <1>5, <2>2, Zenon DEF Inv, CallerKnows, Promoting, Building, On
  <2> QED
    BY <2>1, <2>2, Zenon
<1>6. ASSUME rec' = rec
      PROVE  ReconcilerKnows'
  BY <1>2, <1>4, <1>6, Zenon DEF Inv, ReconcilerKnows, CandidateOf, Reached
<1> QED
  BY <1>5, <1>6, Zenon

(* A lawful step of one caller that leaves it with what it must know. *)
LEMMA CallerMoves ==
  ASSUME Inv, Lawful, NEW c \in Callers, rec' = rec,
         NEW row \in [pc: {"idle"} \cup Building \cup Promoting, on: Workspaces \cup Promotions \cup {None},
                      version: Nat, base: Commits \cup {None}],
         proc' = [proc EXCEPT ![c] = row],
         CallerKnows(c)'
  PROVE  Inv'
<1>1. \A d \in Callers : d # c => proc'[d] = proc[d]
  BY Zenon DEF Inv, ProcessTypeOK
<1>2. (\A d \in Callers : CallerKnows(d)') /\ ReconcilerKnows'
  BY <1>1, StillKnown, Zenon
<1>3. ProcessTypeOK'
  BY Zenon DEF Inv, ProcessTypeOK
<1> QED
  BY <1>2, <1>3, LawfulStep, Zenon DEF Inv

(* Nothing on the target changes and nothing is stored. *)
LEMMA LawfulStoreStep ==
  ASSUME Inv, [StoreNext]_storeVars, history' = history, stored \subseteq stored', stored' \subseteq Workspaces,
         promotion' = promotion \/ AppliedStep
  PROVE  Lawful
BY Zenon DEF Lawful, TargetStep, AppliedStep

(* Returning needs no knowledge. *)
LEMMA Returns ==
  ASSUME Inv, Lawful, NEW c \in Callers, rec' = rec, Return(c)
  PROVE  Inv'
<1>1. Idle \in [pc: {"idle"} \cup Building \cup Promoting, on: Workspaces \cup Promotions \cup {None},
                version: Nat, base: Commits \cup {None}]
  BY Zenon DEF Idle
<1>2. proc'[c] = Idle
  BY Zenon DEF Return, Inv, ProcessTypeOK
<1>3. CallerKnows(c)'
  BY <1>2 DEF CallerKnows, Idle, Building, Promoting
<1> QED
  BY <1>1, <1>3, CallerMoves, Zenon DEF Return

(* A caller that goes on keeps its arguments. *)
LEMMA Continues ==
  ASSUME Inv, Lawful, NEW c \in Callers, rec' = rec, NEW pc \in Building \cup Promoting, Goto(c, pc),
         proc'[c].pc = pc /\ On(c)' = On(c) /\ proc'[c].base = proc[c].base => CallerKnows(c)'
  PROVE  Inv'
<1> DEFINE row == [pc |-> pc, on |-> proc[c].on, version |-> proc[c].version, base |-> proc[c].base]
<1>1. proc[c] \in [pc: {"idle"} \cup Building \cup Promoting, on: Workspaces \cup Promotions \cup {None},
                   version: Nat, base: Commits \cup {None}]
  BY Zenon DEF Inv, ProcessTypeOK
<1>2. row \in [pc: {"idle"} \cup Building \cup Promoting, on: Workspaces \cup Promotions \cup {None},
               version: Nat, base: Commits \cup {None}]
  BY <1>1, Zenon
<1>3. [proc[c] EXCEPT !.pc = pc] = row
  BY <1>1
<1>4. proc' = [proc EXCEPT ![c] = row]
  BY <1>3, Zenon DEF Goto
<1>5. proc'[c] = row
  BY <1>4, Zenon DEF Inv, ProcessTypeOK
<1>6. CallerKnows(c)'
  BY <1>5 DEF On
<1> HIDE DEF row
<1> QED
  BY <1>2, <1>4, <1>6, CallerMoves, Zenon

(* A call begins with arguments of its kind. *)
LEMMA Begins ==
  ASSUME Inv, Lawful, NEW c \in Callers, rec' = rec, NEW pc \in Building \cup Promoting,
         NEW on \in Workspaces \cup Promotions, NEW version \in Nat, NEW base \in Commits \cup {None},
         Begin(c, pc, on, version, base),
         proc'[c].pc = pc /\ On(c)' = on /\ proc'[c].base = base => CallerKnows(c)'
  PROVE  Inv'
<1> DEFINE row == [pc |-> pc, on |-> on, version |-> version, base |-> base]
<1>1. row \in [pc: {"idle"} \cup Building \cup Promoting, on: Workspaces \cup Promotions \cup {None},
               version: Nat, base: Commits \cup {None}]
  BY Zenon
<1>2. proc' = [proc EXCEPT ![c] = row]
  BY Zenon DEF Begin
<1>3. proc'[c] = row
  BY <1>2, Zenon DEF Inv, ProcessTypeOK
<1>4. CallerKnows(c)'
  BY <1>3 DEF On
<1> HIDE DEF row
<1> QED
  BY <1>1, <1>2, <1>4, CallerMoves, Zenon

(* CreateWorkspace, SealWorkspace and CleanupWorkspace begin. *)
LEMMA BeginSteps ==
  ASSUME Inv, NEW c \in Callers, NEW w \in Workspaces,
         CheckBase(c, w) \/ BeginSeal(c, w) \/ StartCleanup(c, w)
  PROVE  [StoreNext]_storeVars /\ Inv'
<1>1. [StoreNext]_storeVars
  BY Zenon DEF CheckBase, BeginSeal, StartCleanup, StoreNext, WorkspaceStep
<1>2. rec' = rec /\ history' = history /\ stored' = stored /\ promotion' = promotion
  BY Zenon DEF CheckBase, BeginSeal, StartCleanup, BeginCleanup, storeVars, diskVars
<1>3. Lawful
  BY <1>1, <1>2, LawfulStoreStep, Zenon DEF Inv, DiskTypeOK
<1>4. CASE CheckBase(c, w)
  <2>1. ReadTarget \in Commits
    BY SMTT(30) DEF Inv, DiskTypeOK, ReadTarget
  <2>2. proc'[c].pc = "provision" /\ On(c)' = w /\ proc'[c].base = ReadTarget => CallerKnows(c)'
    BY <2>1, Zenon DEF CallerKnows, Building, Promoting
  <2> QED
    BY <1>1, <1>2, <1>3, <1>4, <2>1, <2>2, Begins, Zenon DEF CheckBase, Building
<1>5. CASE BeginSeal(c, w)
  <2>1. workspace[w].version \in Nat
    BY Zenon DEF Inv, StoreInv, StoreTypeOK
  <2>2. proc'[c].pc = "commit" /\ On(c)' = w /\ proc'[c].base = None => CallerKnows(c)'
    BY Zenon DEF CallerKnows, Building, Promoting
  <2> QED
    BY <1>1, <1>2, <1>3, <1>5, <2>1, <2>2, Begins, Zenon DEF BeginSeal, Building
<1>6. CASE StartCleanup(c, w)
  <2>1. proc'[c].pc = "remove" /\ On(c)' = w /\ proc'[c].base = None => CallerKnows(c)'
    BY Zenon DEF CallerKnows, Building, Promoting
  <2> QED
    BY <1>1, <1>2, <1>3, <1>6, <2>1, Begins, Zenon DEF StartCleanup, Building
<1> QED
  BY <1>1, <1>4, <1>5, <1>6, Zenon

(* The steps of those operations that follow their first. *)
LEMMA BuildSteps ==
  ASSUME Inv, NEW c \in Callers,
         \/ Provision(c) \/ AddWorktree(c) \/ AddWorktreeFails(c) \/ Activate(c)
         \/ SealWorktree(c) \/ PutArtifacts(c) \/ Seal(c)
         \/ RemoveWorktree(c) \/ FinishCleanup(c)
  PROVE  [StoreNext]_storeVars /\ Inv'
<1>0. proc[c].pc \in Building /\ On(c) \in Workspaces /\ proc[c].version \in Nat
  <2>1. proc[c].pc \in Building
    BY Zenon DEF Provision, AddWorktree, AddWorktreeFails, Activate, SealWorktree, PutArtifacts, Seal,
           RemoveWorktree, FinishCleanup, At, Building
  <2> QED
    BY <2>1, Zenon DEF Inv, CallerKnows, ProcessTypeOK
<1>1. ASSUME [StoreNext]_storeVars, history' = history, stored \subseteq stored', stored' \subseteq Workspaces,
             promotion' = promotion, rec' = rec, NEW pc \in Building \ {"provision"}, Goto(c, pc)
      PROVE  [StoreNext]_storeVars /\ Inv'
  <2>1. Lawful
    BY <1>1, LawfulStoreStep, Zenon
  <2>2. proc'[c].pc = pc /\ On(c)' = On(c) /\ proc'[c].base = proc[c].base => CallerKnows(c)'
    BY <1>0, Zenon DEF CallerKnows, Building, Promoting
  <2> QED
    BY <1>1, <2>1, <2>2, Continues, Zenon
<1>2. ASSUME [StoreNext]_storeVars, history' = history, stored' = stored,
             promotion' = promotion, rec' = rec, Return(c)
      PROVE  [StoreNext]_storeVars /\ Inv'
  <2>1. Lawful
    BY <1>2, LawfulStoreStep, Zenon DEF Inv, DiskTypeOK
  <2> QED
    BY <1>2, <2>1, Returns, Zenon
<1>3. CASE Provision(c)
  <2>1. proc[c].base \in Commits
    BY <1>3, Zenon DEF Provision, At, Inv, CallerKnows
  <2>2. [StoreNext]_storeVars /\ history' = history /\ stored' = stored /\ promotion' = promotion /\ rec' = rec
    BY <1>0, <1>3, <2>1, Zenon DEF Provision, StoreNext, WorkspaceStep, CreateProvisioning, diskVars
  <2>3. Lawful
    BY <2>2, LawfulStoreStep, Zenon DEF Inv, DiskTypeOK
  <2> DEFINE row == [pc |-> "worktree", on |-> proc[c].on, version |-> 2, base |-> proc[c].base]
  <2>4. proc[c] \in [pc: {"idle"} \cup Building \cup Promoting, on: Workspaces \cup Promotions \cup {None},
                     version: Nat, base: Commits \cup {None}]
    BY Zenon DEF Inv, ProcessTypeOK
  <2>5. row \in [pc: {"idle"} \cup Building \cup Promoting, on: Workspaces \cup Promotions \cup {None},
                 version: Nat, base: Commits \cup {None}]
    BY <2>4, Zenon DEF Building
  <2>6. proc' = [proc EXCEPT ![c] = row]
    BY <1>3, Zenon DEF Provision
  <2>7. proc'[c] = row
    BY <2>6, Zenon DEF Inv, ProcessTypeOK
  <2>8. CallerKnows(c)'
    <3>0. row.pc = "worktree" /\ row.on = On(c)
      BY Zenon DEF On
    <3> HIDE DEF row
    <3>1. proc'[c].pc = "worktree" /\ proc'[c].on \in Workspaces
      BY <1>0, <2>7, <3>0, Zenon
    <3>2. proc'[c].pc \notin Promoting
      BY <3>1, Zenon DEF Promoting
    <3> QED
      BY <3>1, <3>2, Zenon DEF CallerKnows, On, Promoting
  <2> HIDE DEF row
  <2> QED
    BY <2>2, <2>3, <2>5, <2>6, <2>8, CallerMoves, Zenon
<1>4. CASE AddWorktree(c)
  BY <1>1, <1>4, Zenon DEF AddWorktree, storeVars, Building, Inv, DiskTypeOK
<1>5. CASE AddWorktreeFails(c)
  <2>1. [StoreNext]_storeVars /\ promotion' = promotion
    BY <1>0, <1>5, Zenon DEF AddWorktreeFails, StoreNext, WorkspaceStep, FailWorkspace, storeVars
  <2> QED
    BY <1>2, <1>5, <2>1, Zenon DEF AddWorktreeFails
<1>6. CASE Activate(c)
  <2>1. [StoreNext]_storeVars /\ promotion' = promotion
    BY <1>0, <1>6, Zenon DEF Activate, StoreNext, WorkspaceStep, ActivateWorkspace
  <2> QED
    BY <1>2, <1>6, <2>1, Zenon DEF Activate, diskVars
<1>7. CASE SealWorktree(c)
  BY <1>1, <1>7, Zenon DEF SealWorktree, storeVars, Building, Inv, DiskTypeOK
<1>8. CASE PutArtifacts(c)
  BY <1>0, <1>1, <1>8, Zenon DEF PutArtifacts, storeVars, Building, Inv, DiskTypeOK
<1>9. CASE Seal(c)
  <2>1. [StoreNext]_storeVars /\ promotion' = promotion
    BY <1>0, <1>9, Zenon DEF Seal, StoreNext, WorkspaceStep, SealWorkspace
  <2> QED
    BY <1>2, <1>9, <2>1, Zenon DEF Seal, diskVars
<1>10. CASE RemoveWorktree(c)
  BY <1>1, <1>10, Zenon DEF RemoveWorktree, storeVars, Building, Inv, DiskTypeOK
<1>11. CASE FinishCleanup(c)
  <2>1. [StoreNext]_storeVars /\ promotion' = promotion
    BY <1>0, <1>11, Zenon DEF FinishCleanup, StoreNext, WorkspaceStep, CompleteCleanup
  <2> QED
    BY <1>2, <1>11, <2>1, Zenon DEF FinishCleanup, diskVars
<1> QED
  BY <1>3, <1>4, <1>5, <1>6, <1>7, <1>8, <1>9, <1>10, <1>11, Zenon

(* ApplyPromotion and giving up.  Only the swap moves the target, and it   *)
(* moves it from the base of the candidate.                                *)
LEMMA ApplySteps ==
  ASSUME Inv, NEW c \in Callers,
         \/ \E p \in Promotions : VerifyPromotion(c, p)
         \/ PromoteRef(c) \/ UpdateRef(c) \/ RecordOutcome(c) \/ Stop(c)
  PROVE  [StoreNext]_storeVars /\ Inv'
<1>0. ASSUME proc[c].pc \in Promoting
      PROVE  /\ On(c) \in Promotions /\ Backed(On(c))
             /\ CandidateOf(On(c)) \in stored /\ CandidateOf(On(c)) \in Workspaces
  BY <1>0, Zenon DEF Inv, CallerKnows, DiskTypeOK
<1>1. ASSUME UNCHANGED <<storeVars, history, stored>>
      PROVE  [StoreNext]_storeVars /\ Lawful
  BY <1>1, LawfulStoreStep, Zenon DEF Inv, DiskTypeOK, storeVars
<1>2. ASSUME NEW p \in Promotions, VerifyPromotion(c, p)
      PROVE  [StoreNext]_storeVars /\ Inv'
  <2>1. [StoreNext]_storeVars /\ Lawful /\ rec' = rec
    BY <1>1, <1>2, Zenon DEF VerifyPromotion, diskVars
  <2>2. Backed(p) /\ promotion[p].of \in stored /\ UNCHANGED <<storeVars, stored>>
    BY <1>2, Zenon DEF VerifyPromotion, GetPromotionApplyContext, Inv, StoreInv, ApprovedIsBacked, diskVars
  <2>3. proc'[c].pc = "promote" /\ On(c)' = p /\ proc'[c].base = None => CallerKnows(c)'
    BY <2>2, Zenon DEF CallerKnows, Building, Promoting, CandidateOf, Backed, MayReview, storeVars
  <2> QED
    BY <1>2, <2>1, <2>3, Begins, Zenon DEF VerifyPromotion, Promoting
<1>3. ASSUME NEW pc \in {"applied", "conflicted", "update_ref"}, Goto(c, pc), proc[c].pc \in Promoting,
             UNCHANGED storeVars, stored' = stored, Lawful, rec' = rec,
             pc = "applied" => Reached(CandidateOf(On(c)))'
      PROVE  Inv'
  <2>1. proc'[c].pc = pc /\ On(c)' = On(c) /\ proc'[c].base = proc[c].base => CallerKnows(c)'
    <3> HAVE proc'[c].pc = pc /\ On(c)' = On(c) /\ proc'[c].base = proc[c].base
    <3>1. Backed(On(c))' /\ CandidateOf(On(c))' = CandidateOf(On(c))
      BY <1>0, <1>3, Zenon DEF Backed, MayReview, CandidateOf, storeVars
    <3> QED
      BY <1>0, <1>3, <3>1, Zenon DEF CallerKnows, Building, Promoting
  <2> QED
    BY <1>3, <2>1, Continues, Zenon DEF Promoting
<1>4. ASSUME proc[c].pc \in Promoting
      PROVE  /\ Compare(On(c)) \in {"applied", "conflicted", "update_ref"}
             /\ Compare(On(c)) = "applied" => Reached(CandidateOf(On(c)))
  BY DEF Compare, Reached, ReadTarget, Inv, DiskTypeOK
<1>5. CASE PromoteRef(c)
  <2>1. [StoreNext]_storeVars /\ Lawful /\ rec' = rec /\ proc[c].pc \in Promoting
    BY <1>1, <1>5, Zenon DEF PromoteRef, diskVars, At, Promoting
  <2>2. PICK pc : pc = Compare(On(c))
    BY Zenon
  <2>3. pc = "applied" => Reached(CandidateOf(On(c)))'
    <3> HAVE pc = "applied"
    <3>1. Reached(CandidateOf(On(c)))
      BY <1>4, <2>1, <2>2, Zenon
    <3>2. On(c)' = On(c)
      BY <1>5, Zenon DEF PromoteRef, Goto, On, Inv, ProcessTypeOK
    <3> QED
      BY <1>5, <3>1, <3>2, Zenon DEF PromoteRef, Reached, CandidateOf, storeVars, diskVars
  <2> QED
    BY <1>3, <1>4, <1>5, <2>1, <2>2, <2>3, Zenon DEF PromoteRef, diskVars
<1>6. CASE UpdateRef(c)
  <2>1. /\ proc[c].pc \in Promoting /\ rec' = rec /\ UNCHANGED storeVars /\ stored' = stored
        /\ On(c)' = On(c)
    BY <1>6 DEF UpdateRef, At, Promoting, Goto, On, Inv, ProcessTypeOK
  <2>2. CASE ReadTarget = BaseOf(On(c))
    <3>1. history' = Append(history, CandidateOf(On(c))) /\ Goto(c, "applied")
      BY <1>6, <2>2, Zenon DEF UpdateRef
    <3>2. PICK x \in Commits : x = CandidateOf(On(c))
      BY <1>0, <2>1, CommitsAssumption, Zenon
    <3>3. workspace[x].base = ReadTarget /\ \E p \in Promotions : promotion[p].of = x /\ Backed(p)
      BY <1>0, <2>1, <2>2, <3>2, Zenon DEF BaseOf, CandidateOf
    <3>4. Lawful
      BY <1>0, <2>1, <3>1, <3>2, <3>3, Zenon DEF Lawful, TargetStep, AppliedStep, storeVars, Inv, DiskTypeOK
    <3>5. Reached(x)'
      BY <3>1, <3>2, HistoryGrows DEF Reached, Inv
    <3>6. Reached(CandidateOf(On(c)))'
      BY <2>1, <3>2, <3>5, Zenon DEF Reached, CandidateOf, storeVars
    <3> QED
      BY <1>3, <2>1, <3>1, <3>4, <3>6, Zenon
  <2>3. CASE ReadTarget # BaseOf(On(c))
    <3>1. history' = history /\ Goto(c, Compare(On(c)))
      BY <1>6, <2>3, Zenon DEF UpdateRef
    <3>2. PICK pc : pc = Compare(On(c))
      BY Zenon
    <3>3. pc = "applied" => Reached(CandidateOf(On(c)))'
      BY <1>4, <2>1, <3>1, <3>2, Zenon DEF Reached, CandidateOf, storeVars
    <3> QED
      BY <1>1, <1>3, <1>4, <2>1, <3>1, <3>2, <3>3, Zenon
  <2> QED
    BY <2>1, <2>2, <2>3, Zenon
<1>7. CASE RecordOutcome(c)
  <2>1. PICK p \in Promotions, to \in {"applied", "conflicted"} :
          /\ p = On(c) /\ to = proc[c].pc /\ promotion[p].of \in Workspaces
          /\ to = "applied" => Reached(promotion[p].of)
    BY <1>0, <1>7, Zenon DEF RecordOutcome, Promoting, CandidateOf, Inv, CallerKnows
  <2>2. transitionPromotion(p, to) /\ rec' = rec /\ history' = history /\ stored' = stored
    BY <1>7, <2>1, Zenon DEF RecordOutcome, diskVars
  <2>3. [StoreNext]_storeVars
    BY <2>2, Zenon DEF StoreNext, PromotionStep
  <2>4. AppliedStep
    BY <2>1, <2>2, NoneAssumption DEF AppliedStep, transitionPromotion, Inv, StoreInv, StoreTypeOK
  <2>5. Lawful
    BY <2>2, <2>3, <2>4, LawfulStoreStep, Zenon DEF Inv, DiskTypeOK
  <2> QED
    BY <1>7, <2>2, <2>3, <2>5, Returns, Zenon DEF RecordOutcome
<1>8. CASE Stop(c)
  BY <1>1, <1>8, Returns, Zenon DEF Stop, diskVars
<1> QED
  BY <1>2, <1>5, <1>6, <1>7, <1>8, Zenon

(* A lawful step of the reconciler that leaves it with what it must know. *)
LEMMA ReconcilerMoves ==
  ASSUME Inv, Lawful, proc' = proc,
         rec' \in [pc: Passes, todo: SUBSET (Rows \cup Workspaces \cup Promotions),
                  on: Rows \cup Promotions \cup {None}, found: Trees \cup Promoting],
         ReconcilerKnows'
  PROVE  Inv'
<1>1. \A c \in Callers : CallerKnows(c)'
  BY StillKnown, Zenon
<1>2. ProcessTypeOK'
  BY Zenon DEF Inv, ProcessTypeOK
<1> QED
  BY <1>1, <1>2, LawfulStep, Zenon DEF Inv

(* The steps of a pass.  It records as applied only what it has read on    *)
(* the target.                                                             *)
LEMMA PassReads ==
  ASSUME Inv, UNCHANGED <<storeVars, history, stored, proc>>,
         \/ \E n \in 0..Batch : ListStaleWorkspaces(n)
         \/ \E item \in rec.todo : InspectWorktree(item) /\ tree[item.of] \in Trees
         \/ \E item \in rec.todo : SkipItem(item)
         \/ \E p \in Promotions : ReadTargetOf(p)
         \/ ListWorkspaceKeys \/ Quarantine \/ ListRecoverablePromotions \/ ListCleanupPending
         \/ EndPass \/ AbortPass
  PROVE  Inv'
<1>0. Lawful
  BY LawfulStoreStep, Zenon DEF Inv, DiskTypeOK, storeVars
<1>1. rec \in [pc: Passes, todo: SUBSET (Rows \cup Workspaces \cup Promotions),
              on: Rows \cup Promotions \cup {None}, found: Trees \cup Promoting]
  BY Zenon DEF Inv, ProcessTypeOK
<1>2. ASSUME NEW pc \in Passes \ {"stale", "inspected", "promotions", "read"},
             NEW todo \in SUBSET (Rows \cup Workspaces \cup Promotions),
             rec' = [pc |-> pc, todo |-> todo, on |-> None, found |-> "none"]
      PROVE  Inv'
  <2>1. ReconcilerKnows'
    BY <1>2, Zenon DEF ReconcilerKnows
  <2> QED
    BY <1>0, <1>2, <2>1, ReconcilerMoves, Zenon DEF Trees
<1>11. ASSUME rec.pc \in {"stale", "promotions", "cleanup"}, NEW item, rec' = [rec EXCEPT !.todo = @ \ {item}]
       PROVE  Inv'
  <2>1. rec' = [pc |-> rec.pc, todo |-> rec.todo \ {item}, on |-> rec.on, found |-> rec.found]
    BY <1>1, <1>11, Zenon
  <2>2. rec.pc \notin {"inspected", "read"}
    BY <1>11
  <2>3. ReconcilerKnows'
    BY <2>1, <2>2, Zenon DEF ReconcilerKnows, Inv, storeVars
  <2>4. rec' \in [pc: Passes, todo: SUBSET (Rows \cup Workspaces \cup Promotions),
                  on: Rows \cup Promotions \cup {None}, found: Trees \cup Promoting]
    BY <1>1, <2>1, Zenon
  <2> QED
    BY <1>0, <2>3, <2>4, ReconcilerMoves, Zenon
<1>3. ASSUME NEW n \in 0..Batch, ListStaleWorkspaces(n)
      PROVE  Inv'
  <2> DEFINE todo == {[of |-> w, status |-> workspace[w].status, version |-> workspace[w].version] : w \in Listed(n)}
  <2>0. Listed(n) \subseteq Workspaces
    BY Zenon DEF Listed
  <2>1. todo \subseteq Rows
    BY <2>0 DEF Rows, Inv, StoreInv, StoreTypeOK
  <2>2. rec' = [pc |-> "stale", todo |-> todo, on |-> None, found |-> "none"]
    BY <1>3, Zenon DEF ListStaleWorkspaces, Quiet
  <2> HIDE DEF todo
  <2>3. ReconcilerKnows'
    BY <2>1, <2>2, Zenon DEF ReconcilerKnows
  <2> QED
    BY <1>0, <2>1, <2>2, <2>3, ReconcilerMoves, Zenon DEF Trees, Passes
<1>4. ASSUME NEW item \in rec.todo, InspectWorktree(item), tree[item.of] \in Trees
      PROVE  Inv'
  <2>1. rec.pc = "stale" /\ rec.todo \subseteq Rows
    BY <1>4, Zenon DEF InspectWorktree, Inv, ReconcilerKnows
  <2>2. CASE rec' = [rec EXCEPT !.todo = @ \ {item}]
    BY <1>11, <2>1, <2>2, Zenon
  <2>3. CASE rec' = [pc |-> "inspected", todo |-> rec.todo \ {item}, on |-> item, found |-> tree[item.of]]
    <3>1. ReconcilerKnows'
      BY <2>1, <2>3, Zenon DEF ReconcilerKnows
    <3> QED
      BY <1>0, <1>4, <2>1, <2>3, <3>1, ReconcilerMoves, Zenon DEF Passes
  <2> QED
    BY <1>4, <2>2, <2>3, Zenon DEF InspectWorktree
<1>5. ASSUME NEW p \in Promotions, ReadTargetOf(p)
      PROVE  Inv'
  <2>0. PICK found : found = Compare(p)
    BY Zenon
  <2>1. /\ \A q \in rec.todo : q \in Promotions /\ promotion[q].of # None
        /\ promotion[p].of # None
        /\ rec' = [pc |-> "read", todo |-> rec.todo \ {p}, on |-> p, found |-> found]
    BY <1>5, <2>0, Zenon DEF ReadTargetOf, Inv, ReconcilerKnows
  <2>2. /\ found \in {"applied", "conflicted", "update_ref"}
        /\ found = "applied" => Reached(CandidateOf(p))
    BY <2>0, SMTT(30) DEF Compare, Reached, ReadTarget, Inv, DiskTypeOK
  <2>3. ReconcilerKnows'
    BY <2>1, <2>2, Zenon DEF ReconcilerKnows, Reached, CandidateOf, storeVars
  <2> QED
    BY <1>0, <1>1, <2>1, <2>2, <2>3, ReconcilerMoves, Zenon DEF Passes, Promoting
<1>6. CASE ListRecoverablePromotions
  <2>0. PICK listed : listed = First(Approved, Batch)
    BY Zenon
  <2>1. CASE rec' = [Quiet EXCEPT !.pc = "promotions", !.todo = listed]
    <3>1. rec' = [pc |-> "promotions", todo |-> listed, on |-> None, found |-> "none"]
      BY <2>1, Zenon DEF Quiet
    <3>2. \A p \in listed : p \in Promotions /\ promotion[p].of # None
      BY <2>0, Zenon DEF First, Approved, Inv, StoreInv, PromotionsRooted
    <3>3. ReconcilerKnows'
      BY <3>1, <3>2, Zenon DEF ReconcilerKnows, storeVars
    <3> QED
      BY <1>0, <3>1, <3>2, <3>3, ReconcilerMoves, Zenon DEF Passes, Trees
  <2>2. CASE rec' = Quiet
    BY <1>2, <2>2, Zenon DEF Quiet, Passes
  <2> QED
    BY <1>6, <2>0, <2>1, <2>2, Zenon DEF ListRecoverablePromotions
<1>7. CASE ListWorkspaceKeys
  <2>1. rec' = [pc |-> "known", todo |-> {w \in Workspaces : workspace[w].status # "absent"},
                on |-> None, found |-> "none"]
    BY <1>7, Zenon DEF ListWorkspaceKeys, Quiet
  <2> QED
    BY <1>2, <2>1, Zenon DEF Passes
<1>8. CASE Quarantine
  <2>1. rec' = [pc |-> "listing", todo |-> {}, on |-> None, found |-> "none"]
    BY <1>8, Zenon DEF Quarantine, Quiet
  <2> QED
    BY <1>2, <2>1, Zenon DEF Passes
<1>9. CASE ListCleanupPending
  <2>1. PICK listed \in SUBSET Workspaces :
          rec' = [pc |-> "cleanup", todo |-> listed, on |-> None, found |-> "none"]
    BY <1>9, Zenon DEF ListCleanupPending, Quiet
  <2> QED
    BY <1>2, <2>1, Zenon DEF Passes
<1>10. CASE EndPass \/ AbortPass
  <2>1. rec' = [pc |-> "idle", todo |-> {}, on |-> None, found |-> "none"]
    BY <1>10, Zenon DEF EndPass, AbortPass, Quiet
  <2> QED
    BY <1>2, <2>1, Zenon DEF Passes
<1>12. ASSUME NEW item \in rec.todo, SkipItem(item)
       PROVE  Inv'
  BY <1>11, <1>12, Zenon DEF SkipItem
<1> QED
  BY <1>3, <1>4, <1>5, <1>6, <1>7, <1>8, <1>9, <1>10, <1>12, Zenon

(* The transactions of a pass, whose failures it ignores. *)
LEMMA PassWrites ==
  ASSUME Inv, ResolveStale \/ SettlePromotion \/ \E w \in Workspaces : RecoverCleanup(w)
  PROVE  [StoreNext]_storeVars /\ Inv'
<1>0. UNCHANGED <<history, stored, proc>>
  BY Zenon DEF ResolveStale, SettlePromotion, RecoverCleanup, diskVars
<1>1. rec \in [pc: Passes, todo: SUBSET (Rows \cup Workspaces \cup Promotions),
              on: Rows \cup Promotions \cup {None}, found: Trees \cup Promoting]
  BY Zenon DEF Inv, ProcessTypeOK
<1>2. CASE ResolveStale
  <2>1. PICK w \in Workspaces, version \in Nat : w = rec.on.of /\ version = rec.on.version
    BY <1>2, Zenon DEF ResolveStale, Inv, ReconcilerKnows, Rows
  <2>2. ActivateWorkspace(w, version) \/ FailWorkspace(w) \/ UNCHANGED storeVars
    <3>1. CASE rec.on.status = "provisioning" /\ rec.found = "base"
      BY <1>2, <2>1, <3>1, Zenon DEF ResolveStale, Attempt
    <3>2. CASE rec.on.status = "active" /\ rec.found # "none"
      BY <1>2, <2>1, <3>2, Zenon DEF ResolveStale, Attempt
    <3>3. CASE /\ ~(rec.on.status = "provisioning" /\ rec.found = "base")
               /\ ~(rec.on.status = "active" /\ rec.found # "none")
      BY <1>2, <2>1, <3>3, Zenon DEF ResolveStale, Attempt
    <3> QED
      BY <3>1, <3>2, <3>3, Zenon
  <2>3. [StoreNext]_storeVars /\ promotion' = promotion
    BY <2>2, Zenon DEF StoreNext, WorkspaceStep, ActivateWorkspace, FailWorkspace, storeVars
  <2>4. Lawful
    BY <1>0, <2>3, LawfulStoreStep, Zenon DEF Inv, DiskTypeOK
  <2>5. rec' = [pc |-> "stale", todo |-> rec.todo, on |-> None, found |-> "none"] /\ rec.todo \subseteq Rows
    BY <1>1, <1>2, Zenon DEF ResolveStale, Inv, ReconcilerKnows
  <2>6. ReconcilerKnows'
    BY <2>5, Zenon DEF ReconcilerKnows
  <2> QED
    BY <1>0, <2>3, <2>4, <2>5, <2>6, ReconcilerMoves, Zenon DEF Passes, Trees
<1>3. CASE SettlePromotion
  <2>1. PICK p \in Promotions, to \in {"applied", "update_ref", "conflicted"} :
          /\ p = rec.on /\ to = rec.found /\ promotion[p].of # None
          /\ to = "applied" => Reached(promotion[p].of)
    BY <1>3, Zenon DEF SettlePromotion, Inv, ReconcilerKnows, CandidateOf
  <2>2. (to # "update_ref" /\ transitionPromotion(p, to)) \/ UNCHANGED storeVars
    BY <1>3, <2>1, Zenon DEF SettlePromotion, Attempt
  <2>3. [StoreNext]_storeVars
    BY <2>2, Zenon DEF StoreNext, PromotionStep
  <2>4. AppliedStep
    <3>1. CASE promotion' = promotion
      BY <3>1, Zenon DEF AppliedStep
    <3>2. CASE promotion' = [promotion EXCEPT ![p].status = to]
      BY <2>1, <3>2, Zenon DEF AppliedStep, Inv, StoreInv, StoreTypeOK
    <3> QED
      BY <2>2, <3>1, <3>2, Zenon DEF transitionPromotion, storeVars
  <2>5. Lawful
    BY <1>0, <2>3, <2>4, LawfulStoreStep, Zenon DEF Inv, DiskTypeOK
  <2>6. /\ rec' = [pc |-> "promotions", todo |-> rec.todo, on |-> None, found |-> "none"]
        /\ \A q \in rec.todo : q \in Promotions /\ promotion[q].of # None
    BY <1>1, <1>3, Zenon DEF SettlePromotion, Inv, ReconcilerKnows
  <2>7. \A q \in rec.todo : promotion'[q].of # None
    BY <2>5, <2>6, LawfulStep, Zenon DEF Kept
  <2>8. ReconcilerKnows'
    BY <2>6, <2>7, Zenon DEF ReconcilerKnows
  <2> QED
    BY <1>0, <1>1, <2>3, <2>5, <2>6, <2>8, ReconcilerMoves, Zenon DEF Passes, Trees
<1>4. ASSUME NEW w \in Workspaces, RecoverCleanup(w)
      PROVE  [StoreNext]_storeVars /\ Inv'
  <2>1. CompleteCleanup(w) \/ UNCHANGED storeVars
    BY <1>4, Zenon DEF RecoverCleanup, Attempt
  <2>2. [StoreNext]_storeVars /\ promotion' = promotion
    BY <2>1, Zenon DEF StoreNext, WorkspaceStep, CompleteCleanup, storeVars
  <2>3. Lawful
    BY <1>0, <2>2, LawfulStoreStep, Zenon DEF Inv, DiskTypeOK
  <2>4. rec.pc = "cleanup" /\ rec' = [pc |-> rec.pc, todo |-> rec.todo \ {w}, on |-> rec.on, found |-> rec.found]
    BY <1>1, <1>4, Zenon DEF RecoverCleanup
  <2>5. ReconcilerKnows'
    BY <2>4, Zenon DEF ReconcilerKnows
  <2> QED
    BY <1>0, <1>1, <2>2, <2>3, <2>4, <2>5, ReconcilerMoves, Zenon DEF Passes
<1> QED
  BY <1>2, <1>3, <1>4, Zenon

(* A lawful step of neither process. *)
LEMMA WorldMoves ==
  ASSUME Inv, Lawful, proc' = proc, rec' = rec
  PROVE  Inv'
BY LawfulStep, StillKnown, Zenon DEF Inv, ProcessTypeOK

(* Operations of one transaction, the task engine, the disk and pushes. *)
LEMMA WorldSteps ==
  ASSUME Inv, \/ Call \/ TaskEngine
              \/ \E w \in Workspaces : EditFiles(w) \/ LoseWorktree(w)
              \/ \E f \in Foreign : Push(f)
  PROVE  [StoreNext]_storeVars /\ Inv'
<1>0. proc' = proc /\ rec' = rec /\ stored' = stored
  BY Zenon DEF Call, TaskEngine, EditFiles, LoseWorktree, Push, diskVars
<1>1. CASE Call
  <2>1. history' = history
    BY <1>1, Zenon DEF Call, diskVars
  <2>2. [StoreNext]_storeVars
    BY <1>1, Zenon DEF Call, StoreNext, WorkspaceStep, PromotionStep
  <2>3. AppliedStep
    <3>1. ASSUME NEW w \in Workspaces, AbandonWorkspace(w)
          PROVE  AppliedStep
      BY <3>1, Zenon DEF AbandonWorkspace, AppliedStep
    <3>2. ASSUME NEW w \in Workspaces, NEW gates, NEW reviews, maybeApprovePromotionForWorkspace(w, gates, reviews)
          PROVE  AppliedStep
      <4>1. CASE promotion' = promotion
        BY <4>1, Zenon DEF AppliedStep
      <4>2. CASE promotion' = [p \in Promotions |->
              IF p \in Awaiting(w) THEN [promotion[p] EXCEPT !.status = "approved"] ELSE promotion[p]]
        <5>1. \A p \in Promotions : promotion'[p] = promotion[p] \/ promotion'[p].status = "approved"
          BY <4>2, Zenon DEF Inv, StoreInv, StoreTypeOK
        <5> QED
          BY <5>1, Zenon DEF AppliedStep
      <4> QED
        BY <3>2, <4>1, <4>2, Zenon DEF maybeApprovePromotionForWorkspace
    <3>3. ASSUME NEW w \in Workspaces, NEW outcome \in Outcomes, RecordCheck(w, outcome)
          PROVE  AppliedStep
      <4>1. PICK gates : gates = requirement'[TaskOf[w]]
        BY Zenon
      <4>2. promotion' = promotion \/ maybeApprovePromotionForWorkspace(w, gates, review)
        BY <3>3, <4>1, Zenon DEF RecordCheck
      <4> QED
        BY <3>2, <4>2, Zenon DEF AppliedStep
    <3>4. ASSUME NEW w \in Workspaces, NEW p \in Promotions, RequestPromotion(w, p)
          PROVE  AppliedStep
      BY <3>4, Zenon DEF RequestPromotion, AppliedStep, Inv, StoreInv, StoreTypeOK
    <3>5. ASSUME NEW p \in Promotions, NEW role \in Roles, NEW decision \in {"approve", "reject"},
                 SubmitReview(p, role, decision)
          PROVE  AppliedStep
      <4>1. PICK w, gates, reviews : w = promotion[p].of /\ gates = requirement'[TaskOf[w]] /\ reviews = review'
        BY Zenon
      <4>2. w \in Workspaces
        BY <3>5, <4>1 DEF SubmitReview, Inv, StoreInv, PromotionsRooted, StoreTypeOK
      <4>3. \/ maybeApprovePromotionForWorkspace(w, gates, reviews)
            \/ promotion' = [promotion EXCEPT ![p].status = "rejected"]
        BY <3>5, <4>1, Zenon DEF SubmitReview
      <4>4. CASE promotion' = [promotion EXCEPT ![p].status = "rejected"]
        BY <4>4, Zenon DEF AppliedStep, Inv, StoreInv, StoreTypeOK
      <4> QED
        BY <3>2, <4>2, <4>3, <4>4, Zenon
    <3>6. ASSUME NEW p \in Promotions, transitionPromotion(p, "cancelled")
          PROVE  AppliedStep
      BY <3>6, Zenon DEF transitionPromotion, AppliedStep, Inv, StoreInv, StoreTypeOK
    <3> QED
      BY <1>1, <3>1, <3>3, <3>4, <3>5, <3>6, Zenon DEF Call
  <2>4. Lawful
    BY <1>0, <2>1, <2>2, <2>3, LawfulStoreStep, Zenon DEF Inv, DiskTypeOK
  <2> QED
    BY <1>0, <2>2, <2>4, WorldMoves, Zenon
<1>2. CASE TaskEngine
  <2>1. [StoreNext]_storeVars /\ promotion' = promotion /\ history' = history
    BY <1>2, Zenon DEF TaskEngine, StoreNext, StartAttempt, TaskStep, EndAttempt, Block, Finalize,
                RecordRequirementVerification, diskVars
  <2>2. Lawful
    BY <1>0, <2>1, LawfulStoreStep, Zenon DEF Inv, DiskTypeOK
  <2> QED
    BY <1>0, <2>1, <2>2, WorldMoves, Zenon
<1>3. ASSUME NEW w \in Workspaces, EditFiles(w) \/ LoseWorktree(w)
      PROVE  [StoreNext]_storeVars /\ Inv'
  <2>1. UNCHANGED storeVars /\ history' = history
    BY <1>3, Zenon DEF EditFiles, LoseWorktree
  <2>2. Lawful
    BY <1>0, <2>1, LawfulStoreStep, Zenon DEF Inv, DiskTypeOK, storeVars
  <2> QED
    BY <1>0, <2>1, <2>2, WorldMoves, Zenon
<1>4. ASSUME NEW f \in Foreign, Push(f)
      PROVE  [StoreNext]_storeVars /\ Inv'
  <2>1. UNCHANGED storeVars /\ history' = Append(history, f) /\ f \in Commits /\ f \notin Workspaces
    BY <1>4, CommitsAssumption, Zenon DEF Push
  <2>2. Lawful
    BY <1>0, <2>1, Zenon DEF Lawful, TargetStep, AppliedStep, storeVars, Inv, DiskTypeOK
  <2> QED
    BY <1>0, <2>1, <2>2, WorldMoves, Zenon
<1> QED
  BY <1>1, <1>2, <1>3, <1>4, Zenon

TreeOK == tree \in [Workspaces -> Trees]

(* Worktrees are in one of their states. *)
LEMMA TreeSteps ==
  ASSUME Inv, TreeOK, [Next]_vars
  PROVE  TreeOK'
<1> USE DEF TreeOK
<1>1. ASSUME NEW c \in Callers, CallerStep(c)
      PROVE  TreeOK'
  <2>1. CASE AddWorktreeFails(c)
    <3>1. tree' = tree \/ \E left \in {"partial", "base"} : tree' = [tree EXCEPT ![On(c)] = left]
      BY <2>1, Zenon DEF AddWorktreeFails
    <3> QED
      BY <3>1, Zenon DEF Trees
  <2>2. CASE tree' = tree
    BY <2>2, Zenon
  <2>3. CASE AddWorktree(c) \/ SealWorktree(c) \/ RemoveWorktree(c)
    BY <2>3, Zenon DEF AddWorktree, SealWorktree, RemoveWorktree, Trees
  <2> QED
    BY <1>1, <2>1, <2>2, <2>3, Zenon DEF CallerStep, CheckBase, BeginSeal, StartCleanup, VerifyPromotion, Provision,
       Activate, PutArtifacts, Seal, FinishCleanup, PromoteRef, UpdateRef, RecordOutcome, Stop, diskVars
<1>2. CASE Reconcile
  <2>1. CASE Quarantine
    <3>1. PICK moved : tree' = [w \in Workspaces |-> IF w \in moved THEN "none" ELSE tree[w]]
      BY <2>1, Zenon DEF Quarantine
    <3> QED
      BY <3>1, Zenon DEF Trees
  <2>2. CASE tree' = tree
    BY <2>2, Zenon
  <2> QED
    BY <1>2, <2>1, <2>2, Zenon DEF Reconcile, ListStaleWorkspaces, InspectWorktree, ReadTargetOf, RecoverCleanup,
       ResolveStale, ListWorkspaceKeys, ListRecoverablePromotions, SettlePromotion, ListCleanupPending,
       EndPass, diskVars
<1>3. CASE AbortPass \/ (\E item \in rec.todo : SkipItem(item)) \/ \E o \in Others : OtherWorkspace(o)
  BY <1>3, Zenon DEF AbortPass, SkipItem, OtherWorkspace, diskVars
<1>4. CASE Call \/ TaskEngine \/ \E f \in Foreign : Push(f)
  BY <1>4, Zenon DEF Call, TaskEngine, Push, diskVars
<1>5. ASSUME NEW w \in Workspaces, EditFiles(w) \/ LoseWorktree(w)
      PROVE  TreeOK'
  BY <1>5, Zenon DEF EditFiles, LoseWorktree, Trees
<1>6. CASE UNCHANGED vars
  BY <1>6, Zenon DEF vars, diskVars
<1> QED
  BY <1>1, <1>2, <1>3, <1>4, <1>5, <1>6, Zenon DEF Next, Step, Fault

(* Every step is lawful: it is a transaction of the store or none, and     *)
(* keeps the invariant.                                                    *)
LEMMA EveryStep ==
  ASSUME Inv, TreeOK, [Next]_vars
  PROVE  [StoreNext]_storeVars /\ Inv'
<1>1. ASSUME NEW c \in Callers, CallerStep(c)
      PROVE  [StoreNext]_storeVars /\ Inv'
  BY <1>1, BeginSteps, BuildSteps, ApplySteps, Zenon DEF CallerStep
<1>2. CASE Reconcile \/ AbortPass \/ \E item \in rec.todo : SkipItem(item)
  <2>1. CASE ResolveStale \/ SettlePromotion \/ \E w \in Workspaces : RecoverCleanup(w)
    BY <2>1, PassWrites, Zenon
  <2>2. ASSUME NEW item \in rec.todo, InspectWorktree(item)
        PROVE  tree[item.of] \in Trees
    BY <2>2, Zenon DEF InspectWorktree, Inv, ReconcilerKnows, Rows, TreeOK
  <2>3. CASE \/ \E n \in 0..Batch : ListStaleWorkspaces(n)
             \/ \E item \in rec.todo : InspectWorktree(item)
             \/ \E item \in rec.todo : SkipItem(item)
             \/ \E p \in Promotions : ReadTargetOf(p)
             \/ ListWorkspaceKeys \/ Quarantine \/ ListRecoverablePromotions \/ ListCleanupPending
             \/ EndPass \/ AbortPass
    <3>1. UNCHANGED <<storeVars, history, stored, proc>>
      BY <2>3, Zenon DEF ListStaleWorkspaces, InspectWorktree, ReadTargetOf, ListWorkspaceKeys, Quarantine,
         ListRecoverablePromotions, ListCleanupPending, EndPass, AbortPass, SkipItem, diskVars
    <3> QED
      BY <2>2, <2>3, <3>1, PassReads, Zenon
  <2> QED
    BY <1>2, <2>1, <2>3, Zenon DEF Reconcile
<1>3. CASE \/ Call \/ TaskEngine
           \/ \E w \in Workspaces : EditFiles(w) \/ LoseWorktree(w)
           \/ \E f \in Foreign : Push(f)
  BY <1>3, WorldSteps, Zenon
<1>4. CASE UNCHANGED vars \/ \E o \in Others : OtherWorkspace(o)
  <2>1. UNCHANGED <<storeVars, history, stored>> /\ proc' = proc /\ rec' = rec
    BY <1>4, Zenon DEF vars, diskVars, OtherWorkspace
  <2>2. Lawful
    BY <2>1, LawfulStoreStep, Zenon DEF Inv, DiskTypeOK, storeVars
  <2> QED
    BY <2>1, <2>2, WorldMoves, Zenon
<1> QED
  BY <1>1, <1>2, <1>3, <1>4, Zenon DEF Next, Step, Fault

(* The system starts in its invariant. *)
LEMMA InitInv == Init => StoreInit /\ Inv /\ TreeOK
<1> SUFFICES ASSUME Init PROVE StoreInit /\ Inv /\ TreeOK
  BY Zenon
<1>1. StoreInit /\ StoreInv
  BY StoreInitInv, Zenon DEF Init
<1>2. DiskTypeOK /\ TreeOK
  BY CommitsAssumption, SMTT(30) DEF Init, DiskTypeOK, TreeOK, Trees
<1>3. ProcessTypeOK
  BY Zenon DEF Init, ProcessTypeOK, Idle, Quiet, Passes, Trees
<1>4. (\A c \in Callers : CallerKnows(c)) /\ ReconcilerKnows
  BY Zenon DEF Init, CallerKnows, ReconcilerKnows, Idle, Quiet, Building, Promoting
<1>5. TargetMatchesRecords
  <2>1. \A w \in Workspaces : ~Reached(w)
    <3>1. Len(history) = 1 /\ history[1] = Root
      BY Zenon DEF Init
    <3>2. \A i \in 1..Len(history) : history[i] = Root
      BY <3>1
    <3>3. \A w \in Workspaces : w # Root
      BY CommitsAssumption, Zenon
    <3> QED
      BY <3>2, <3>3, Zenon DEF Reached
  <2> QED
    BY <2>1, Zenon DEF TargetMatchesRecords, Init, StoreInit, NoPromotion
<1>6. NothingPromotedIsLost
  BY DEF Init, NothingPromotedIsLost
<1> QED
  BY <1>1, <1>2, <1>3, <1>4, <1>5, <1>6, Zenon DEF Inv

(* Callers, reconciler, worktrees and crashes together never do to the     *)
(* rows what single transactions in some order could not.                  *)
THEOREM StagingImplementsStore == Spec => StoreSpec
<1>1. Inv /\ TreeOK /\ [Next]_vars => [StoreNext]_storeVars /\ Inv' /\ TreeOK'
  BY EveryStep, TreeSteps, Zenon
<1> QED
  BY InitInv, <1>1, PTL DEF Spec, StoreSpec

(* However callers, reconciler and crashes interleave, every candidate on  *)
(* the target came there through a backed promotion with stored artifacts, *)
(* and only what was on the target is recorded as applied.                 *)
THEOREM TargetAndRecordsAgree == Spec => []TargetMatchesRecords
<1>1. Inv /\ TreeOK /\ [Next]_vars => Inv' /\ TreeOK'
  BY EveryStep, TreeSteps, Zenon
<1>2. Inv => TargetMatchesRecords
  BY Zenon DEF Inv
<1> QED
  BY InitInv, <1>1, <1>2, PTL DEF Spec

(* No promotion replaces a commit other than the one it was built on,      *)
(* whatever races it: another promotion, a retry or a push.                *)
THEOREM PromotionsExtendTheTarget == Spec => []NothingPromotedIsLost
<1>1. Inv /\ TreeOK /\ [Next]_vars => Inv' /\ TreeOK'
  BY EveryStep, TreeSteps, Zenon
<1>2. Inv => NothingPromotedIsLost
  BY Zenon DEF Inv
<1> QED
  BY InitInv, <1>1, <1>2, PTL DEF Spec

(* What holds of the rows alone holds of the whole.                        *)
THEOREM StagingApprovalRestsOnItsGates == Spec => []ApprovedIsBacked
BY StagingImplementsStore, ApprovalRestsOnItsGates, PTL
=============================================================================
