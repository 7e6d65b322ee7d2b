-------------------------- MODULE TaskEngineProofs --------------------------
(***************************************************************************)
(* Safety of the task engine for every set of tasks, number of attempts    *)
(* and lease length: types, leases and the dependency graph.               *)
(***************************************************************************)
EXTENDS TaskEngine, DependencyGraphProofs

USE TasksAssumption, ParentAssumption, MaxAttemptsAssumption, LeaseTicksAssumption,
    BlockReasonsAssumption, EdgesAssumption

(* The empty database has well-typed columns. *)
LEMMA InitType == Init => TypeOK
BY DEF Init, TypeOK, Ordinals, Status, NonTerminal, Reason, NoReason, RequirementStatus, AttemptState, LeaseStatus

(* A row inserted by createInTx is well typed. *)
LEMMA CreateType ==
  ASSUME TypeOK, NEW t \in Tasks, NEW i \in CreateInputs(t),
         createInTx(t, i.D, i.R, i.held, i.scheduled, i.isDue),
         deadLetters' = deadLetters, successor' \in [Tasks -> Tasks \cup {None}]
  PROVE  TypeOK'
BY Zenon DEF TypeOK, CreateInputs, createInTx, prepareCreate, leaseVars, Status, NonTerminal, Reason, BlockedReason, NoReason, RequirementStatus

(* Closing a lease with its attempt keeps both columns in their types. *)
LEMMA CloseLeaseType ==
  ASSUME TypeOK, NEW t \in Tasks, NEW n \in Ordinals, NEW l \in LeaseStatus, NEW a \in AttemptState,
         CloseLease(t, n, l, a)
  PROVE  /\ lease' \in [Tasks -> [Ordinals -> LeaseStatus]]
         /\ attempt' \in [Tasks -> [Ordinals -> AttemptState]]
         /\ attemptCount' = attemptCount
         /\ ttl' = ttl
BY DEF TypeOK, CloseLease

(* So does revoking the active lease, if there is one (Block, Cancel,      *)
(* Finalize).                                                              *)
LEMMA RevokeType ==
  ASSUME TypeOK, NEW t \in Tasks, revokeActiveLease(t)
  PROVE  /\ lease' \in [Tasks -> [Ordinals -> LeaseStatus]]
         /\ attempt' \in [Tasks -> [Ordinals -> AttemptState]]
         /\ attemptCount' = attemptCount
         /\ ttl' = ttl
<1>1. "revoked" \in LeaseStatus /\ "cancelled" \in AttemptState
  BY Zenon DEF LeaseStatus, AttemptState
<1> QED
  BY <1>1, CloseLeaseType, Zenon DEF revokeActiveLease, TypeOK, leaseVars

(* The operations of owners, operators and the verifier keep the types. *)
LEMMA OwnerType ==
  ASSUME TypeOK, NEW t \in Tasks, Owner(t)
  PROVE  TypeOK'
<1> USE DEF leaseVars, recoveryVars
<1>1. CASE CreateTask(t)
  BY <1>1, CreateType, Zenon DEF TypeOK, CreateTask
<1>2. ASSUME NEW s \in Tasks, Redrive(t, s) PROVE TypeOK'
  BY <1>2, CreateType, Zenon DEF TypeOK, Redrive
<1>3. ASSUME NEW d \in Tasks, AddDependency(t, d) PROVE TypeOK'
  BY <1>3, Zenon DEF TypeOK, AddDependency, AddEdge, transitionTask, Status, NonTerminal, Reason, BlockedReason, Reconcilable
<1>4. ASSUME NEW r \in Reqs, AddRequirement(t, r) PROVE TypeOK'
  BY <1>4, Zenon DEF TypeOK, AddRequirement, RequirementStatus
<1>5. ASSUME NEW r \in Reqs, RecordEvidence(t, r) PROVE TypeOK'
  BY <1>5, Zenon DEF TypeOK, RecordEvidence, RequirementStatus
<1>6. ASSUME NEW r \in Reqs, NEW v \in {"satisfied", "failed"}, RecordRequirementVerification(t, r, v) PROVE TypeOK'
  BY <1>6, Zenon DEF TypeOK, RecordRequirementVerification, RequirementStatus
<1>7. ASSUME NEW o \in Terminal \ {"dead_letter"}, Finalize(t, o) PROVE TypeOK'
  BY <1>7, RevokeType, Zenon DEF TypeOK, Finalize, transitionTask, Status, Reason
<1>8. ASSUME NEW w \in BlockReasons, NEW v \in BOOLEAN, Block(t, w, v) PROVE TypeOK'
  BY <1>8, RevokeType, Zenon DEF TypeOK, Block, transitionTask, Status, NonTerminal, Reason
<1>9. CASE Unblock(t)
  BY <1>9, Zenon DEF TypeOK, Unblock, transitionTask, releaseTargetStatus, Status, NonTerminal, Reason, NoReason
<1>10. CASE ReleaseCoordinationHold(t)
  BY <1>10, Zenon DEF TypeOK, ReleaseCoordinationHold, transitionTask, releaseTargetStatus, Status, NonTerminal, Reason, NoReason
<1>11. CASE Cancel(t)
  BY <1>11, RevokeType, Zenon DEF TypeOK, Cancel, transitionTask, Status, Terminal, Reason
<1> QED
  BY <1>1, <1>2, <1>3, <1>4, <1>5, <1>6, <1>7, <1>8, <1>9, <1>10, <1>11, Zenon DEF Owner

(* Sending a task to retry_wait or to the dead letters keeps the types. *)
LEMMA RetryType ==
  ASSUME TypeOK, NEW t \in Tasks, RetryOrDeadLetter(t)
  PROVE  /\ status' \in [Tasks -> Status]
         /\ reason' \in [Tasks -> Reason]
         /\ due' \in [Tasks -> BOOLEAN]
         /\ deadLetters' \in SUBSET Tasks
         /\ successor' = successor
<1>1. CASE attemptCount[t] >= MaxAttempts
  <2>1. /\ deadLetters' = deadLetters \cup {t}
        /\ transitionTask(t, "dead_letter", NoReason)
        /\ UNCHANGED <<due, successor>>
    BY <1>1, Zenon DEF RetryOrDeadLetter
  <2> QED
    BY <2>1, Zenon DEF TypeOK, transitionTask, Status, Terminal, Reason
<1>2. CASE ~(attemptCount[t] >= MaxAttempts)
  BY <1>2, Zenon DEF TypeOK, RetryOrDeadLetter, transitionTask, recoveryVars, Status, NonTerminal, Reason
<1> QED
  BY <1>1, <1>2, Zenon

(* Recording the result of an attempt keeps the types, whatever the        *)
(* outcome.                                                                *)
LEMMA ResultType ==
  ASSUME TypeOK, NEW t \in Tasks, NEW n \in Ordinals, RecordAttemptResult(t, n)
  PROVE  TypeOK'
<1> USE DEF leaseVars, recoveryVars
<1>1. "released" \in LeaseStatus /\ "finished" \in AttemptState /\ "failed" \in AttemptState /\ "cancelled" \in AttemptState
  BY Zenon DEF LeaseStatus, AttemptState
<1>2. /\ lease' \in [Tasks -> [Ordinals -> LeaseStatus]]
      /\ attempt' \in [Tasks -> [Ordinals -> AttemptState]]
      /\ attemptCount' = attemptCount
      /\ ttl' = ttl
      /\ UNCHANGED <<deps, req>>
  BY <1>1, CloseLeaseType, Zenon DEF RecordAttemptResult, finishAttempt
<1>3. /\ status' \in [Tasks -> Status]
      /\ reason' \in [Tasks -> Reason]
      /\ due' \in [Tasks -> BOOLEAN]
      /\ deadLetters' \in SUBSET Tasks
      /\ successor' = successor
  BY RetryType, Zenon DEF TypeOK, RecordAttemptResult, transitionTask, Status, NonTerminal, Terminal, Reason, NoReason
<1> QED
  BY <1>2, <1>3, Zenon DEF TypeOK

(* The operations of workers keep the types; attempt_count stays within    *)
(* its limit because a candidate has an attempt left.                      *)
LEMMA WorkerType ==
  ASSUME TypeOK, NEW t \in Tasks, Worker(t)
  PROVE  TypeOK'
<1> USE DEF leaseVars, recoveryVars
<1>1. CASE Claim(t)
  <2>1. CASE claimOne(t)
    BY <1>1, <2>1 DEF TypeOK, Claim, ClaimCandidate, claimOne, Ordinals, transitionTask, Status, NonTerminal, Reason, NoReason, AttemptState, LeaseStatus
  <2>2. CASE ~claimOne(t)
    BY <1>1, <2>2, ZenonT(40) DEF TypeOK, Claim, transitionTask, Status, NonTerminal, Reason, BlockedReason, Reconcilable
  <2> QED
    BY <2>1, <2>2, Zenon
<1>2. ASSUME NEW n \in Ordinals, StartAttempt(t, n) PROVE TypeOK'
  BY <1>2, Zenon DEF TypeOK, StartAttempt, transitionTask, Status, NonTerminal, Reason, NoReason, AttemptState
<1>3. ASSUME NEW n \in Ordinals, Heartbeat(t, n) PROVE TypeOK'
  BY <1>3 DEF TypeOK, Heartbeat
<1> QED
  BY <1>1, <1>2, <1>3, ResultType, Zenon DEF Worker

(* The reconciler keeps the types. *)
LEMMA ReconcileType ==
  ASSUME TypeOK, NEW t \in Tasks, Reconcile(t)
  PROVE  TypeOK'
<1> USE DEF leaseVars, recoveryVars
<1>1. ASSUME NEW n \in Ordinals, reconcileExpiredLease(t, n) PROVE TypeOK'
  <2>1. "expired" \in LeaseStatus /\ "lease_expired" \in AttemptState
    BY Zenon DEF LeaseStatus, AttemptState
  <2> QED
    BY <1>1, <2>1, CloseLeaseType, RetryType, Zenon DEF TypeOK, reconcileExpiredLease
<1>2. CASE reconcileTaskReadiness(t)
  <2>1. status' \in [Tasks -> Status] /\ reason' \in [Tasks -> Reason]
    BY <1>2, Zenon DEF TypeOK, reconcileTaskReadiness, BlockFor, transitionTask, Status, NonTerminal, Reason, BlockedReason, Reconcilable
  <2>2. due' \in [Tasks -> BOOLEAN]
    BY <1>2, Zenon DEF TypeOK, reconcileTaskReadiness
  <2> QED
    BY <1>2, <2>1, <2>2, Zenon DEF TypeOK, reconcileTaskReadiness
<1> QED
  BY <1>1, <1>2, Zenon DEF Reconcile

(* Every step of the engine leaves every column in its type. *)
LEMMA NextType == TypeOK /\ [Next]_vars => TypeOK'
<1> SUFFICES ASSUME TypeOK, [Next]_vars PROVE TypeOK'
  BY Zenon
<1>1. CASE UNCHANGED vars
  BY <1>1, Zenon DEF vars, leaseVars, recoveryVars, TypeOK
<1>2. ASSUME NEW t \in Tasks, LeaseTick(t) PROVE TypeOK'
  BY <1>2 DEF TypeOK, LeaseTick, recoveryVars
<1>3. ASSUME NEW t \in Tasks, BecomesDue(t) PROVE TypeOK'
  BY <1>3, Zenon DEF TypeOK, BecomesDue, leaseVars, recoveryVars
<1> QED
  BY <1>1, <1>2, <1>3, OwnerType, WorkerType, ReconcileType, Zenon DEF Next

(* The columns of the engine keep their types in every behaviour. *)
THEOREM TypeCorrect == Spec => []TypeOK
BY InitType, NextType, PTL DEF Spec

-----------------------------------------------------------------------------
(* Leases.  Both facts are about one task at a time, and a step touches    *)
(* the lease of at most one task, in one of four ways: not at all, closing *)
(* it, opening it, or starting its attempt.                                *)

LeaseInv == LeaseCoherent /\ AttemptsContiguous

(* A step that touches no lease preserves LeaseInv if the one task it      *)
(* moves is not in flight before or after.                                 *)
LEMMA IdleStep ==
  ASSUME TypeOK, LeaseInv, NEW t \in Tasks,
         UNCHANGED <<attemptCount, attempt, lease>>,
         \A u \in Tasks : u # t => status'[u] = status[u],
         status'[t] = status[t] \/ (status[t] \notin InFlight /\ status'[t] \notin InFlight)
  PROVE  LeaseInv'
BY DEF LeaseInv, LeaseCoherent, AttemptsContiguous, HasActiveLease, InFlight

(* A step that touches neither leases nor statuses preserves LeaseInv. *)
LEMMA SameLease ==
  ASSUME LeaseInv, UNCHANGED <<status, attemptCount, attempt, lease>>
  PROVE  LeaseInv'
BY DEF LeaseInv, LeaseCoherent, AttemptsContiguous, HasActiveLease

(* A step that closes the active lease of a task with its attempt, and     *)
(* takes the task out of flight, preserves LeaseInv.                       *)
LEMMA CloseStep ==
  ASSUME TypeOK, LeaseInv, NEW t \in Tasks, NEW n \in Ordinals, NEW l \in {"released", "revoked", "expired"},
         NEW a \in {"finished", "failed", "cancelled", "lease_expired"}, NEW s \in Status \ InFlight,
         lease[t][n] = "active", CloseLease(t, n, l, a), status' = [status EXCEPT ![t] = s]
  PROVE  LeaseInv'
<1>1. /\ status[t] \in InFlight /\ n = attemptCount[t] /\ attempt[t][n] = status[t]
      /\ \A m \in Ordinals : lease[t][m] = "active" => m = n
  BY DEF LeaseInv, LeaseCoherent
<1>2. /\ \A m \in Ordinals : m # n => lease'[t][m] = lease[t][m] /\ attempt'[t][m] = attempt[t][m]
      /\ lease'[t][n] = l /\ attempt'[t][n] = a
      /\ \A u \in Tasks : u # t => lease'[u] = lease[u] /\ attempt'[u] = attempt[u] /\ status'[u] = status[u]
      /\ attemptCount' = attemptCount /\ status'[t] = s
  BY <1>1, Zenon DEF CloseLease, TypeOK
<1>3. LeaseCoherent'
  BY <1>1, <1>2 DEF LeaseInv, LeaseCoherent, HasActiveLease
<1>4. AttemptsContiguous'
  BY <1>1, <1>2 DEF LeaseInv, AttemptsContiguous, InFlight
<1> QED
  BY <1>3, <1>4, Zenon DEF LeaseInv

(* claimOne preserves LeaseInv: a ready task has no active lease, and the  *)
(* new attempt is the latest one.                                          *)
LEMMA OpenStep ==
  ASSUME TypeOK, LeaseInv, NEW t \in Tasks, ClaimCandidate(t), claimOne(t)
  PROVE  LeaseInv'
<1> DEFINE n == attemptCount[t] + 1
<1>1. n \in Ordinals /\ status[t] = "ready" /\ attemptCount[t] \in Nat /\ MaxAttempts \in Nat
  BY DEF ClaimCandidate, TypeOK, Ordinals
<1>2. \A m \in Ordinals : lease[t][m] # "active"
  BY <1>1, Zenon DEF LeaseInv, LeaseCoherent, InFlight
<1>3. /\ \A m \in Ordinals : m # n => lease'[t][m] = lease[t][m] /\ attempt'[t][m] = attempt[t][m]
      /\ lease'[t][n] = "active" /\ attempt'[t][n] = "leased" /\ attemptCount'[t] = n /\ status'[t] = "leased"
      /\ \A u \in Tasks : u # t => /\ lease'[u] = lease[u] /\ attempt'[u] = attempt[u]
                                   /\ status'[u] = status[u] /\ attemptCount'[u] = attemptCount[u]
  BY <1>1 DEF claimOne, transitionTask, TypeOK
<1>4. LeaseCoherent'
  BY <1>1, <1>2, <1>3 DEF LeaseInv, LeaseCoherent, HasActiveLease, InFlight
<1>5. AttemptsContiguous'
  <2> SUFFICES ASSUME NEW u \in Tasks, NEW m \in Ordinals
               PROVE  /\ attempt'[u][m] = "none" <=> m > attemptCount'[u]
                      /\ attempt'[u][m] \in InFlight => m = attemptCount'[u] /\ status'[u] = attempt'[u][m]
    BY Zenon DEF AttemptsContiguous
  <2>1. CASE u # t
    BY <1>3, <2>1 DEF LeaseInv, AttemptsContiguous
  <2>2. CASE u = t /\ m # n
    BY <1>1, <1>3, <2>2 DEF LeaseInv, AttemptsContiguous, Ordinals, InFlight
  <2>3. CASE u = t /\ m = n
    BY <1>1, <1>3, <2>3 DEF InFlight, Ordinals
  <2> QED
    BY <2>1, <2>2, <2>3, Zenon
<1> QED
  BY <1>4, <1>5, Zenon DEF LeaseInv

(* StartAttempt preserves LeaseInv: the task and the attempt that holds    *)
(* its lease start running together.                                       *)
LEMMA StartStep ==
  ASSUME TypeOK, LeaseInv, NEW t \in Tasks, NEW n \in Ordinals, StartAttempt(t, n)
  PROVE  LeaseInv'
<1>1. lease[t][n] = "active" /\ status[t] = "leased" /\ n = attemptCount[t]
  BY Zenon DEF StartAttempt, verifyLease, LeaseInv, LeaseCoherent
<1>2. /\ \A m \in Ordinals : m # n => attempt'[t][m] = attempt[t][m]
      /\ attempt'[t][n] = "running" /\ status'[t] = "running"
      /\ \A u \in Tasks : u # t => attempt'[u] = attempt[u] /\ status'[u] = status[u]
      /\ lease' = lease /\ attemptCount' = attemptCount
  BY Zenon DEF StartAttempt, transitionTask, TypeOK
<1>3. LeaseCoherent'
  BY <1>1, <1>2 DEF LeaseInv, LeaseCoherent, HasActiveLease, InFlight
<1>4. AttemptsContiguous'
  <2> SUFFICES ASSUME NEW u \in Tasks, NEW m \in Ordinals
               PROVE  /\ attempt'[u][m] = "none" <=> m > attemptCount[u]
                      /\ attempt'[u][m] \in InFlight => m = attemptCount[u] /\ status'[u] = attempt'[u][m]
    BY <1>2 DEF AttemptsContiguous
  <2>1. CASE u # t
    BY <1>2, <2>1 DEF LeaseInv, AttemptsContiguous
  <2>2. CASE u = t /\ m # n
    BY <1>1, <1>2, <2>2 DEF LeaseInv, AttemptsContiguous
  <2>3. CASE u = t /\ m = n
    BY <1>1, <1>2, <2>3 DEF InFlight, Ordinals
  <2> QED
    BY <2>1, <2>2, <2>3, Zenon
<1> QED
  BY <1>3, <1>4, Zenon DEF LeaseInv

(* Revoking the active lease, if any, while the task leaves flight         *)
(* preserves LeaseInv (Block, Cancel, Finalize).                           *)
LEMMA RevokeStep ==
  ASSUME TypeOK, LeaseInv, NEW t \in Tasks, NEW s \in Status \ InFlight,
         revokeActiveLease(t), status' = [status EXCEPT ![t] = s]
  PROVE  LeaseInv'
<1>1. CASE HasActiveLease(t)
  <2>1. PICK n \in Ordinals : lease[t][n] = "active" /\ CloseLease(t, n, "revoked", "cancelled")
    BY <1>1, Zenon DEF revokeActiveLease
  <2> QED
    BY <2>1, CloseStep, Zenon
<1>2. CASE ~HasActiveLease(t)
  <2>1. UNCHANGED leaseVars
    BY <1>2, Zenon DEF revokeActiveLease, HasActiveLease
  <2>2. status[t] \notin InFlight
    BY <1>2, Zenon DEF LeaseInv, LeaseCoherent
  <2> QED
    BY <2>1, <2>2, IdleStep, Zenon DEF leaseVars, TypeOK
<1> QED
  BY <1>1, <1>2, Zenon

(* The operations of owners, operators and the verifier preserve LeaseInv. *)
LEMMA OwnerLease ==
  ASSUME TypeOK, LeaseInv, NEW t \in Tasks, Owner(t)
  PROVE  LeaseInv'
<1> USE DEF leaseVars, recoveryVars
<1>1. ASSUME NEW s \in Tasks, NEW i \in CreateInputs(s), createInTx(s, i.D, i.R, i.held, i.scheduled, i.isDue)
      PROVE  LeaseInv'
  BY <1>1, IdleStep, Zenon DEF createInTx, Exists, prepareCreate, InFlight, TypeOK
<1>2. CASE CreateTask(t) \/ \E s \in Tasks : Redrive(t, s)
  BY <1>1, <1>2, Zenon DEF CreateTask, Redrive
<1>3. ASSUME NEW d \in Tasks, AddDependency(t, d) PROVE LeaseInv'
  BY <1>3, IdleStep, Zenon DEF AddDependency, transitionTask, InFlight, TypeOK
<1>4. ASSUME UNCHANGED <<status, leaseVars>> PROVE LeaseInv'
  BY <1>4, SameLease, Zenon
<1>5. ASSUME NEW o \in Terminal \ {"dead_letter"}, Finalize(t, o) PROVE LeaseInv'
  <2>1. o \in Status \ InFlight /\ status' = [status EXCEPT ![t] = o] /\ CanTransition(status[t], o)
    BY <1>5, Zenon DEF Finalize, transitionTask, Status, Terminal, InFlight
  <2>2. CASE o = "cancelled"
    BY <1>5, <2>1, <2>2, RevokeStep, Zenon DEF Finalize
  <2>3. CASE o # "cancelled"
    <3>1. status[t] \notin InFlight
      <4>1. o \in {"completed", "no_action", "failed"} \/ o = "rejected"
        BY <2>3, Zenon DEF Terminal
      <4>2. o # "rejected" => status[t] = "awaiting_verification"
        BY <1>5, <4>1, Zenon DEF Finalize, FinalizeRequirement
      <4>3. "rejected" \notin allowedTransitions["leased"] \cup allowedTransitions["running"]
        BY Zenon DEF allowedTransitions
      <4>4. o = "rejected" => status[t] \notin {"leased", "running"}
        BY <2>1, <4>3, Zenon DEF CanTransition
      <4> QED
        BY <4>2, <4>4, Zenon DEF InFlight
    <3> QED
      BY <1>5, <2>1, <2>3, <3>1, IdleStep, Zenon DEF Finalize, TypeOK
  <2> QED
    BY <2>2, <2>3, Zenon
<1>6. ASSUME NEW w \in BlockReasons, NEW v \in BOOLEAN, Block(t, w, v) PROVE LeaseInv'
  BY <1>6, RevokeStep, Zenon DEF Block, transitionTask, Status, NonTerminal, InFlight
<1>7. CASE Unblock(t) \/ ReleaseCoordinationHold(t)
  BY <1>7, IdleStep, Zenon DEF Unblock, ReleaseCoordinationHold, isCoordinationHeld, transitionTask, releaseTargetStatus, InFlight, TypeOK
<1>8. CASE Cancel(t)
  BY <1>8, RevokeStep, Zenon DEF Cancel, transitionTask, Status, Terminal, InFlight
<1> QED
  BY <1>2, <1>3, <1>4, <1>5, <1>6, <1>7, <1>8, Zenon DEF Owner, AddRequirement, RecordEvidence, RecordRequirementVerification

(* After a retryable failure a task is in retry_wait or dead_letter, so    *)
(* out of flight.                                                          *)
LEMMA RetryTarget ==
  ASSUME TypeOK, NEW t \in Tasks, RetryOrDeadLetter(t)
  PROVE  \E s \in {"dead_letter", "retry_wait"} : status' = [status EXCEPT ![t] = s]
BY Zenon DEF RetryOrDeadLetter, transitionTask

(* The operations of workers preserve LeaseInv. *)
LEMMA WorkerLease ==
  ASSUME TypeOK, LeaseInv, NEW t \in Tasks, Worker(t)
  PROVE  LeaseInv'
<1> USE DEF leaseVars, recoveryVars
<1>1. CASE Claim(t)
  <2>1. CASE claimOne(t)
    BY <1>1, <2>1, OpenStep, Zenon DEF Claim
  <2>2. CASE ~claimOne(t)
    BY <1>1, <2>2, IdleStep, Zenon DEF Claim, ClaimCandidate, transitionTask, InFlight, TypeOK
  <2> QED
    BY <2>1, <2>2, Zenon
<1>2. ASSUME NEW n \in Ordinals, Heartbeat(t, n) PROVE LeaseInv'
  BY <1>2, SameLease, Zenon DEF Heartbeat
<1>3. ASSUME NEW n \in Ordinals, RecordAttemptResult(t, n) PROVE LeaseInv'
  <2>1. lease[t][n] = "active"
    BY <1>3, Zenon DEF RecordAttemptResult, verifyLease
  <2>2. PICK s \in Status \ InFlight : status' = [status EXCEPT ![t] = s]
    BY <1>3, RetryTarget, Zenon DEF RecordAttemptResult, transitionTask, Status, NonTerminal, Terminal, InFlight
  <2>3. \/ CloseLease(t, n, "released", "finished")
        \/ CloseLease(t, n, "released", "failed")
        \/ CloseLease(t, n, "released", "cancelled")
    BY <1>3, Zenon DEF RecordAttemptResult, finishAttempt
  <2> QED
    BY <2>1, <2>2, <2>3, CloseStep, Zenon
<1> QED
  BY <1>1, <1>2, <1>3, StartStep, Zenon DEF Worker

(* The reconciler preserves LeaseInv. *)
LEMMA ReconcileLease ==
  ASSUME TypeOK, LeaseInv, NEW t \in Tasks, Reconcile(t)
  PROVE  LeaseInv'
<1> USE DEF leaseVars, recoveryVars
<1>1. ASSUME NEW n \in Ordinals, reconcileExpiredLease(t, n) PROVE LeaseInv'
  <2>1. lease[t][n] = "active" /\ CloseLease(t, n, "expired", "lease_expired") /\ status[t] \in InFlight
    BY <1>1, Zenon DEF reconcileExpiredLease, LeaseInv, LeaseCoherent
  <2>2. \E s \in Status \ InFlight : status' = [status EXCEPT ![t] = s]
    BY <1>1, <2>1, RetryTarget, Zenon DEF reconcileExpiredLease, Status, NonTerminal, Terminal, InFlight
  <2> QED
    BY <2>1, <2>2, CloseStep, Zenon
<1>2. CASE reconcileTaskReadiness(t)
  BY <1>2, IdleStep, Zenon DEF reconcileTaskReadiness, ReadinessCandidate, BlockFor, transitionTask, InFlight, TypeOK
<1> QED
  BY <1>1, <1>2, Zenon DEF Reconcile

(* Every step of the engine preserves LeaseInv. *)
LEMMA NextLease == TypeOK /\ LeaseInv /\ [Next]_vars => LeaseInv'
<1> SUFFICES ASSUME TypeOK, LeaseInv, [Next]_vars PROVE LeaseInv'
  BY Zenon
<1>1. ASSUME NEW t \in Tasks, LeaseTick(t) \/ BecomesDue(t) PROVE LeaseInv'
  BY <1>1, SameLease, Zenon DEF LeaseTick, BecomesDue, leaseVars
<1>2. CASE UNCHANGED vars
  BY <1>2 DEF vars, leaseVars, LeaseInv, LeaseCoherent, AttemptsContiguous, HasActiveLease
<1> QED
  BY <1>1, <1>2, OwnerLease, WorkerLease, ReconcileLease, Zenon DEF Next

(* The invariant of leases and attempts holds throughout. *)
LEMMA LeaseInvHolds == Spec => []LeaseInv
<1>1. Init => LeaseInv
  BY DEF Init, LeaseInv, LeaseCoherent, AttemptsContiguous, InFlight, Ordinals
<1> QED
  BY <1>1, TypeCorrect, NextLease, PTL DEF Spec

(* At any moment the active lease of a task, and the attempt it belongs    *)
(* to, are the latest ones and match the task's own state.                 *)
THEOREM LeasesAreCoherent == Spec => []LeaseCoherent
<1>1. LeaseInv => LeaseCoherent
  BY Zenon DEF LeaseInv
<1> QED
  BY <1>1, LeaseInvHolds, PTL

(* The attempts of a task are numbered without gaps up to attempt_count,   *)
(* whatever claims, expiries and finalisations interleave.                 *)
THEOREM AttemptsAreContiguous == Spec => []AttemptsContiguous
<1>1. LeaseInv => AttemptsContiguous
  BY Zenon DEF LeaseInv
<1> QED
  BY <1>1, LeaseInvHolds, PTL

-----------------------------------------------------------------------------
(* The dependency graph.  Three kinds of step matter: a change of one      *)
(* existing task's status, a new task, and a new edge.                     *)

Started == {"ready", "leased", "running", "awaiting_verification", "completed", "no_action"}

AllCompleted(t) == \A d \in deps[t] : status[d] = "completed"

(* A task that does not exist yet is not part of the graph. *)
AbsentIsBlank == \A t \in Tasks : ~Exists(t) => deps[t] = {} /\ \A u \in Tasks : t \notin deps[u]

GraphInv == StartsAfterDependencies /\ DependenciesAcyclic /\ AbsentIsBlank

(* One existing task takes a legal transition, or none does. *)
StatusStep(t, s) ==
  /\ status' = [status EXCEPT ![t] = s]
  /\ s \in Status \ {"absent"}
  /\ status[t] \in NonTerminal \/ s = status[t]
  /\ s \in Started => status[t] \in Started \/ AllCompleted(t)
  /\ deps' = deps

(* A status change that starts a task only with its dependencies           *)
(* completed, and moves no terminal task, preserves GraphInv.              *)
LEMMA StatusStepGraph ==
  ASSUME TypeOK, GraphInv, NEW t \in Tasks, NEW s, StatusStep(t, s)
  PROVE  GraphInv'
<1>1. /\ status'[t] = s /\ \A u \in Tasks : u # t => status'[u] = status[u]
      /\ deps' = deps /\ s # "absent"
  BY Zenon DEF StatusStep, TypeOK
<1>2. \A d \in Tasks : status[d] = "completed" => status'[d] = "completed"
  BY <1>1, Zenon DEF StatusStep, NonTerminal
<1>3. StartsAfterDependencies'
  <2> SUFFICES ASSUME NEW u \in Tasks, status'[u] \in Started, NEW d \in deps[u]
               PROVE  status'[d] = "completed"
    BY <1>1, Zenon DEF StartsAfterDependencies, Started
  <2>1. d \in Tasks
    BY Zenon DEF TypeOK
  <2>2. CASE u # t
    BY <1>1, <1>2, <2>1, <2>2, Zenon DEF GraphInv, StartsAfterDependencies, Started
  <2>3. CASE u = t
    BY <1>1, <1>2, <2>1, <2>3, Zenon DEF StatusStep, GraphInv, StartsAfterDependencies, Started, AllCompleted
  <2> QED
    BY <2>2, <2>3, Zenon
<1>4. AbsentIsBlank' /\ DependenciesAcyclic'
  BY <1>1, Zenon DEF GraphInv, AbsentIsBlank, DependenciesAcyclic, Exists
<1> QED
  BY <1>3, <1>4, Zenon DEF GraphInv

(* createInTx preserves GraphInv: a new task starts as ready only without  *)
(* dependencies, and nothing depends on it yet.                            *)
LEMMA CreateGraph ==
  ASSUME TypeOK, GraphInv, NEW t \in Tasks, NEW i \in CreateInputs(t),
         createInTx(t, i.D, i.R, i.held, i.scheduled, i.isDue)
  PROVE  GraphInv'
<1>1. /\ i.D \in SUBSET Tasks /\ t \notin i.D /\ \A d \in i.D : Exists(d)
      /\ \A u \in Tasks : t \notin deps[u]
      /\ status[t] = "absent"
      /\ deps' = [deps EXCEPT ![t] = i.D]
      /\ status' = [status EXCEPT ![t] = prepareCreate(i.D, i.held, i.scheduled)]
  BY Zenon DEF createInTx, CreateInputs, Exists, GraphInv, AbsentIsBlank
<1>2. /\ status'[t] \in {"blocked", "pending", "ready"} /\ (status'[t] = "ready" => i.D = {})
      /\ deps'[t] = i.D
      /\ \A u \in Tasks : u # t => status'[u] = status[u] /\ deps'[u] = deps[u]
  BY <1>1, Zenon DEF prepareCreate, TypeOK
<1>3. StartsAfterDependencies'
  <2> SUFFICES ASSUME NEW u \in Tasks, status'[u] \in Started, NEW d \in deps'[u]
               PROVE  status'[d] = "completed"
    BY Zenon DEF StartsAfterDependencies, Started
  <2>1. CASE u # t
    <3>1. d \in deps[u] /\ d \in Tasks /\ d # t
      BY <1>1, <1>2, <2>1 DEF TypeOK
    <3> QED
      BY <1>2, <2>1, <3>1, Zenon DEF GraphInv, StartsAfterDependencies, Started
  <2>2. CASE u = t
    BY <1>2, <2>2, Zenon DEF Started
  <2> QED
    BY <2>1, <2>2, Zenon
<1>4. AbsentIsBlank'
  BY <1>1, <1>2, Zenon DEF GraphInv, AbsentIsBlank, Exists
<1>5. DependenciesAcyclic'
  <2>1. Acyclic([deps EXCEPT ![t] = i.D])
    BY <1>1, NewTaskKeepsAcyclic, Zenon DEF Graphs, GraphInv, DependenciesAcyclic, TypeOK
  <2> QED
    BY <1>1, <2>1, Zenon DEF DependenciesAcyclic
<1> QED
  BY <1>3, <1>4, <1>5, Zenon DEF GraphInv

(* AddDependency preserves GraphInv: the cycle query keeps the graph       *)
(* acyclic, and a ready task that gains an unfinished dependency is        *)
(* blocked.                                                                *)
LEMMA AddDependencyGraph ==
  ASSUME TypeOK, GraphInv, NEW t \in Tasks, NEW d \in Tasks, AddDependency(t, d)
  PROVE  GraphInv'
<1>1. /\ t # d /\ Exists(t) /\ Exists(d) /\ status[t] \notin Terminal
      /\ deps' = AddEdge(deps, t, d) /\ ~WouldCycle(deps, t, d)
      /\ status[t] \in Started => status[t] = "ready"
  BY Zenon DEF AddDependency, Started, InFlight, Terminal
<1>2. /\ deps'[t] = deps[t] \cup {d}
      /\ \A u \in Tasks : u # t => deps'[u] = deps[u] /\ status'[u] = status[u]
      /\ status'[t] \in {"blocked", status[t]}
      /\ status[t] = "ready" /\ status[d] # "completed" => status'[t] = "blocked"
  BY Zenon DEF AddDependency, AddEdge, transitionTask, TypeOK
<1>3. StartsAfterDependencies'
  <2> SUFFICES ASSUME NEW u \in Tasks, status'[u] \in Started, NEW e \in deps'[u]
               PROVE  status'[e] = "completed"
    BY Zenon DEF StartsAfterDependencies, Started
  <2>1. e \in deps[u] \cup {d} /\ deps[u] \subseteq Tasks
    BY <1>2, Zenon DEF TypeOK
  <2>2. status[u] \in Started /\ status[e] = "completed"
    BY <1>1, <1>2, <2>1, Zenon DEF GraphInv, StartsAfterDependencies, Started
  <2> QED
    BY <1>1, <1>2, <2>1, <2>2, Zenon DEF Terminal
<1>4. AbsentIsBlank'
  BY <1>1, <1>2 DEF GraphInv, AbsentIsBlank, Exists
<1>5. DependenciesAcyclic'
  BY <1>1, AddEdgeKeepsAcyclic, Zenon DEF Graphs, GraphInv, DependenciesAcyclic, TypeOK
<1> QED
  BY <1>3, <1>4, <1>5, Zenon DEF GraphInv

(* A step that touches neither dependencies nor statuses preserves         *)
(* GraphInv.                                                               *)
LEMMA SameGraph ==
  ASSUME GraphInv, UNCHANGED <<status, deps>>
  PROVE  GraphInv'
BY Zenon DEF GraphInv, StartsAfterDependencies, DependenciesAcyclic, AbsentIsBlank, Exists

(* The operations of owners, operators and the verifier preserve GraphInv. *)
LEMMA OwnerGraph ==
  ASSUME TypeOK, GraphInv, NEW t \in Tasks, Owner(t)
  PROVE  GraphInv'
<1> USE DEF leaseVars, recoveryVars
<1>1. CASE CreateTask(t) \/ \E s \in Tasks : Redrive(t, s)
  BY <1>1, CreateGraph, Zenon DEF CreateTask, Redrive
<1>2. ASSUME NEW d \in Tasks, AddDependency(t, d) PROVE GraphInv'
  BY <1>2, AddDependencyGraph, Zenon
<1>3. ASSUME UNCHANGED <<status, deps>> PROVE GraphInv'
  BY <1>3, SameGraph, Zenon
<1>4. ASSUME NEW o \in Terminal \ {"dead_letter"}, Finalize(t, o) PROVE GraphInv'
  <2>1. StatusStep(t, o)
    BY <1>4, Zenon DEF StatusStep, Finalize, FinalizeRequirement, transitionTask, CanTransition, Status, Terminal, Started
  <2> QED
    BY <2>1, StatusStepGraph, Zenon
<1>5. ASSUME NEW w \in BlockReasons, NEW v \in BOOLEAN, Block(t, w, v) PROVE GraphInv'
  <2>1. StatusStep(t, "blocked")
    BY <1>5, Zenon DEF StatusStep, Block, transitionTask, Status, NonTerminal, Started
  <2> QED
    BY <2>1, StatusStepGraph, Zenon
<1>6. CASE Unblock(t) \/ ReleaseCoordinationHold(t)
  <2>1. /\ ~TerminalFailure(t) /\ status[t] = "blocked" /\ deps' = deps
        /\ status' = [status EXCEPT ![t] = releaseTargetStatus(t)]
    BY <1>6, Zenon DEF Unblock, ReleaseCoordinationHold, isCoordinationHeld, transitionTask
  <2>2. releaseTargetStatus(t) = "ready" => AllCompleted(t)
    BY <2>1, Zenon DEF releaseTargetStatus, Waiting, TerminalFailure, AllCompleted, EndedUncompleted
  <2>3. StatusStep(t, releaseTargetStatus(t))
    BY <2>1, <2>2, Zenon DEF StatusStep, releaseTargetStatus, Status, NonTerminal, Started
  <2> QED
    BY <2>3, StatusStepGraph, Zenon
<1>7. CASE Cancel(t)
  <2>1. StatusStep(t, "cancelled")
    BY <1>7, Zenon DEF StatusStep, Cancel, transitionTask, Status, Terminal, Started
  <2> QED
    BY <2>1, StatusStepGraph, Zenon
<1> QED
  BY <1>1, <1>2, <1>3, <1>4, <1>5, <1>6, <1>7, Zenon DEF Owner, AddRequirement, RecordEvidence, RecordRequirementVerification

(* The operations of workers preserve GraphInv. *)
LEMMA WorkerGraph ==
  ASSUME TypeOK, GraphInv, NEW t \in Tasks, Worker(t)
  PROVE  GraphInv'
<1> USE DEF leaseVars, recoveryVars
<1>1. CASE Claim(t)
  <2>1. StatusStep(t, "leased") \/ StatusStep(t, "blocked")
    BY <1>1, Zenon DEF StatusStep, Claim, ClaimCandidate, claimOne, transitionTask, Status, NonTerminal, Started
  <2> QED
    BY <2>1, StatusStepGraph, Zenon
<1>2. ASSUME NEW n \in Ordinals, StartAttempt(t, n) PROVE GraphInv'
  <2>1. StatusStep(t, "running")
    BY <1>2, Zenon DEF StatusStep, StartAttempt, transitionTask, Status, NonTerminal, Started
  <2> QED
    BY <2>1, StatusStepGraph, Zenon
<1>3. ASSUME NEW n \in Ordinals, Heartbeat(t, n) PROVE GraphInv'
  BY <1>3, SameGraph, Zenon DEF Heartbeat
<1>4. ASSUME NEW n \in Ordinals, RecordAttemptResult(t, n) PROVE GraphInv'
  <2>1. PICK s \in {"awaiting_verification", "dead_letter", "retry_wait", "failed", "cancelled"} :
          status' = [status EXCEPT ![t] = s]
    BY <1>4, RetryTarget, Zenon DEF RecordAttemptResult, transitionTask
  <2>2. StatusStep(t, s)
    BY <1>4, <2>1, Zenon DEF StatusStep, RecordAttemptResult, Status, NonTerminal, Terminal, Started
  <2> QED
    BY <2>2, StatusStepGraph, Zenon
<1> QED
  BY <1>1, <1>2, <1>3, <1>4, Zenon DEF Worker

(* The reconciler preserves GraphInv: it promotes a task only when no      *)
(* dependency is unfinished or ended uncompleted.                          *)
LEMMA ReconcileGraph ==
  ASSUME TypeOK, GraphInv, NEW t \in Tasks, Reconcile(t)
  PROVE  GraphInv'
<1> USE DEF leaseVars, recoveryVars
<1>1. ASSUME NEW n \in Ordinals, reconcileExpiredLease(t, n) PROVE GraphInv'
  <2>1. CASE status[t] \in InFlight
    <3>1. PICK s \in {"dead_letter", "retry_wait"} : status' = [status EXCEPT ![t] = s]
      BY <1>1, <2>1, RetryTarget, Zenon DEF reconcileExpiredLease
    <3>2. StatusStep(t, s)
      BY <1>1, <2>1, <3>1, Zenon DEF StatusStep, reconcileExpiredLease, Status, NonTerminal, Terminal, Started, InFlight
    <3> QED
      BY <3>2, StatusStepGraph, Zenon
  <2>2. CASE status[t] \notin InFlight
    BY <1>1, <2>2, SameGraph, Zenon DEF reconcileExpiredLease
  <2> QED
    BY <2>1, <2>2, Zenon
<1>2. CASE reconcileTaskReadiness(t)
  <2>1. status[t] \in {"pending", "retry_wait", "blocked"} /\ deps' = deps
    BY <1>2, Zenon DEF reconcileTaskReadiness, ReadinessCandidate
  <2>2. CASE status' = [status EXCEPT ![t] = "blocked"]
    <3>1. StatusStep(t, "blocked")
      BY <2>1, <2>2, Zenon DEF StatusStep, Status, NonTerminal, Started
    <3> QED
      BY <3>1, StatusStepGraph, Zenon
  <2>3. CASE status' = [status EXCEPT ![t] = "ready"] /\ ~TerminalFailure(t) /\ ~Waiting(t)
    <3>1. StatusStep(t, "ready")
      BY <2>1, <2>3, Zenon DEF StatusStep, Waiting, TerminalFailure, AllCompleted, EndedUncompleted, Status, NonTerminal
    <3> QED
      BY <3>1, StatusStepGraph, Zenon
  <2> QED
    BY <1>2, <2>2, <2>3, Zenon DEF reconcileTaskReadiness, BlockFor, transitionTask
<1> QED
  BY <1>1, <1>2, Zenon DEF Reconcile

(* Every step of the engine preserves GraphInv. *)
LEMMA NextGraph == TypeOK /\ GraphInv /\ [Next]_vars => GraphInv'
<1> SUFFICES ASSUME TypeOK, GraphInv, [Next]_vars PROVE GraphInv'
  BY Zenon
<1>1. ASSUME NEW t \in Tasks, LeaseTick(t) \/ BecomesDue(t) PROVE GraphInv'
  BY <1>1, SameGraph, Zenon DEF LeaseTick, BecomesDue
<1>2. CASE UNCHANGED vars
  BY <1>2, SameGraph, Zenon DEF vars
<1> QED
  BY <1>1, <1>2, OwnerGraph, WorkerGraph, ReconcileGraph, Zenon DEF Next

(* The invariant of the dependency graph holds throughout. *)
LEMMA GraphInvHolds == Spec => []GraphInv
<1>1. Init => GraphInv
  <2> SUFFICES ASSUME Init PROVE GraphInv
    BY Zenon
  <2>1. DependenciesAcyclic
    <3>1. \A t \in Tasks : Reachable(deps, t) = {}
      BY Zenon DEF Init, Reachable, ClosedUnder
    <3> QED
      BY <3>1, Zenon DEF DependenciesAcyclic, Acyclic
  <2> QED
    BY <2>1, Zenon DEF Init, GraphInv, StartsAfterDependencies, AbsentIsBlank
<1> QED
  BY <1>1, TypeCorrect, NextGraph, PTL DEF Spec

(* No task is claimable, under way or finished before all its dependencies *)
(* completed (mutate.go, reconcile.go, create.go).                         *)
THEOREM DependenciesAreRespected == Spec => []StartsAfterDependencies
<1>1. GraphInv => StartsAfterDependencies
  BY Zenon DEF GraphInv
<1> QED
  BY <1>1, GraphInvHolds, PTL

(* The graph of dependencies never gets a cycle, as long as the operations *)
(* of the engine do not overlap (mutate.go).                               *)
THEOREM DependenciesStayAcyclic == Spec => []DependenciesAcyclic
<1>1. GraphInv => DependenciesAcyclic
  BY Zenon DEF GraphInv
<1> QED
  BY <1>1, GraphInvHolds, PTL
=============================================================================
