------------------------- MODULE TaskHistoryProofs --------------------------
(***************************************************************************)
(* What happens to a task over time, for every set of tasks, number of     *)
(* attempts and lease length: its budget of attempts, its end, its         *)
(* recoveries, its closed attempts and its coordination hold.              *)
(***************************************************************************)
EXTENDS TaskEngineProofs, FiniteSetTheorems

USE TasksAssumption, ParentAssumption, MaxAttemptsAssumption, LeaseTicksAssumption,
    BlockReasonsAssumption, EdgesAssumption

(* One row at a time.  Every step leaves all tasks but one untouched, and  *)
(* does one of five things to that one: create it, leave its status alone, *)
(* move it, claim it, or send it to the dead letters.                      *)

Untouched(u) ==
  /\ status'[u] = status[u] /\ reason'[u] = reason[u] /\ due'[u] = due[u]
  /\ req'[u] = req[u] /\ attemptCount'[u] = attemptCount[u]

SatisfiedReqs(t) == \A r \in Reqs : req[t][r] \in {"none", "satisfied"}

RowCreated(t) ==
  /\ status[t] = "absent" /\ status'[t] \in {"blocked", "pending", "ready"}
  /\ status'[t] = "ready" => due'[t]
  /\ attemptCount'[t] = attemptCount[t] /\ deadLetters' = deadLetters

RowKept(t) ==
  /\ status'[t] = status[t] /\ reason'[t] = reason[t] /\ attemptCount'[t] = attemptCount[t]
  /\ due[t] => due'[t]
  /\ req'[t] = req[t] \/ status[t] \in NonTerminal
  /\ deadLetters' = deadLetters

RowMoved(t) ==
  /\ status[t] \in NonTerminal /\ status'[t] \in Status \ {"absent", "dead_letter"}
  /\ status'[t] = "ready" => due'[t]
  /\ status'[t] \in {"ready", "pending", "retry_wait"} => attemptCount[t] < MaxAttempts \/ isCoordinationHeld(t)
  /\ status'[t] = "blocked" => reason'[t] \in Reconcilable \cup BlockReasons
  /\ status'[t] = "completed" => SatisfiedReqs(t) /\ req'[t] = req[t]
  /\ attemptCount'[t] = attemptCount[t] /\ deadLetters' = deadLetters

RowClaimed(t) ==
  /\ status[t] = "ready" /\ status'[t] = "leased"
  /\ attemptCount[t] < MaxAttempts /\ attemptCount'[t] = attemptCount[t] + 1
  /\ deadLetters' = deadLetters

RowDied(t) ==
  /\ status[t] \in InFlight /\ status'[t] = "dead_letter"
  /\ attemptCount[t] = MaxAttempts /\ attemptCount'[t] = attemptCount[t]
  /\ deadLetters' = deadLetters \cup {t}

RowStep(t) ==
  /\ \A u \in Tasks \ {t} : Untouched(u)
  /\ RowCreated(t) \/ RowKept(t) \/ RowMoved(t) \/ RowClaimed(t) \/ RowDied(t)

(* Creating a task touches only its row. *)
LEMMA CreateRow ==
  ASSUME TypeOK, NEW t \in Tasks, NEW i \in CreateInputs(t),
         createInTx(t, i.D, i.R, i.held, i.scheduled, i.isDue), deadLetters' = deadLetters
  PROVE  RowStep(t)
<1>1. status[t] = "absent" /\ i.isDue \in BOOLEAN /\ (~i.scheduled => i.isDue)
  BY Zenon DEF createInTx, Exists, CreateInputs
<1>2. /\ status'[t] = prepareCreate(i.D, i.held, i.scheduled) /\ due'[t] = i.isDue
      /\ attemptCount' = attemptCount
  BY Zenon DEF createInTx, TypeOK, leaseVars
<1>3. RowCreated(t)
  BY <1>1, <1>2, Zenon DEF RowCreated, prepareCreate
<1>4. \A u \in Tasks \ {t} : Untouched(u)
  BY Zenon DEF createInTx, Untouched, TypeOK, leaseVars
<1> QED
  BY <1>3, <1>4, Zenon DEF RowStep

(* A legal transition by itself touches only its task's status and reason. *)
LEMMA TransitionRow ==
  ASSUME TypeOK, NEW t \in Tasks, NEW s, NEW w, transitionTask(t, s, w)
  PROVE  /\ status[t] \in NonTerminal /\ status'[t] = s
         /\ reason'[t] = IF s = "blocked" THEN w ELSE NoReason
         /\ \A u \in Tasks \ {t} : status'[u] = status[u] /\ reason'[u] = reason[u]
BY Zenon DEF transitionTask, CanTransition, TypeOK

(* Revoking a lease leaves the attempt count alone. *)
LEMMA RevokeCount ==
  ASSUME TypeOK, NEW t \in Tasks, revokeActiveLease(t)
  PROVE  attemptCount' = attemptCount
BY RevokeType, Zenon

(* The operations of owners, operators and the verifier, row by row. *)
LEMMA OwnerRow ==
  ASSUME TypeOK, NEW t \in Tasks, Owner(t)
  PROVE  RowStep(t) \/ \E s \in Tasks : ~Exists(s) /\ RowStep(s)
<1> USE DEF leaseVars, recoveryVars
<1>1. CASE CreateTask(t)
  BY <1>1, CreateRow, Zenon DEF CreateTask
<1>2. ASSUME NEW s \in Tasks, Redrive(t, s) PROVE ~Exists(s) /\ RowStep(s)
  BY <1>2, CreateRow, Zenon DEF Redrive, createInTx
<1>3. ASSUME NEW d \in Tasks, AddDependency(t, d) PROVE RowStep(t)
  <2>1. CASE status[t] = "ready" /\ status[d] # "completed"
    <3>1. transitionTask(t, "blocked", "dependency_unsatisfied") /\ UNCHANGED <<due, req, attemptCount, deadLetters>>
      BY <1>3, <2>1, Zenon DEF AddDependency
    <3> QED
      BY <3>1, TransitionRow, Zenon DEF RowStep, RowMoved, Untouched, Status, NonTerminal, Reconcilable
  <2>2. CASE ~(status[t] = "ready" /\ status[d] # "completed")
    BY <1>3, <2>2, Zenon DEF AddDependency, RowStep, RowKept, Untouched
  <2> QED
    BY <2>1, <2>2, Zenon
<1>4. ASSUME NEW r \in Reqs, NEW v, status[t] \in NonTerminal, req' = [req EXCEPT ![t][r] = v],
             UNCHANGED <<status, reason, due, attemptCount, deadLetters>>
      PROVE  RowStep(t)
  BY <1>4, Zenon DEF RowStep, RowKept, Untouched, TypeOK
<1>5. ASSUME NEW r \in Reqs, AddRequirement(t, r) \/ RecordEvidence(t, r) PROVE RowStep(t)
  BY <1>4, <1>5 DEF AddRequirement, RecordEvidence, NonTerminal
<1>6. ASSUME NEW r \in Reqs, NEW v \in {"satisfied", "failed"}, RecordRequirementVerification(t, r, v) PROVE RowStep(t)
  BY <1>4, <1>6, Zenon DEF RecordRequirementVerification
<1>7. ASSUME NEW o \in Terminal \ {"dead_letter"}, Finalize(t, o) PROVE RowStep(t)
  <2>1. transitionTask(t, o, NoReason) /\ UNCHANGED <<due, req, attemptCount, deadLetters>>
    BY <1>7, RevokeCount, Zenon DEF Finalize
  <2>2. o = "completed" => SatisfiedReqs(t)
    BY <1>7, Zenon DEF Finalize, FinalizeRequirement, SatisfiedReqs
  <2> QED
    BY <2>1, <2>2, TransitionRow, Zenon DEF RowStep, RowMoved, Untouched, Status, Terminal
<1>8. ASSUME NEW w \in BlockReasons, NEW v \in BOOLEAN, Block(t, w, v) PROVE RowStep(t)
  <2>1. transitionTask(t, "blocked", w) /\ UNCHANGED <<due, req, attemptCount, deadLetters>>
    BY <1>8, RevokeCount, Zenon DEF Block
  <2> QED
    BY <2>1, TransitionRow DEF RowStep, RowMoved, Untouched, Status, NonTerminal
<1>9. CASE Unblock(t) \/ ReleaseCoordinationHold(t)
  <2>1. /\ transitionTask(t, releaseTargetStatus(t), NoReason) /\ UNCHANGED <<due, req, attemptCount, deadLetters>>
        /\ attemptCount[t] < MaxAttempts \/ isCoordinationHeld(t)
    BY <1>9, Zenon DEF Unblock, ReleaseCoordinationHold
  <2>2. releaseTargetStatus(t) \in {"pending", "ready"} /\ (releaseTargetStatus(t) = "ready" => due[t])
    BY Zenon DEF releaseTargetStatus
  <2> QED
    BY <2>1, <2>2, TransitionRow, Zenon DEF RowStep, RowMoved, Untouched, Status, NonTerminal
<1>10. CASE Cancel(t)
  <2>1. transitionTask(t, "cancelled", NoReason) /\ UNCHANGED <<due, req, attemptCount, deadLetters>>
    BY <1>10, RevokeCount, Zenon DEF Cancel
  <2> QED
    BY <2>1, TransitionRow DEF RowStep, RowMoved, Untouched, Status, Terminal
<1> QED
  BY <1>1, <1>2, <1>3, <1>5, <1>6, <1>7, <1>8, <1>9, <1>10, Zenon DEF Owner

(* A retryable failure moves the row to retry_wait with an attempt left,   *)
(* or to the dead letters with none.                                       *)
LEMMA RetryRow ==
  ASSUME TypeOK, NEW t \in Tasks, status[t] \in InFlight, RetryOrDeadLetter(t), UNCHANGED <<req, attemptCount>>
  PROVE  RowStep(t)
<1>1. attemptCount[t] \in 0..MaxAttempts
  BY Zenon DEF TypeOK
<1>2. CASE attemptCount[t] >= MaxAttempts
  <2>1. /\ transitionTask(t, "dead_letter", NoReason)
        /\ deadLetters' = deadLetters \cup {t} /\ UNCHANGED due
    BY <1>2, Zenon DEF RetryOrDeadLetter
  <2>2. attemptCount[t] = MaxAttempts
    BY <1>1, <1>2
  <2> QED
    BY <2>1, <2>2, TransitionRow, Zenon DEF RowStep, RowDied, Untouched
<1>3. CASE ~(attemptCount[t] >= MaxAttempts)
  <2>1. /\ transitionTask(t, "retry_wait", NoReason)
        /\ due' = [due EXCEPT ![t] = FALSE] /\ deadLetters' = deadLetters
    BY <1>3, Zenon DEF RetryOrDeadLetter, recoveryVars
  <2>2. attemptCount[t] < MaxAttempts /\ \A u \in Tasks \ {t} : due'[u] = due[u]
    BY <1>1, <1>3, <2>1 DEF TypeOK
  <2> QED
    BY <2>1, <2>2, TransitionRow DEF RowStep, RowMoved, Untouched, Status, NonTerminal
<1> QED
  BY <1>2, <1>3, Zenon

(* The operations of workers, row by row. *)
LEMMA WorkerRow ==
  ASSUME TypeOK, NEW t \in Tasks, Worker(t)
  PROVE  RowStep(t)
<1> USE DEF leaseVars, recoveryVars
<1>1. CASE Claim(t)
  <2>1. CASE claimOne(t)
    <3>1. /\ transitionTask(t, "leased", NoReason) /\ UNCHANGED <<due, req, deadLetters>>
          /\ attemptCount' = [attemptCount EXCEPT ![t] = @ + 1]
          /\ status[t] = "ready" /\ attemptCount[t] < MaxAttempts
      BY <1>1, <2>1, Zenon DEF Claim, ClaimCandidate, claimOne
    <3>2. attemptCount'[t] = attemptCount[t] + 1 /\ \A u \in Tasks \ {t} : attemptCount'[u] = attemptCount[u]
      BY <3>1, Zenon DEF TypeOK
    <3> QED
      BY <3>1, <3>2, TransitionRow, Zenon DEF RowStep, RowClaimed, Untouched
  <2>2. CASE ~claimOne(t)
    <3>1. /\ \E w \in Reconcilable : transitionTask(t, "blocked", w)
          /\ UNCHANGED <<req, attemptCount, deadLetters>>
          /\ \A u \in Tasks \ {t} : due'[u] = due[u]
      BY <1>1, <2>2, Zenon DEF Claim, Reconcilable, TypeOK
    <3> QED
      BY <3>1, TransitionRow DEF RowStep, RowMoved, Untouched, Status, NonTerminal
  <2> QED
    BY <2>1, <2>2, Zenon
<1>2. ASSUME NEW n \in Ordinals, StartAttempt(t, n) PROVE RowStep(t)
  <2>1. transitionTask(t, "running", NoReason) /\ UNCHANGED <<due, req, attemptCount, deadLetters>>
    BY <1>2, Zenon DEF StartAttempt
  <2> QED
    BY <2>1, TransitionRow DEF RowStep, RowMoved, Untouched, Status, NonTerminal
<1>3. ASSUME NEW n \in Ordinals, Heartbeat(t, n) PROVE RowStep(t)
  BY <1>3, Zenon DEF Heartbeat, RowStep, RowKept, Untouched
<1>4. ASSUME NEW n \in Ordinals, RecordAttemptResult(t, n) PROVE RowStep(t)
  <2>1. UNCHANGED <<req, attemptCount>> /\ status[t] = "running"
    BY <1>4, Zenon DEF RecordAttemptResult, finishAttempt, CloseLease
  <2>2. CASE RetryOrDeadLetter(t)
    BY <2>1, <2>2, RetryRow, Zenon DEF InFlight
  <2>3. ASSUME NEW s \in {"awaiting_verification", "failed", "cancelled"},
               transitionTask(t, s, NoReason), UNCHANGED <<due, deadLetters>>
        PROVE  RowStep(t)
    BY <2>1, <2>3, TransitionRow, Zenon DEF RowStep, RowMoved, Untouched, Status, NonTerminal, Terminal
  <2> QED
    BY <1>4, <2>2, <2>3, Zenon DEF RecordAttemptResult
<1> QED
  BY <1>1, <1>2, <1>3, <1>4, Zenon DEF Worker

(* The reconciler, row by row: what it promotes is due and has an attempt  *)
(* left.                                                                   *)
LEMMA ReconcileRow ==
  ASSUME TypeOK, NEW t \in Tasks, Reconcile(t)
  PROVE  RowStep(t)
<1> USE DEF leaseVars, recoveryVars
<1>1. ASSUME NEW n \in Ordinals, reconcileExpiredLease(t, n) PROVE RowStep(t)
  <2>1. UNCHANGED <<req, attemptCount>>
    BY <1>1, Zenon DEF reconcileExpiredLease, CloseLease
  <2>2. CASE status[t] \in InFlight
    BY <1>1, <2>1, <2>2, RetryRow, Zenon DEF reconcileExpiredLease
  <2>3. CASE status[t] \notin InFlight
    BY <1>1, <2>1, <2>3, Zenon DEF reconcileExpiredLease, RowStep, RowKept, Untouched
  <2> QED
    BY <2>2, <2>3, Zenon
<1>2. CASE reconcileTaskReadiness(t)
  <2>1. /\ status[t] \in {"pending", "retry_wait", "blocked"} /\ due[t]
        /\ UNCHANGED <<req, attemptCount, deadLetters>>
    BY <1>2, Zenon DEF reconcileTaskReadiness, ReadinessCandidate
  <2>2. \A u \in Tasks \ {t} : due'[u] = due[u]
    BY <1>2, Zenon DEF reconcileTaskReadiness, TypeOK
  <2>3. CASE \E w \in Reconcilable : BlockFor(t, w)
    <3>1. /\ status'[t] = "blocked" /\ reason'[t] \in Reconcilable
          /\ \A u \in Tasks \ {t} : status'[u] = status[u] /\ reason'[u] = reason[u]
      BY <2>3, Zenon DEF BlockFor, TypeOK
    <3> QED
      BY <2>1, <2>2, <3>1, Zenon DEF RowStep, RowMoved, Untouched, Status, NonTerminal
  <2>4. CASE attemptCount[t] < MaxAttempts /\ transitionTask(t, "ready", NoReason) /\ UNCHANGED due
    BY <2>1, <2>2, <2>4, TransitionRow DEF RowStep, RowMoved, Untouched, Status, NonTerminal
  <2> QED
    BY <1>2, <2>3, <2>4, Zenon DEF reconcileTaskReadiness, Reconcilable
<1> QED
  BY <1>1, <1>2, Zenon DEF Reconcile

(* Every step of the engine is a step of one row, or changes no row. *)
LEMMA NextRow ==
  ASSUME TypeOK, [Next]_vars
  PROVE  \/ \E t \in Tasks : RowStep(t)
         \/ UNCHANGED <<status, reason, due, req, attemptCount, deadLetters>>
<1>1. ASSUME NEW t \in Tasks, LeaseTick(t) PROVE RowStep(t)
  BY <1>1, Zenon DEF LeaseTick, RowStep, RowKept, Untouched, recoveryVars
<1>2. ASSUME NEW t \in Tasks, BecomesDue(t) PROVE RowStep(t)
  BY <1>2, Zenon DEF BecomesDue, RowStep, RowKept, Untouched, TypeOK, leaseVars, recoveryVars
<1> QED
  BY <1>1, <1>2, OwnerRow, WorkerRow, ReconcileRow, Zenon DEF Next, vars, leaseVars, recoveryVars

(* A task not created yet has used no attempt. *)
Unattempted == \A t \in Tasks : status[t] = "absent" => attemptCount[t] = 0

(* So it is at every time. *)
LEMMA UnattemptedHolds == Spec => []Unattempted
<1>1. Init => Unattempted
  BY Zenon DEF Init, Unattempted
<1>2. ASSUME TypeOK, Unattempted, [Next]_vars PROVE Unattempted'
  <2>1. ASSUME NEW t \in Tasks, RowStep(t), NEW u \in Tasks, status'[u] = "absent" PROVE attemptCount'[u] = 0
    <3>1. CASE u # t
      BY <1>2, <2>1, <3>1, Zenon DEF RowStep, Untouched, Unattempted
    <3>2. CASE u = t
      BY <1>2, <2>1, <3>2, Zenon DEF RowStep, RowCreated, RowKept, RowMoved, RowClaimed, RowDied, Unattempted
    <3> QED
      BY <3>1, <3>2, Zenon
  <2> QED
    BY <1>2, <2>1, NextRow, Zenon DEF Unattempted
<1> QED
  BY <1>1, <1>2, TypeCorrect, PTL DEF Spec

(* Whatever reason codes callers block tasks with, a task is made pending, *)
(* ready or waiting to retry only with an attempt left and ready only when *)
(* it is due, except by the release of a coordination hold (queue.go,      *)
(* mutate.go, reconcile.go).                                               *)
THEOREM TurnsHaveAttempts == Spec => TurnHasAttempt
<1> DEFINE Turn == \A t \in Tasks :
             status'[t] # status[t] /\ status'[t] \in {"pending", "ready", "retry_wait"} =>
               /\ attemptCount'[t] < MaxAttempts \/ isCoordinationHeld(t)
               /\ status'[t] = "ready" => due'[t]
<1>1. ASSUME TypeOK, Unattempted, [Next]_vars PROVE Turn
  <2>1. SUFFICES ASSUME NEW u \in Tasks, status'[u] # status[u], status'[u] \in {"pending", "ready", "retry_wait"}
                 PROVE  /\ attemptCount'[u] < MaxAttempts \/ isCoordinationHeld(u)
                        /\ status'[u] = "ready" => due'[u]
    BY Zenon
  <2>2. PICK t \in Tasks : RowStep(t)
    BY <1>1, <2>1, NextRow, Zenon
  <2>3. u = t
    BY <2>1, <2>2, Zenon DEF RowStep, Untouched
  <2>4. CASE RowCreated(t)
    <3>1. attemptCount'[u] = 0 /\ (status'[u] = "ready" => due'[u])
      BY <1>1, <2>3, <2>4, Zenon DEF RowCreated, Unattempted
    <3> QED
      BY <3>1
  <2>5. CASE RowMoved(t)
    BY <2>1, <2>3, <2>5, Zenon DEF RowMoved
  <2>6. ~RowKept(t) /\ ~RowClaimed(t) /\ ~RowDied(t)
    BY <2>1, <2>3, Zenon DEF RowKept, RowClaimed, RowDied
  <2> QED
    BY <2>2, <2>4, <2>5, <2>6, Zenon DEF RowStep
<1>2. TypeOK /\ Unattempted /\ [Next]_vars => [Turn]_vars
  BY <1>1, Zenon
<1>3. Spec => [][Next]_vars
  BY PTL DEF Spec
<1> QED
  BY <1>2, <1>3, TypeCorrect, UnattemptedHolds, PTL DEF TurnHasAttempt

-----------------------------------------------------------------------------
(* How tasks end. *)

(* Whatever a step does, no task disappears and no ended task moves. *)
LEMMA EndedStays ==
  ASSUME TypeOK, [Next]_vars, NEW t \in Tasks
  PROVE  /\ status[t] \in Terminal => status'[t] = status[t]
         /\ status'[t] = "absent" => status[t] = "absent"
<1>1. CASE UNCHANGED <<status, reason, due, req, attemptCount, deadLetters>>
  BY <1>1, Zenon
<1>2. ASSUME NEW u \in Tasks, RowStep(u)
      PROVE  /\ status[t] \in Terminal => status'[t] = status[t]
             /\ status'[t] = "absent" => status[t] = "absent"
  <2>1. CASE t # u
    BY <1>2, <2>1, Zenon DEF RowStep, Untouched
  <2>2. CASE t = u
    BY <1>2, <2>2, Zenon DEF RowStep, RowCreated, RowKept, RowMoved, RowClaimed, RowDied, NonTerminal, Terminal, InFlight
  <2> QED
    BY <2>1, <2>2, Zenon
<1> QED
  BY <1>1, <1>2, NextRow, Zenon

(* The link from a dead letter to its successor is written once, by        *)
(* Redrive, to a task created in the same transaction.                     *)
LEMMA SuccessorStep ==
  ASSUME TypeOK, [Next]_vars
  PROVE  \/ successor' = successor
         \/ \E t, s \in Tasks : /\ t \in deadLetters /\ successor[t] = None
                               /\ recoveryChainDepth(t) + 1 <= MaxEpisodes
                               /\ ~Exists(s) /\ Exists(s)'
                               /\ successor' = [successor EXCEPT ![t] = s]
<1> USE DEF recoveryVars
<1>1. ASSUME NEW t \in Tasks, NEW s \in Tasks, Redrive(t, s)
      PROVE  /\ t \in deadLetters /\ successor[t] = None /\ ~Exists(s) /\ Exists(s)'
             /\ recoveryChainDepth(t) + 1 <= MaxEpisodes
             /\ successor' = [successor EXCEPT ![t] = s]
  BY <1>1 DEF Redrive, createInTx, prepareCreate, Exists, TypeOK
<1>2. ASSUME NEW t \in Tasks, RetryOrDeadLetter(t) PROVE successor' = successor
  BY <1>2, Zenon DEF RetryOrDeadLetter
<1>3. ASSUME NEW t \in Tasks, Owner(t), ~ \E s \in Tasks : Redrive(t, s) PROVE successor' = successor
  BY <1>3, Zenon DEF Owner, CreateTask, AddDependency, AddRequirement, RecordEvidence, RecordRequirementVerification,
     Finalize, Block, Unblock, ReleaseCoordinationHold, Cancel
<1>4. ASSUME NEW t \in Tasks, Worker(t) PROVE successor' = successor
  BY <1>2, <1>4, Zenon DEF Worker, Claim, StartAttempt, Heartbeat, RecordAttemptResult
<1>5. ASSUME NEW t \in Tasks, Reconcile(t) PROVE successor' = successor
  BY <1>2, <1>5, Zenon DEF Reconcile, reconcileExpiredLease, reconcileTaskReadiness
<1>6. ASSUME NEW t \in Tasks, LeaseTick(t) \/ BecomesDue(t) PROVE successor' = successor
  BY <1>6, Zenon DEF LeaseTick, BecomesDue
<1> QED
  BY <1>1, <1>3, <1>4, <1>5, <1>6, Zenon DEF Next, vars

(* Every step preserves CompletedIsSatisfied: requirements of a completed  *)
(* task do not change any more.                                            *)
LEMMA NextCompleted ==
  ASSUME TypeOK, CompletedIsSatisfied, [Next]_vars
  PROVE  CompletedIsSatisfied'
<1>1. CASE UNCHANGED <<status, reason, due, req, attemptCount, deadLetters>>
  BY <1>1, Zenon DEF CompletedIsSatisfied
<1>2. ASSUME NEW t \in Tasks, RowStep(t), NEW u \in Tasks, status'[u] = "completed", NEW r \in Reqs
      PROVE  req'[u][r] \in {"none", "satisfied"}
  <2>1. CASE u # t
    BY <1>2, <2>1, Zenon DEF RowStep, Untouched, CompletedIsSatisfied
  <2>2. CASE u = t
    BY <1>2, <2>2, Zenon DEF RowStep, RowCreated, RowKept, RowMoved, RowClaimed, RowDied, SatisfiedReqs, CompletedIsSatisfied, NonTerminal
  <2> QED
    BY <2>1, <2>2, Zenon
<1> QED
  BY <1>1, <1>2, NextRow, Zenon DEF CompletedIsSatisfied

(* Every step preserves DeadLettersCoherent. *)
LEMMA NextDeadLetters ==
  ASSUME TypeOK, DeadLettersCoherent, [Next]_vars
  PROVE  DeadLettersCoherent'
<1>1. \A t \in Tasks : /\ t \in deadLetters' <=> status'[t] = "dead_letter"
                       /\ t \in deadLetters' => attemptCount'[t] = MaxAttempts
  <2>1. CASE UNCHANGED <<status, reason, due, req, attemptCount, deadLetters>>
    BY <2>1, Zenon DEF DeadLettersCoherent
  <2>2. ASSUME NEW u \in Tasks, RowStep(u), NEW t \in Tasks
        PROVE  /\ t \in deadLetters' <=> status'[t] = "dead_letter"
               /\ t \in deadLetters' => attemptCount'[t] = MaxAttempts
    <3>1. CASE t # u
      BY <2>2, <3>1, Zenon DEF RowStep, Untouched, RowCreated, RowKept, RowMoved, RowClaimed, RowDied, DeadLettersCoherent
    <3>2. CASE t = u
      BY <2>2, <3>2, Zenon DEF RowStep, RowCreated, RowKept, RowMoved, RowClaimed, RowDied, DeadLettersCoherent, NonTerminal, InFlight
    <3> QED
      BY <3>1, <3>2, Zenon
  <2> QED
    BY <2>1, <2>2, NextRow, Zenon
<1>2. /\ \A t \in Tasks : t \in deadLetters => t \in deadLetters'
      /\ \A t \in Tasks : status[t] # "absent" => status'[t] # "absent"
  <2>1. \A t \in Tasks : /\ status[t] \in Terminal => status'[t] = status[t]
                         /\ status'[t] = "absent" => status[t] = "absent"
    BY EndedStays, Zenon
  <2> QED
    BY <1>1, <2>1 DEF DeadLettersCoherent, Terminal
<1>3. CASE successor' = successor
  BY <1>1, <1>2, <1>3, Zenon DEF DeadLettersCoherent, TypeOK, Exists
<1>4. ASSUME NEW t \in Tasks, NEW s \in Tasks, t \in deadLetters, successor[t] = None,
             ~Exists(s), Exists(s)', successor' = [successor EXCEPT ![t] = s]
      PROVE  DeadLettersCoherent'
  <2>1. successor'[t] = s /\ \A u \in Tasks \ {t} : successor'[u] = successor[u]
    BY <1>4, Zenon DEF TypeOK
  <2>2. t # s
    BY <1>4, Zenon DEF DeadLettersCoherent, Exists
  <2>3. \A u \in Tasks : successor[u] # s
    BY <1>4 DEF DeadLettersCoherent, TypeOK
  <2>4. \A u \in Tasks : successor'[u] # None =>
          u \in deadLetters' /\ successor'[u] # u /\ status'[successor'[u]] # "absent"
    <3>1. status'[s] # "absent"
      BY <1>4, Zenon DEF Exists
    <3>2. \A u \in Tasks : successor[u] # None =>
            u \in deadLetters /\ successor[u] # u /\ successor[u] \in Tasks /\ status[successor[u]] # "absent"
      BY DEF DeadLettersCoherent, TypeOK, Exists
    <3> QED
      BY <1>2, <1>4, <2>1, <2>2, <3>1, <3>2, Zenon
  <2>5. \A u, v \in Tasks : successor'[u] = successor'[v] /\ successor'[u] # None => u = v
    BY <2>1, <2>3 DEF DeadLettersCoherent
  <2> QED
    BY <1>1, <2>4, <2>5, Zenon DEF DeadLettersCoherent, Exists
<1> QED
  BY <1>3, <1>4, SuccessorStep, Zenon

(* A completed task has all its requirements satisfied, and no later step  *)
(* takes one of them back (mutate.go, requirement_verification.go).        *)
THEOREM CompletedTasksAreSatisfied == Spec => []CompletedIsSatisfied
<1>1. Init => CompletedIsSatisfied
  BY Zenon DEF Init, CompletedIsSatisfied
<1>2. TypeOK /\ CompletedIsSatisfied /\ [Next]_vars => CompletedIsSatisfied'
  BY NextCompleted, Zenon
<1> QED
  BY <1>1, <1>2, TypeCorrect, PTL DEF Spec

(* The dead letters are the tasks that used up their attempts, and each    *)
(* has at most one successor, which succeeds nothing else (mutate.go,      *)
(* redrive.go).                                                            *)
THEOREM DeadLettersAreCoherent == Spec => []DeadLettersCoherent
<1>1. Init => DeadLettersCoherent
  BY Zenon DEF Init, DeadLettersCoherent
<1>2. TypeOK /\ DeadLettersCoherent /\ [Next]_vars => DeadLettersCoherent'
  BY NextDeadLetters, Zenon
<1> QED
  BY <1>1, <1>2, TypeCorrect, PTL DEF Spec
(* No operation reopens a task that ended, and the link from a dead letter *)
(* to the task that recovers it is never rewritten.                        *)
THEOREM EndedTasksStayEnded == Spec => TerminalIsFinal
<1> DEFINE Final == \A t \in Tasks :
                      /\ status[t] \in Terminal => status'[t] = status[t]
                      /\ successor[t] # None => successor'[t] = successor[t]
<1>1. TypeOK /\ [Next]_vars => [Final]_vars
  <2> SUFFICES ASSUME TypeOK, [Next]_vars, NEW t \in Tasks
               PROVE  /\ status[t] \in Terminal => status'[t] = status[t]
                      /\ successor[t] # None => successor'[t] = successor[t]
    BY Zenon
  <2>1. successor[t] # None => successor'[t] = successor[t]
    BY SuccessorStep, Zenon DEF TypeOK
  <2> QED
    BY <2>1, EndedStays, Zenon
<1> QED
  BY <1>1, TypeCorrect, PTL DEF Spec, TerminalIsFinal

-----------------------------------------------------------------------------
(* Chains of recoveries. *)

(* Everything behind a task in its chain of recoveries is a dead letter. *)
LEMMA PriorsAreDead ==
  ASSUME TypeOK, DeadLettersCoherent, NEW u \in Tasks
  PROVE  Reachable(PriorDeadLetters, u) \subseteq deadLetters
<1>1. PriorDeadLetters \in Graphs /\ deadLetters \in SUBSET Tasks
  BY Zenon DEF PriorDeadLetters, Graphs, TypeOK
<1>2. \A x \in Tasks : PriorDeadLetters[x] \subseteq deadLetters
  BY DEF PriorDeadLetters, DeadLettersCoherent
<1>3. ClosedUnder(PriorDeadLetters, deadLetters)
  BY <1>1, <1>2, Zenon DEF ClosedUnder
<1> QED
  BY <1>1, <1>2, <1>3, ReachableIsLeast, Zenon

(* A redrive extends one chain by one task and leaves the others alone. *)
LEMMA RedriveChain ==
  ASSUME TypeOK, DeadLettersCoherent, RecoveryChainBounded,
         NEW t \in Tasks, NEW s \in Tasks, t \in deadLetters, successor[t] = None,
         recoveryChainDepth(t) + 1 <= MaxEpisodes, ~Exists(s), successor' = [successor EXCEPT ![t] = s]
  PROVE  RecoveryChainBounded'
<1>1. PICK P \in Graphs : P = PriorDeadLetters
  BY Zenon DEF PriorDeadLetters, Graphs
<1>2. PICK Q \in Graphs : Q = PriorDeadLetters'
  BY Zenon DEF PriorDeadLetters, Graphs
<1>3. s # t /\ s \notin deadLetters
  BY Zenon DEF DeadLettersCoherent, Exists
<1>4. /\ Q[s] = {t}
      /\ \A x \in Tasks : x # s => Q[x] = P[x]
  <2>1. successor'[t] = s /\ \A u \in Tasks : u # t => successor'[u] = successor[u]
    BY Zenon DEF TypeOK
  <2>2. \A u \in Tasks : successor[u] # s
    BY DEF DeadLettersCoherent, TypeOK
  <2> QED
    BY <1>1, <1>2, <2>1, <2>2, TasksAssumption DEF PriorDeadLetters
<1>5. \A u \in Tasks : s \notin Reachable(P, u) /\ IsFiniteSet(Reachable(P, u))
  BY <1>1, <1>3, PriorsAreDead, FS_Subset, TasksAssumption, Zenon DEF TypeOK
<1>6. ASSUME NEW u \in Tasks, u # s PROVE Cardinality(Reachable(Q, u)) <= MaxEpisodes
  <2>1. /\ Reachable(P, u) \in SUBSET Tasks /\ P[u] \subseteq Reachable(P, u)
        /\ ClosedUnder(P, Reachable(P, u))
    BY ReachableIsClosed, Zenon
  <2>2. Q[u] \subseteq Reachable(P, u) /\ ClosedUnder(Q, Reachable(P, u))
    BY <1>4, <1>5, <1>6, <2>1, Zenon DEF ClosedUnder
  <2>3. Reachable(Q, u) \subseteq Reachable(P, u)
    BY <2>1, <2>2, ReachableIsLeast, Zenon
  <2>4. Cardinality(Reachable(P, u)) <= MaxEpisodes /\ Cardinality(Reachable(P, u)) \in Nat
    BY <1>1, <1>5, FS_CardinalityType, Zenon DEF RecoveryChainBounded, recoveryChainDepth
  <2>5. Cardinality(Reachable(Q, u)) <= Cardinality(Reachable(P, u)) /\ Cardinality(Reachable(Q, u)) \in Nat
    BY <1>5, <2>3, FS_Subset, FS_CardinalityType, Zenon
  <2> QED
    BY <2>4, <2>5, MaxEpisodesAssumption
<1>7. Cardinality(Reachable(Q, s)) <= MaxEpisodes
  <2>1. /\ Reachable(P, t) \in SUBSET Tasks /\ P[t] \subseteq Reachable(P, t)
        /\ ClosedUnder(P, Reachable(P, t))
    BY ReachableIsClosed, Zenon
  <2>2. PICK C \in SUBSET Tasks : C = Reachable(P, t) \cup {t}
    BY <2>1, Zenon
  <2>3. Q[s] \subseteq C /\ ClosedUnder(Q, C)
    BY <1>3, <1>4, <1>5, <2>1, <2>2, Zenon DEF ClosedUnder
  <2>4. Reachable(Q, s) \subseteq C
    BY <2>3, ReachableIsLeast, Zenon
  <2>5. IsFiniteSet(C) /\ Cardinality(C) <= Cardinality(Reachable(P, t)) + 1
    <3>1. IsFiniteSet(Reachable(P, t)) /\ Cardinality(Reachable(P, t)) \in Nat
      BY <1>5, FS_CardinalityType, Zenon
    <3>2. /\ IsFiniteSet(Reachable(P, t) \cup {t})
          /\ Cardinality(Reachable(P, t) \cup {t}) =
               IF t \in Reachable(P, t) THEN Cardinality(Reachable(P, t)) ELSE Cardinality(Reachable(P, t)) + 1
      BY <3>1, FS_AddElement, Zenon
    <3> QED
      BY <2>2, <3>1, <3>2
  <2>6. Cardinality(Reachable(P, t)) + 1 <= MaxEpisodes /\ Cardinality(Reachable(P, t)) \in Nat
    BY <1>1, <1>5, FS_CardinalityType, Zenon DEF recoveryChainDepth
  <2>7. /\ Cardinality(Reachable(Q, s)) <= Cardinality(C)
        /\ Cardinality(Reachable(Q, s)) \in Nat /\ Cardinality(C) \in Nat
    BY <2>4, <2>5, FS_Subset, FS_CardinalityType, Zenon
  <2> QED
    BY <2>5, <2>6, <2>7, MaxEpisodesAssumption
<1>8. \A u \in Tasks : Cardinality(Reachable(Q, u)) <= MaxEpisodes
  BY <1>6, <1>7, Zenon
<1> QED
  BY <1>2, <1>8, Zenon DEF RecoveryChainBounded, recoveryChainDepth, Reachable, ClosedUnder

(* No chain of redrives grows past its limit, for any number of tasks and  *)
(* any limit (recoveryChainDepth in redrive.go).                           *)
THEOREM RecoveriesAreBounded == Spec => []RecoveryChainBounded
<1>1. Init => RecoveryChainBounded
  <2> SUFFICES ASSUME Init, NEW t \in Tasks PROVE recoveryChainDepth(t) <= MaxEpisodes
    BY Zenon DEF RecoveryChainBounded
  <2>1. \A x \in Tasks : PriorDeadLetters[x] = {}
    BY TasksAssumption, Zenon DEF Init, PriorDeadLetters
  <2>2. Reachable(PriorDeadLetters, t) = {}
    BY <2>1, Zenon DEF Reachable, ClosedUnder
  <2> QED
    BY <2>2, FS_EmptySet, MaxEpisodesAssumption DEF recoveryChainDepth
<1>2. TypeOK /\ DeadLettersCoherent /\ RecoveryChainBounded /\ [Next]_vars => RecoveryChainBounded'
  <2> SUFFICES ASSUME TypeOK, DeadLettersCoherent, RecoveryChainBounded, [Next]_vars PROVE RecoveryChainBounded'
    BY Zenon
  <2>1. CASE successor' = successor
    BY <2>1, Zenon DEF RecoveryChainBounded, recoveryChainDepth, PriorDeadLetters, Reachable, ClosedUnder
  <2> QED
    BY <2>1, RedriveChain, SuccessorStep, Zenon
<1> QED
  BY <1>1, <1>2, TypeCorrect, DeadLettersAreCoherent, PTL DEF Spec

-----------------------------------------------------------------------------
(* Attempts and leases as history. *)

(* Exactly the attempts opened so far have a lease row. *)
LeasesUsed == \A t \in Tasks, n \in Ordinals : lease[t][n] = "none" <=> n > attemptCount[t]

Closing(t, n) ==
  /\ lease[t][n] = "active"
  /\ \E l \in {"released", "revoked", "expired"}, a \in {"finished", "failed", "cancelled", "lease_expired"} :
       CloseLease(t, n, l, a)

(* What a step may do to attempts and leases: nothing, close the active    *)
(* one of a task, open the next one, or start it.                          *)
LEMMA LeaseKinds ==
  ASSUME TypeOK, [Next]_vars
  PROVE  \/ UNCHANGED <<attemptCount, attempt, lease>>
         \/ \E t \in Tasks, n \in Ordinals : Closing(t, n) \/ StartAttempt(t, n)
         \/ \E t \in Tasks : ClaimCandidate(t) /\ claimOne(t)
<1> USE DEF leaseVars
<1>1. ASSUME NEW t \in Tasks, revokeActiveLease(t)
      PROVE  UNCHANGED <<attemptCount, attempt, lease>> \/ \E n \in Ordinals : Closing(t, n)
  BY <1>1, Zenon DEF revokeActiveLease, Closing
<1>2. ASSUME NEW t \in Tasks, Owner(t)
      PROVE  UNCHANGED <<attemptCount, attempt, lease>> \/ \E n \in Ordinals : Closing(t, n)
  <2>1. UNCHANGED leaseVars \/ revokeActiveLease(t)
    BY <1>2, Zenon DEF Owner, CreateTask, Redrive, createInTx, AddDependency, AddRequirement, RecordEvidence,
       RecordRequirementVerification, Finalize, Block, Unblock, ReleaseCoordinationHold, Cancel
  <2> QED
    BY <1>1, <2>1, Zenon
<1>3. ASSUME NEW t \in Tasks, NEW n \in Ordinals, RecordAttemptResult(t, n) PROVE Closing(t, n)
  <2>1. lease[t][n] = "active"
    BY <1>3, Zenon DEF RecordAttemptResult, verifyLease
  <2>2. \/ CloseLease(t, n, "released", "finished")
        \/ CloseLease(t, n, "released", "failed")
        \/ CloseLease(t, n, "released", "cancelled")
    BY <1>3, Zenon DEF RecordAttemptResult, finishAttempt
  <2> QED
    BY <2>1, <2>2, Zenon DEF Closing
<1>4. ASSUME NEW t \in Tasks, Claim(t)
      PROVE  UNCHANGED <<attemptCount, attempt, lease>> \/ (ClaimCandidate(t) /\ claimOne(t))
  BY <1>4, Zenon DEF Claim
<1>5. ASSUME NEW t \in Tasks, NEW n \in Ordinals, Heartbeat(t, n) PROVE UNCHANGED <<attemptCount, attempt, lease>>
  BY <1>5, Zenon DEF Heartbeat
<1>6. ASSUME NEW t \in Tasks, NEW n \in Ordinals, reconcileExpiredLease(t, n) PROVE Closing(t, n)
  BY <1>6, Zenon DEF reconcileExpiredLease, Closing
<1>7. ASSUME NEW t \in Tasks, reconcileTaskReadiness(t) \/ LeaseTick(t) \/ BecomesDue(t)
      PROVE  UNCHANGED <<attemptCount, attempt, lease>>
  BY <1>7, Zenon DEF reconcileTaskReadiness, LeaseTick, BecomesDue
<1> QED
  BY <1>2, <1>3, <1>4, <1>5, <1>6, <1>7, Zenon DEF Next, Worker, Reconcile, vars

(* Every step preserves LeasesUsed and leaves closed attempts and leases   *)
(* as they are.                                                            *)
LEMMA NextHistory ==
  ASSUME TypeOK, LeaseInv, LeasesUsed, [Next]_vars
  PROVE  /\ LeasesUsed'
         /\ \A t \in Tasks, n \in Ordinals :
              /\ attempt[t][n] \notin InFlight \cup {"none"} => attempt'[t][n] = attempt[t][n]
              /\ lease[t][n] \notin {"active", "none"} => lease'[t][n] = lease[t][n]
<1> DEFINE Kept == \A u \in Tasks, m \in Ordinals :
              /\ attempt[u][m] \notin InFlight \cup {"none"} => attempt'[u][m] = attempt[u][m]
              /\ lease[u][m] \notin {"active", "none"} => lease'[u][m] = lease[u][m]
<1>1. CASE UNCHANGED <<attemptCount, attempt, lease>>
  BY <1>1, Zenon DEF LeasesUsed
<1>2. ASSUME NEW t \in Tasks, NEW n \in Ordinals, Closing(t, n) PROVE LeasesUsed' /\ Kept
  <2>1. PICK l \in {"released", "revoked", "expired"}, a \in {"finished", "failed", "cancelled", "lease_expired"} :
          CloseLease(t, n, l, a)
    BY <1>2, Zenon DEF Closing
  <2>2. lease[t][n] = "active" /\ attempt[t][n] \in InFlight
    BY <1>2, Zenon DEF Closing, LeaseInv, LeaseCoherent
  <2>3. /\ \A u \in Tasks, m \in Ordinals : u # t \/ m # n => lease'[u][m] = lease[u][m] /\ attempt'[u][m] = attempt[u][m]
        /\ lease'[t][n] = l /\ attemptCount' = attemptCount
    BY <2>1, Zenon DEF CloseLease, TypeOK
  <2>4. LeasesUsed'
    BY <2>2, <2>3, SMTT(30) DEF LeasesUsed
  <2>5. Kept
    BY <2>2, <2>3, Zenon
  <2> QED
    BY <2>4, <2>5, Zenon
<1>3. ASSUME NEW t \in Tasks, NEW n \in Ordinals, StartAttempt(t, n) PROVE LeasesUsed' /\ Kept
  <2>1. attempt[t][n] \in InFlight /\ UNCHANGED <<lease, attemptCount>>
    BY <1>3, Zenon DEF StartAttempt, InFlight
  <2>2. \A u \in Tasks, m \in Ordinals : u # t \/ m # n => attempt'[u][m] = attempt[u][m]
    BY <1>3, Zenon DEF StartAttempt, TypeOK
  <2> QED
    BY <2>1, <2>2, Zenon DEF LeasesUsed
<1>4. ASSUME NEW t \in Tasks, ClaimCandidate(t), claimOne(t) PROVE LeasesUsed' /\ Kept
  <2> DEFINE k == attemptCount[t] + 1
  <2>1. k \in Ordinals /\ attemptCount[t] \in Nat /\ k > attemptCount[t]
    BY <1>4, SMTT(30) DEF ClaimCandidate, TypeOK, Ordinals
  <2>2. attempt[t][k] = "none" /\ lease[t][k] = "none"
    BY <2>1, Zenon DEF LeaseInv, AttemptsContiguous, LeasesUsed
  <2>3. /\ \A u \in Tasks, m \in Ordinals : u # t \/ m # k => lease'[u][m] = lease[u][m] /\ attempt'[u][m] = attempt[u][m]
        /\ lease'[t][k] = "active" /\ attemptCount'[t] = k
        /\ \A u \in Tasks : u # t => attemptCount'[u] = attemptCount[u]
    BY <1>4, <2>1 DEF claimOne, TypeOK
  <2>4. Kept
    BY <2>2, <2>3, Zenon
  <2>5. LeasesUsed'
    BY <2>1, <2>3 DEF LeasesUsed, Ordinals
  <2> QED
    BY <2>4, <2>5, Zenon
<1> QED
  BY <1>1, <1>2, <1>3, <1>4, LeaseKinds, Zenon

(* An attempt that was closed, and its lease, are never rewritten: not by  *)
(* a late result, a revocation, an expiry or a later claim.                *)
THEOREM ClosedAttemptsStayClosed == Spec => ClosedAttemptIsFinal
<1> DEFINE Kept == \A t \in Tasks, n \in Ordinals :
              /\ attempt[t][n] \notin InFlight \cup {"none"} => attempt'[t][n] = attempt[t][n]
              /\ lease[t][n] \notin {"active", "none"} => lease'[t][n] = lease[t][n]
<1>1. Init => LeasesUsed
  BY SMTT(30) DEF Init, LeasesUsed, Ordinals
<1>2. TypeOK /\ LeaseInv /\ LeasesUsed /\ [Next]_vars => LeasesUsed' /\ [Kept]_vars
  BY NextHistory, Zenon
<1> QED
  BY <1>1, <1>2, TypeCorrect, LeaseInvHolds, PTL DEF Spec, ClosedAttemptIsFinal

-----------------------------------------------------------------------------
(* The coordination hold. *)

(* No worker, unblock or reconciliation takes a step with a held task, and *)
(* it stays held, ends, or is released.                                    *)
LEMMA HeldStep ==
  ASSUME TypeOK, [Next]_vars, NEW t \in Tasks, isCoordinationHeld(t)
  PROVE  /\ ~(Unblock(t) \/ Worker(t) \/ reconcileTaskReadiness(t))
         /\ \/ isCoordinationHeld(t)'
            \/ status'[t] \in {"rejected", "cancelled"}
            \/ ReleaseCoordinationHold(t)
<1>1. status[t] = "blocked" /\ reason[t] = CoordinationHold
  BY Zenon DEF isCoordinationHeld
<1>2. ~(Unblock(t) \/ Worker(t) \/ reconcileTaskReadiness(t))
  BY <1>1, Zenon DEF Unblock, Worker, Claim, ClaimCandidate, StartAttempt, Heartbeat, RecordAttemptResult, InFlight,
     reconcileTaskReadiness, ReadinessCandidate, isCoordinationHeld, CoordinationHold, Reconcilable
<1>3. ASSUME status'[t] = status[t], reason'[t] = reason[t] PROVE isCoordinationHeld(t)'
  BY <1>1, <1>3, Zenon DEF isCoordinationHeld
<1>4. ASSUME NEW u \in Tasks, RowStep(u), u # t PROVE isCoordinationHeld(t)'
  BY <1>3, <1>4, Zenon DEF RowStep, Untouched
<1>5. ASSUME NEW u \in Tasks, u # t, Owner(u) \/ Worker(u) \/ Reconcile(u) PROVE isCoordinationHeld(t)'
  <2>1. RowStep(u) \/ \E s \in Tasks : ~Exists(s) /\ RowStep(s)
    BY <1>5, OwnerRow, WorkerRow, ReconcileRow, Zenon
  <2> QED
    BY <1>1, <1>4, <1>5, <2>1, Zenon DEF Exists
<1>6. ASSUME Owner(t)
      PROVE  \/ isCoordinationHeld(t)'
             \/ status'[t] \in {"rejected", "cancelled"}
             \/ ReleaseCoordinationHold(t)
  <2>1. ~CreateTask(t)
    BY <1>1, Zenon DEF CreateTask, createInTx, Exists
  <2>2. ASSUME NEW s \in Tasks, Redrive(t, s) PROVE isCoordinationHeld(t)'
    <3>1. s # t
      BY <1>1, <2>2, Zenon DEF Redrive, createInTx, Exists
    <3> QED
      BY <1>4, <2>2, <3>1, CreateRow, Zenon DEF Redrive
  <2>3. ASSUME NEW d \in Tasks, AddDependency(t, d) PROVE isCoordinationHeld(t)'
    BY <1>1, <1>3, <2>3, Zenon DEF AddDependency
  <2>4. ASSUME UNCHANGED <<status, reason>> PROVE isCoordinationHeld(t)'
    BY <1>3, <2>4, Zenon
  <2>5. ASSUME NEW o \in Terminal \ {"dead_letter"}, Finalize(t, o) PROVE status'[t] \in {"rejected", "cancelled"}
    BY <1>1, <2>5, SMTT(30) DEF Finalize, transitionTask, CanTransition, allowedTransitions, Terminal, TypeOK
  <2>6. ASSUME NEW w \in BlockReasons, NEW v \in BOOLEAN PROVE ~Block(t, w, v)
    BY <1>1, Zenon DEF Block
  <2>7. CASE Cancel(t)
    BY <2>7, TransitionRow, Zenon DEF Cancel
  <2> QED
    BY <1>2, <1>6, <2>1, <2>2, <2>3, <2>4, <2>5, <2>6, <2>7, Zenon
    DEF Owner, AddRequirement, RecordEvidence, RecordRequirementVerification
<1>7. ASSUME NEW n \in Ordinals, reconcileExpiredLease(t, n) PROVE isCoordinationHeld(t)'
  BY <1>1, <1>3, <1>7, Zenon DEF reconcileExpiredLease, InFlight
<1>8. ASSUME NEW u \in Tasks, LeaseTick(u) \/ BecomesDue(u) PROVE isCoordinationHeld(t)'
  BY <1>3, <1>8, Zenon DEF LeaseTick, BecomesDue
<1>9. CASE UNCHANGED vars
  BY <1>2, <1>3, <1>9, Zenon DEF vars
<1>10. CASE Reconcile(t)
  BY <1>2, <1>7, <1>10, Zenon DEF Reconcile
<1> QED
  BY <1>2, <1>5, <1>6, <1>8, <1>9, <1>10, Zenon DEF Next

(* A held task leaves its hold through ReleaseCoordinationHold, or ends:   *)
(* claims, unblocks and reconciliations never touch it (mutate.go,         *)
(* isCoordinationHeld).                                                    *)
THEOREM HoldsAreBarriers == Spec => HoldIsABarrier
<1> DEFINE Held == \A t \in Tasks : isCoordinationHeld(t) =>
       /\ ~(Unblock(t) \/ Worker(t) \/ reconcileTaskReadiness(t))
       /\ \/ isCoordinationHeld(t)'
          \/ status'[t] \in {"rejected", "cancelled"}
          \/ ReleaseCoordinationHold(t)
<1>1. TypeOK /\ [Next]_vars => [Held]_vars
  BY HeldStep, Zenon
<1> QED
  BY <1>1, TypeCorrect, PTL DEF Spec, HoldIsABarrier
=============================================================================
