--------------------------- MODULE ReconcilerPass ---------------------------
(***************************************************************************)
(* The task engine with the reconciler's readiness pass as it runs: one    *)
(* query selects and locks at most Batch candidates, oldest available_at   *)
(* first, the pass works through them in that order, and the next pass     *)
(* selects again.                                                          *)
(*                                                                         *)
(* queue is the order of available_at among the tasks whose time has come. *)
(* A time is set to "now" or to a later moment, so a task joins at the end *)
(* when it becomes due.                                                    *)
(***************************************************************************)
EXTENDS TaskEngine, SequencesExt

CONSTANT Batch  \* ORG_TASK_RECONCILE_BATCH_SIZE

ASSUME BatchAssumption == Batch \in Nat /\ Batch > 0

VARIABLES
  queue,    \* tasks with available_at <= now, by available_at
  selected  \* candidates the running pass holds and has not examined yet

passVars == <<vars, queue, selected>>

PassInit == Init /\ queue = <<>> /\ selected = <<>>

(* Mutant: a task whose time was moved keeps its old place too. *)
RequeueTwice == queue' = queue \o SetToSeq({t \in Tasks : due'[t] /\ ~due[t]})

(* What a step of the engine does to the order of available_at. *)
Requeue ==
  LET kept == SelectSeq(queue, LAMBDA t : due'[t])
      joined == {t \in Tasks : due'[t] /\ ~due[t]}
  IN queue' = kept \o SetToSeq(joined)

(* Rows of the running pass are locked: other operations on them wait. *)
Locked(t) == Contains(selected, t)

Outside(t, Operation) == ~Locked(t) /\ Operation /\ Requeue /\ UNCHANGED selected

Others(t) ==
  \/ Outside(t, Owner(t) \/ Worker(t) \/ LeaseTick(t) \/ BecomesDue(t))
  \/ \E n \in Ordinals : Outside(t, reconcileExpiredLease(t, n))

SelectBatch ==
  LET candidates == SelectSeq(queue, LAMBDA t : ReadinessCandidate(t))
  IN /\ selected = <<>> /\ candidates # <<>>
     /\ selected' = SubSeq(candidates, 1, IF Len(candidates) < Batch THEN Len(candidates) ELSE Batch)
     /\ UNCHANGED <<vars, queue>>

(* A candidate the pass leaves as it is. *)
Skipped(t) ==
  /\ ~TerminalFailure(t)
  /\ IF Waiting(t) THEN status[t] # "retry_wait" ELSE attemptCount[t] >= MaxAttempts
  /\ UNCHANGED vars

ExamineNext ==
  /\ selected # <<>>
  /\ reconcileTaskReadiness(Head(selected)) \/ Skipped(Head(selected))
  /\ Requeue
  /\ selected' = Tail(selected)

PassNext == SelectBatch \/ ExamineNext \/ \E t \in Tasks : Others(t)

(* orgd and the orchestrator run the reconciler periodically, and time     *)
(* passes.  Nothing is assumed of workers, owners or operators.            *)
PassSpec ==
  /\ PassInit /\ [][PassNext]_passVars
  /\ WF_passVars(SelectBatch) /\ WF_passVars(ExamineNext)
  /\ \A t \in Tasks :
       /\ WF_passVars(Outside(t, BecomesDue(t)))
       /\ \A n \in Ordinals : WF_passVars(Outside(t, reconcileExpiredLease(t, n)))

-----------------------------------------------------------------------------
(* Properties. *)

(* queue lists the due tasks once each, and a pass holds only tasks that   *)
(* are candidates still, none twice.                                       *)
PassTypeOK ==
  /\ IsInjective(queue) /\ ToSet(queue) = {t \in Tasks : due[t]}
  /\ IsInjective(selected) /\ Len(selected) <= Batch
  /\ \A t \in ToSet(selected) : ReadinessCandidate(t)

(* An overdue lease does not wedge its task: the reconciler takes the      *)
(* attempt away from its worker, or someone ends it or extends it first.   *)
OverdueLeaseIsReclaimed ==
  \A t \in Tasks : (HasActiveLease(t) /\ ttl[t] = 0) ~> ~HasActiveLease(t)

(* A retry is never lost: a task that waits to retry leaves that state. *)
RetryIsTakenUp == \A t \in Tasks : status[t] = "retry_wait" ~> status[t] # "retry_wait"

(* No task stays pending for ever with its dependencies all completed. *)
PendingIsPromoted ==
  \A t \in Tasks : []<>~(status[t] = "pending" /\ \A d \in deps[t] : status[d] = "completed")

(* A dependent of a task that ended uncompleted does not stay pending. *)
FailureReachesDependents ==
  \A t \in Tasks :
    (status[t] = "pending" /\ \E d \in deps[t] : status[d] \in Terminal \ {"completed"})
      ~> status[t] # "pending"
=============================================================================
