----------------------------- MODULE TaskEngine -----------------------------
(***************************************************************************)
(* The durable task engine (internal/tasks and internal/tasks/postgres).   *)
(* Every operation of the store runs in one database transaction that      *)
(* first locks the task's row, so an operation is one action here.  The    *)
(* operations whose locking is itself in question have modules of their    *)
(* own (AddDependencyRace, ClaimAncestors, ReconcilerPass).                *)
(*                                                                         *)
(* Time is abstract: ttl[t] is what is left of the task's active lease     *)
(* (expires_at - now, in ticks) and due[t] says available_at <= now.  Each *)
(* row's time passes on its own, which allows every order of expiries.     *)
(* A token is returned by the claim that opens an attempt and checked      *)
(* against that attempt's lease row, so a call "with the token of attempt  *)
(* n" is a call with argument n; n ranges over every attempt ever opened,  *)
(* so late and repeated calls of superseded workers are included.          *)
(***************************************************************************)
EXTENDS TaskStates, DependencyGraph, Integers, FiniteSets

(* Tasks, declared in DependencyGraph, are the identities of tasks: a      *)
(* task's identity is its idempotency key.                                 *)
CONSTANTS
  None,          \* "no task"
  Parent,        \* the causation parent each task is created with, or None
  NonScoping,    \* tasks of a class that does not scope its descendants
  Reqs,          \* keys of required requirements (no guard reads optional ones)
  MaxAttempts,   \* tasks.max_attempts
  LeaseTicks,    \* MaxLeaseDuration
  MaxEpisodes,   \* the largest MaxRecoveryEpisodes of a redrive command
  BlockReasons,  \* reason codes callers of BlockTask pass
  Edges,         \* dependencies <<task, depends on>> callers ask for
  Required       \* requirements <<task, key>> callers ask for

ASSUME TasksAssumption == None \notin Tasks /\ IsFiniteSet(Tasks)
ASSUME ParentAssumption == Parent \in [Tasks -> Tasks \cup {None}] /\ NonScoping \subseteq Tasks
ASSUME MaxAttemptsAssumption == MaxAttempts \in Nat /\ MaxAttempts > 0
ASSUME LeaseTicksAssumption == LeaseTicks \in Nat /\ LeaseTicks > 0
ASSUME MaxEpisodesAssumption == MaxEpisodes \in Nat /\ MaxEpisodes > 0
ASSUME BlockReasonsAssumption == BlockReasons \subseteq BlockedReason
ASSUME EdgesAssumption == Edges \subseteq Tasks \X Tasks
ASSUME RequiredAssumption == Required \subseteq Tasks \X Reqs

VARIABLES
  status,        \* tasks.status
  reason,        \* tasks.status_reason_code of a blocked task
  due,           \* tasks.available_at <= clock_timestamp()
  deps,          \* task_dependencies
  req,           \* task_requirements.status of each required requirement
  attemptCount,  \* tasks.attempt_count
  attempt,       \* task_attempts.state by ordinal
  lease,         \* task_leases.status by the ordinal of its attempt
  ttl,           \* ticks until the active lease expires
  deadLetters,   \* tasks with a row in task_dead_letters
  successor      \* task_dead_letters.redrive_task_id

leaseVars == <<attemptCount, attempt, lease, ttl>>
recoveryVars == <<deadLetters, successor>>
vars == <<status, reason, due, deps, req, leaseVars, recoveryVars>>

Ordinals == 1..MaxAttempts
InFlight == {"leased", "running"}

Exists(t) == status[t] # "absent"

Init ==
  /\ status = [t \in Tasks |-> "absent"]
  /\ reason = [t \in Tasks |-> NoReason]
  /\ due = [t \in Tasks |-> FALSE]
  /\ deps = [t \in Tasks |-> {}]
  /\ req = [t \in Tasks |-> [r \in Reqs |-> "none"]]
  /\ attemptCount = [t \in Tasks |-> 0]
  /\ attempt = [t \in Tasks |-> [n \in Ordinals |-> "none"]]
  /\ lease = [t \in Tasks |-> [n \in Ordinals |-> "none"]]
  /\ ttl = [t \in Tasks |-> 0]
  /\ deadLetters = {}
  /\ successor = [t \in Tasks |-> None]

-----------------------------------------------------------------------------
(* Status changes. *)

(* Mutant: no ValidateTransition. *)
transitionUnchecked(t, to, why) ==
  /\ status' = [status EXCEPT ![t] = to]
  /\ reason' = [reason EXCEPT ![t] = IF to = "blocked" THEN why ELSE NoReason]

transitionTask(t, to, why) ==
  /\ CanTransition(status[t], to)
  /\ status' = [status EXCEPT ![t] = to]
  /\ reason' = [reason EXCEPT ![t] = IF to = "blocked" THEN why ELSE NoReason]

(* inspectDependencies *)
Waiting(t) == \E d \in deps[t] : status[d] \notin Terminal
TerminalFailure(t) == \E d \in deps[t] : status[d] \in EndedUncompleted

isCoordinationHeld(t) == status[t] = "blocked" /\ reason[t] = CoordinationHold

(* Mutant: a released task is not held back by its dependencies. *)
releaseIgnoresDependencies(t) == IF due[t] THEN "ready" ELSE "pending"

releaseTargetStatus(t) == IF Waiting(t) \/ ~due[t] THEN "pending" ELSE "ready"

-----------------------------------------------------------------------------
(* Leases and attempts. *)

HasActiveLease(t) == \E n \in Ordinals : lease[t][n] = "active"

verifyLease(t, n) == lease[t][n] = "active" /\ ttl[t] > 0

(* Mutant: the lease is closed and its attempt left open. *)
CloseLeaseOnly(t, n, leaseTo, attemptTo) ==
  /\ lease' = [lease EXCEPT ![t][n] = leaseTo]
  /\ UNCHANGED <<attemptCount, attempt, ttl>>

CloseLease(t, n, leaseTo, attemptTo) ==
  /\ lease' = [lease EXCEPT ![t][n] = leaseTo]
  /\ attempt' = [attempt EXCEPT ![t][n] = IF @ \in InFlight THEN attemptTo ELSE @]
  /\ UNCHANGED <<attemptCount, ttl>>

finishAttempt(t, n, attemptTo) ==
  /\ attempt[t][n] = "running"
  /\ CloseLease(t, n, "released", attemptTo)

(* Mutant: the active lease survives. *)
revokeNothing(t) == UNCHANGED leaseVars

(* activeLeaseAttempt followed by revokeLease, when there is one. *)
revokeActiveLease(t) ==
  \/ \E n \in Ordinals : lease[t][n] = "active" /\ CloseLease(t, n, "revoked", "cancelled")
  \/ ~HasActiveLease(t) /\ UNCHANGED leaseVars

-----------------------------------------------------------------------------
(* Creation.  held: HoldForCoordination; scheduled: AvailableAt is given;  *)
(* isDue: that time has passed already.  A second create under the same    *)
(* idempotency key changes nothing.                                        *)

prepareCreate(D, held, scheduled) ==
  IF held THEN "blocked" ELSE IF D # {} \/ scheduled THEN "pending" ELSE "ready"

createInTx(t, D, R, held, scheduled, isDue) ==
  /\ ~Exists(t)
  /\ \A d \in D : Exists(d)
  /\ Parent[t] # None => Exists(Parent[t])
  /\ ~scheduled => isDue
  /\ status' = [status EXCEPT ![t] = prepareCreate(D, held, scheduled)]
  /\ reason' = [reason EXCEPT ![t] = IF held THEN CoordinationHold ELSE NoReason]
  /\ due' = [due EXCEPT ![t] = isDue]
  /\ deps' = [deps EXCEPT ![t] = D]
  /\ req' = [req EXCEPT ![t] = [r \in Reqs |-> IF r \in R THEN "pending" ELSE "none"]]
  /\ UNCHANGED leaseVars

CreateInputs(t) == [D : SUBSET {d \in Tasks : <<t, d>> \in Edges},
                    R : SUBSET {r \in Reqs : <<t, r>> \in Required},
                    held : BOOLEAN, scheduled : BOOLEAN, isDue : BOOLEAN]

CreateTask(t) ==
  /\ \E i \in CreateInputs(t) : createInTx(t, i.D, i.R, i.held, i.scheduled, i.isDue)
  /\ UNCHANGED recoveryVars

-----------------------------------------------------------------------------
(* Changes of the graph, the requirements and the evidence. *)

AddDependency(t, d) ==
  /\ t # d /\ Exists(t) /\ Exists(d)
  /\ status[t] \notin Terminal \cup InFlight \cup {"awaiting_verification"}
  /\ ~WouldCycle(deps, t, d)
  /\ d \notin deps[t]
  /\ deps' = AddEdge(deps, t, d)
  /\ IF status[t] = "ready" /\ status[d] # "completed"
       THEN transitionTask(t, "blocked", "dependency_unsatisfied")
       ELSE UNCHANGED <<status, reason>>
  /\ UNCHANGED <<due, req, leaseVars, recoveryVars>>

AddRequirement(t, r) ==
  /\ status[t] \in {"pending", "ready", "blocked", "awaiting_verification"}
  /\ req[t][r] = "none"
  /\ req' = [req EXCEPT ![t][r] = "pending"]
  /\ UNCHANGED <<status, reason, due, deps, leaseVars, recoveryVars>>

(* RecordEvidence with Satisfies; other evidence changes nothing a guard reads. *)
RecordEvidence(t, r) ==
  /\ status[t] \in NonTerminal
  /\ req[t][r] = "pending"
  /\ req' = [req EXCEPT ![t][r] = "satisfied"]
  /\ UNCHANGED <<status, reason, due, deps, leaseVars, recoveryVars>>

RecordRequirementVerification(t, r, verdict) ==
  /\ status[t] \in NonTerminal
  /\ req[t][r] = "pending"
  /\ req' = [req EXCEPT ![t][r] = verdict]
  /\ UNCHANGED <<status, reason, due, deps, leaseVars, recoveryVars>>

-----------------------------------------------------------------------------
(* Claims. *)

Ancestors[t \in Tasks] ==
  IF Parent[t] = None THEN {} ELSE {Parent[t]} \cup Ancestors[Parent[t]]

blockingAncestor(t) ==
  \E a \in Ancestors[t] \ NonScoping : status[a] \in BlocksDescendantClaim

ClaimCandidate(t) ==
  /\ status[t] = "ready" /\ attemptCount[t] < MaxAttempts /\ due[t]
  /\ ~blockingAncestor(t)

claimOne(t) ==
  /\ attemptCount' = [attemptCount EXCEPT ![t] = @ + 1]
  /\ attempt' = [attempt EXCEPT ![t][attemptCount[t] + 1] = "leased"]
  /\ lease' = [lease EXCEPT ![t][attemptCount[t] + 1] = "active"]
  /\ \E duration \in 1..LeaseTicks : ttl' = [ttl EXCEPT ![t] = duration]
  /\ transitionTask(t, "leased", NoReason)
  /\ UNCHANGED due

(* The per-candidate body of Claim, and ClaimSpecific.  The assignee and   *)
(* the capacity answers come from outside the engine.                      *)
Claim(t) ==
  /\ ClaimCandidate(t)
  /\ \/ claimOne(t)
     \/ /\ transitionTask(t, "blocked", "assignee_unavailable")
        /\ UNCHANGED <<due, leaseVars>>
     \/ /\ transitionTask(t, "blocked", "capacity")
        /\ \E isDue \in BOOLEAN : due' = [due EXCEPT ![t] = isDue]
        /\ UNCHANGED leaseVars
  /\ UNCHANGED <<deps, req, recoveryVars>>

StartAttempt(t, n) ==
  /\ status[t] = "leased" /\ verifyLease(t, n)
  /\ attempt[t][n] = "leased"
  /\ attempt' = [attempt EXCEPT ![t][n] = "running"]
  /\ transitionTask(t, "running", NoReason)
  /\ UNCHANGED <<due, deps, req, attemptCount, lease, ttl, recoveryVars>>

(* Mutant: an extension may pass the longest lease. *)
HeartbeatTooLong(t, n) ==
  /\ status[t] \in InFlight /\ verifyLease(t, n)
  /\ \E extension \in 1..(LeaseTicks + 1) : ttl' = [ttl EXCEPT ![t] = extension]
  /\ UNCHANGED <<status, reason, due, deps, req, attemptCount, attempt, lease, recoveryVars>>

Heartbeat(t, n) ==
  /\ status[t] \in InFlight /\ verifyLease(t, n)
  /\ \E extension \in 1..LeaseTicks : ttl' = [ttl EXCEPT ![t] = extension]
  /\ UNCHANGED <<status, reason, due, deps, req, attemptCount, attempt, lease, recoveryVars>>

(* The task's next step once an attempt failed for a retryable reason:     *)
(* dead letter when the attempts are used up, otherwise a delayed retry.   *)
RetryOrDeadLetter(t) ==
  IF attemptCount[t] >= MaxAttempts
    THEN /\ deadLetters' = deadLetters \cup {t}
         /\ transitionTask(t, "dead_letter", NoReason)
         /\ UNCHANGED <<due, successor>>
    ELSE /\ due' = [due EXCEPT ![t] = FALSE]
         /\ transitionTask(t, "retry_wait", NoReason)
         /\ UNCHANGED recoveryVars

RecordAttemptResult(t, n) ==
  /\ status[t] = "running" /\ verifyLease(t, n)
  /\ \/ /\ finishAttempt(t, n, "finished")
        /\ transitionTask(t, "awaiting_verification", NoReason)
        /\ UNCHANGED <<due, recoveryVars>>
     \/ /\ finishAttempt(t, n, "failed")
        /\ attemptCount[t] >= MaxAttempts => t \notin deadLetters
        /\ RetryOrDeadLetter(t)
     \/ /\ finishAttempt(t, n, "failed")
        /\ transitionTask(t, "failed", NoReason)
        /\ UNCHANGED <<due, recoveryVars>>
     \/ /\ finishAttempt(t, n, "cancelled")
        /\ transitionTask(t, "cancelled", NoReason)
        /\ UNCHANGED <<due, recoveryVars>>
  /\ UNCHANGED <<deps, req>>

-----------------------------------------------------------------------------
(* Decisions of owners, operators and the verifier. *)

(* Mutant: a failed requirement does not stand in the way. *)
FinalizeDespiteFailure(t, outcome) ==
  /\ outcome \in {"completed", "no_action", "failed"} => status[t] = "awaiting_verification"
  /\ outcome = "completed" => \A r \in Reqs : req[t][r] # "pending"

FinalizeRequirement(t, outcome) ==
  /\ outcome \in {"completed", "no_action", "failed"} => status[t] = "awaiting_verification"
  /\ outcome = "completed" => \A r \in Reqs : req[t][r] \in {"none", "satisfied"}

Finalize(t, outcome) ==
  /\ FinalizeRequirement(t, outcome)
  /\ IF outcome = "cancelled" THEN revokeActiveLease(t) ELSE UNCHANGED leaseVars
  /\ transitionTask(t, outcome, NoReason)
  /\ UNCHANGED <<due, deps, req, recoveryVars>>

Block(t, why, revoke) ==
  /\ status[t] \in NonTerminal \ {"blocked"}
  /\ HasActiveLease(t) => revoke
  /\ revokeActiveLease(t)
  /\ transitionTask(t, "blocked", why)
  /\ UNCHANGED <<due, deps, req, recoveryVars>>

(* Mutant: the attempts used up are not looked at. *)
UnblockExhausted(t) ==
  /\ status[t] = "blocked" /\ ~isCoordinationHeld(t)
  /\ ~TerminalFailure(t)
  /\ transitionTask(t, releaseTargetStatus(t), NoReason)
  /\ UNCHANGED <<due, deps, req, leaseVars, recoveryVars>>

(* Mutant: a coordination hold is lifted like any other block. *)
UnblockHeld(t) ==
  /\ status[t] = "blocked" /\ attemptCount[t] < MaxAttempts
  /\ ~TerminalFailure(t)
  /\ transitionTask(t, releaseTargetStatus(t), NoReason)
  /\ UNCHANGED <<due, deps, req, leaseVars, recoveryVars>>

(* The assignee answer of Unblock and ReleaseCoordinationHold was read     *)
(* before the transaction began: either answer may be in hand.             *)
Unblock(t) ==
  /\ status[t] = "blocked" /\ ~isCoordinationHeld(t)
  /\ attemptCount[t] < MaxAttempts
  /\ ~TerminalFailure(t)
  /\ transitionTask(t, releaseTargetStatus(t), NoReason)
  /\ UNCHANGED <<due, deps, req, leaseVars, recoveryVars>>

ReleaseCoordinationHold(t) ==
  /\ isCoordinationHeld(t)
  /\ ~TerminalFailure(t)
  /\ transitionTask(t, releaseTargetStatus(t), NoReason)
  /\ UNCHANGED <<due, deps, req, leaseVars, recoveryVars>>

Cancel(t) ==
  /\ status[t] \in NonTerminal
  /\ revokeActiveLease(t)
  /\ transitionTask(t, "cancelled", NoReason)
  /\ UNCHANGED <<due, deps, req, recoveryVars>>

-----------------------------------------------------------------------------
(* The reconciler, one row at a time. *)

(* Mutant: leases closed before are expired again. *)
reconcileEveryLease(t, n) ==
  /\ lease[t][n] # "none" /\ ttl[t] = 0
  /\ CloseLease(t, n, "expired", "lease_expired")
  /\ IF status[t] \in InFlight
       THEN RetryOrDeadLetter(t)
       ELSE UNCHANGED <<status, reason, due, recoveryVars>>
  /\ UNCHANGED <<deps, req>>

(* Mutant: only running tasks lose an expired lease. *)
reconcileRunningLease(t, n) ==
  /\ lease[t][n] = "active" /\ ttl[t] = 0 /\ status[t] = "running"
  /\ CloseLease(t, n, "expired", "lease_expired")
  /\ RetryOrDeadLetter(t)
  /\ UNCHANGED <<deps, req>>

reconcileExpiredLease(t, n) ==
  /\ lease[t][n] = "active" /\ ttl[t] = 0
  /\ CloseLease(t, n, "expired", "lease_expired")
  /\ IF status[t] \in InFlight
       THEN RetryOrDeadLetter(t)
       ELSE UNCHANGED <<status, reason, due, recoveryVars>>
  /\ UNCHANGED <<deps, req>>

(* Mutants: retries, or pending tasks, are not selected. *)
CandidateWithoutRetries(t) ==
  due[t] /\ (status[t] = "pending" \/ (status[t] = "blocked" /\ reason[t] \in Reconcilable))

CandidateWithoutPending(t) ==
  due[t] /\ (status[t] = "retry_wait" \/ (status[t] = "blocked" /\ reason[t] \in Reconcilable))

ReadinessCandidate(t) ==
  /\ due[t]
  /\ \/ status[t] \in {"pending", "retry_wait"}
     \/ status[t] = "blocked" /\ reason[t] \in Reconcilable

(* Block the task, or relabel it when it is blocked already. *)
BlockFor(t, why) ==
  /\ status' = [status EXCEPT ![t] = "blocked"]
  /\ reason' = [reason EXCEPT ![t] = why]

reconcileTaskReadiness(t) ==
  /\ ReadinessCandidate(t)
  /\ \/ /\ TerminalFailure(t)
        /\ BlockFor(t, "dependency_terminal")
        /\ UNCHANGED due
     \/ /\ ~TerminalFailure(t) /\ Waiting(t) /\ status[t] = "retry_wait"
        /\ BlockFor(t, "dependency_unsatisfied")
        /\ UNCHANGED due
     \/ /\ ~TerminalFailure(t) /\ ~Waiting(t)
        /\ \/ /\ BlockFor(t, "assignee_unavailable")
              /\ UNCHANGED due
           \/ /\ BlockFor(t, "capacity")
              /\ \E isDue \in BOOLEAN : due' = [due EXCEPT ![t] = isDue]
           \/ /\ attemptCount[t] < MaxAttempts
              /\ transitionTask(t, "ready", NoReason)
              /\ UNCHANGED due
  /\ UNCHANGED <<deps, req, leaseVars, recoveryVars>>

-----------------------------------------------------------------------------
(* Recovery of dead letters.  Redrive creates a new task, never adopts an  *)
(* existing one, and stamps the link in the same transaction.              *)

PriorDeadLetters == [t \in Tasks |-> {p \in Tasks : successor[p] = t}]

(* The query takes the longest backward path; as a task succeeds at most   *)
(* one dead letter, that is the number of dead letters behind t.           *)
recoveryChainDepth(t) == Cardinality(Reachable(PriorDeadLetters, t))

(* Mutant: an existing task is adopted as the successor. *)
RedriveAdopts(t, s) ==
  /\ t \in deadLetters /\ successor[t] = None
  /\ recoveryChainDepth(t) + 1 <= MaxEpisodes
  /\ Exists(s)
  /\ successor' = [successor EXCEPT ![t] = s]
  /\ UNCHANGED <<status, reason, due, deps, req, leaseVars, deadLetters>>

(* Mutant: one recovery episode too many. *)
RedriveOnceMore(t, s) ==
  /\ t \in deadLetters /\ successor[t] = None
  /\ recoveryChainDepth(t) <= MaxEpisodes
  /\ \E i \in CreateInputs(s) : createInTx(s, i.D, i.R, i.held, i.scheduled, i.isDue)
  /\ successor' = [successor EXCEPT ![t] = s]
  /\ UNCHANGED deadLetters

Redrive(t, s) ==
  /\ t \in deadLetters /\ successor[t] = None
  /\ recoveryChainDepth(t) + 1 <= MaxEpisodes
  /\ \E i \in CreateInputs(s) : createInTx(s, i.D, i.R, i.held, i.scheduled, i.isDue)
  /\ successor' = [successor EXCEPT ![t] = s]
  /\ UNCHANGED deadLetters

-----------------------------------------------------------------------------
(* The passing of time. *)

LeaseTick(t) ==
  /\ HasActiveLease(t) /\ ttl[t] > 0
  /\ ttl' = [ttl EXCEPT ![t] = @ - 1]
  /\ UNCHANGED <<status, reason, due, deps, req, attemptCount, attempt, lease, recoveryVars>>

BecomesDue(t) ==
  /\ Exists(t) /\ ~due[t]
  /\ due' = [due EXCEPT ![t] = TRUE]
  /\ UNCHANGED <<status, reason, deps, req, leaseVars, recoveryVars>>

-----------------------------------------------------------------------------
Reconcile(t) ==
  \/ \E n \in Ordinals : reconcileExpiredLease(t, n)
  \/ reconcileTaskReadiness(t)

Worker(t) ==
  \/ Claim(t)
  \/ \E n \in Ordinals : StartAttempt(t, n) \/ Heartbeat(t, n) \/ RecordAttemptResult(t, n)

Owner(t) ==
  \/ CreateTask(t)
  \/ \E s \in Tasks : Redrive(t, s)
  \/ \E d \in Tasks : <<t, d>> \in Edges /\ AddDependency(t, d)
  \/ \E r \in Reqs : (<<t, r>> \in Required /\ AddRequirement(t, r)) \/ RecordEvidence(t, r)
  \/ \E r \in Reqs, verdict \in {"satisfied", "failed"} : RecordRequirementVerification(t, r, verdict)
  \/ \E outcome \in Terminal \ {"dead_letter"} : Finalize(t, outcome)
  \/ \E why \in BlockReasons, revoke \in BOOLEAN : Block(t, why, revoke)
  \/ Unblock(t) \/ ReleaseCoordinationHold(t) \/ Cancel(t)

Next == \E t \in Tasks : Owner(t) \/ Worker(t) \/ Reconcile(t) \/ LeaseTick(t) \/ BecomesDue(t)

Spec == Init /\ [][Next]_vars

-----------------------------------------------------------------------------
(* Properties. *)

(* Every variable has the shape of its column. *)
TypeOK ==
  /\ status \in [Tasks -> Status]
  /\ reason \in [Tasks -> Reason]
  /\ due \in [Tasks -> BOOLEAN]
  /\ deps \in [Tasks -> SUBSET Tasks]
  /\ req \in [Tasks -> [Reqs -> RequirementStatus]]
  /\ attemptCount \in [Tasks -> 0..MaxAttempts]
  /\ attempt \in [Tasks -> [Ordinals -> AttemptState]]
  /\ lease \in [Tasks -> [Ordinals -> LeaseStatus]]
  /\ ttl \in [Tasks -> 0..LeaseTicks]
  /\ deadLetters \in SUBSET Tasks
  /\ successor \in [Tasks -> Tasks \cup {None}]

(* A lease is active exactly on the latest attempt of a leased or running  *)
(* task, and that attempt is in the task's own state.  So the tokens of    *)
(* all earlier attempts are dead, whatever was revoked, expired or retried *)
(* in between (claimOne, verifyLease, revokeLease, reconcileExpiredLeases; *)
(* the unique index on active leases never refuses a claim).               *)
LeaseCoherent ==
  \A t \in Tasks :
    /\ status[t] \in InFlight => HasActiveLease(t)
    /\ \A n \in Ordinals : lease[t][n] = "active" =>
         status[t] \in InFlight /\ n = attemptCount[t] /\ attempt[t][n] = status[t]

(* attempt_count counts the attempts: ordinals are contiguous, every       *)
(* earlier attempt is closed, and only attempts opened by a claim exist.   *)
AttemptsContiguous ==
  \A t \in Tasks, n \in Ordinals :
    /\ attempt[t][n] = "none" <=> n > attemptCount[t]
    /\ attempt[t][n] \in InFlight => n = attemptCount[t] /\ status[t] = attempt[t][n]

(* Work is claimable, under way or finished only with every dependency     *)
(* completed: no order of AddDependency, Unblock, hold release, retry and  *)
(* reconciliation lets a task start ahead of a dependency.                 *)
StartsAfterDependencies ==
  \A t \in Tasks :
    status[t] \in {"ready", "leased", "running", "awaiting_verification", "completed", "no_action"}
      => \A d \in deps[t] : status[d] = "completed"

(* The dependency graph of operations that do not overlap has no cycle. *)
DependenciesAcyclic == Acyclic(deps)

(* A task is given a turn only with an attempt left for it.  A step that   *)
(* makes a task pending, ready or waiting to retry leaves it an attempt,   *)
(* and a task becomes ready when its time has come: the claim skips others *)
(* and the reconciler never looks at ready tasks, so they would stay       *)
(* behind for ever.  One step is excepted, because the code does it:       *)
(* BlockTask accepts the hold's reason code on a task already attempted,   *)
(* and ReleaseCoordinationHold does not look at the attempts.              *)
TurnHasAttempt ==
  [][\A t \in Tasks :
       status'[t] # status[t] /\ status'[t] \in {"pending", "ready", "retry_wait"} =>
         /\ attemptCount'[t] < MaxAttempts \/ isCoordinationHeld(t)
         /\ status'[t] = "ready" => due'[t]]_vars

(* A completed task has every required requirement satisfied, also the     *)
(* ones added while it awaited verification, and stays that way.           *)
CompletedIsSatisfied ==
  \A t \in Tasks : status[t] = "completed" => \A r \in Reqs : req[t][r] \in {"none", "satisfied"}

(* A dead letter exists exactly for the tasks that used up their attempts; *)
(* only a dead letter has a successor, and no task succeeds two of them or *)
(* itself.                                                                 *)
DeadLettersCoherent ==
  \A t \in Tasks :
    /\ t \in deadLetters <=> status[t] = "dead_letter"
    /\ t \in deadLetters => attemptCount[t] = MaxAttempts
    /\ successor[t] # None => t \in deadLetters /\ successor[t] # t /\ Exists(successor[t])
    /\ \A u \in Tasks : successor[t] = successor[u] /\ successor[t] # None => t = u

(* No chain of redrives is longer than the largest MaxRecoveryEpisodes any *)
(* of its commands carried.                                                *)
RecoveryChainBounded == \A t \in Tasks : recoveryChainDepth(t) <= MaxEpisodes

(* No terminal task is ever reopened or loses its dead letter's link. *)
TerminalIsFinal ==
  [][\A t \in Tasks :
       /\ status[t] \in Terminal => status'[t] = status[t]
       /\ successor[t] # None => successor'[t] = successor[t]]_vars

(* Once closed, an attempt and its lease are history: no later call with   *)
(* that attempt's token, revocation or expiry rewrites them.               *)
ClosedAttemptIsFinal ==
  [][\A t \in Tasks, n \in Ordinals :
       /\ attempt[t][n] \notin InFlight \cup {"none"} => attempt'[t][n] = attempt[t][n]
       /\ lease[t][n] \notin {"active", "none"} => lease'[t][n] = lease[t][n]]_vars

(* A held task is published by ReleaseCoordinationHold alone: no claim,    *)
(* unblock or reconciliation takes a step with it, and whatever else       *)
(* happens it stays held, ends, or is released.                            *)
HoldIsABarrier ==
  [][\A t \in Tasks : isCoordinationHeld(t) =>
       /\ ~(Unblock(t) \/ Worker(t) \/ reconcileTaskReadiness(t))
       /\ \/ isCoordinationHeld(t)'
          \/ status'[t] \in {"rejected", "cancelled"}
          \/ ReleaseCoordinationHold(t)]_vars
=============================================================================
