------------------------- MODULE DispatchCallProofs -------------------------
(***************************************************************************)
(* At most one call, and no debit without one: the provider is called at   *)
(* most once per invocation, and debited only for calls it answered.       *)
(***************************************************************************)
EXTENDS DispatchProofs

Sent == {"send_started", "response_received"} \cup TerminalStatus

\* Where the provider has answered the process, and where its send committed.
AnswerPC == {"rejected", "answered", "received", "commit", "settle"}
SentPC == AnswerPC \cup {"sending", "ambiguous", "cancelled"}

(* Inductive strengthening of OneCallPerInvocation: a call made or about to be *)
(* made means the send was committed, and one process at most is about to.     *)
CallInv ==
    /\ calls \in [Invocations -> {0, 1}]
    /\ \A i \in Invocations : calls[i] = 1 => inv[i].status \in Sent
    /\ \A d \in Dispatchers : proc[d].pc = "sending" =>
          inv[proc[d].i].status \in Sent /\ calls[proc[d].i] = 0
    /\ \A d, e \in Dispatchers :
          proc[d].pc = "sending" /\ proc[e].pc = "sending" /\ d # e => proc[d].i # proc[e].i

(* Inductive strengthening of NoPhantomDebit: a process that may debit has the *)
(* answer, and one that may count a flat-rate call has used the assignment.    *)
DebitInv ==
    /\ AuthorityTypeOK
    /\ answered \in [Invocations -> BOOLEAN]
    /\ NoPhantomDebit
    /\ \A d \in Dispatchers :
          /\ proc[d].pc \in AnswerPC => answered[proc[d].i]
          /\ proc[d].pc \in SentPC => assignment[AssignmentOf[proc[d].i]].used > 0

(* A committed send is never undone: no step of the store leads back to a     *)
(* status from which the invocation could be claimed and sent again.          *)
LEMMA SentStays ==
    ASSUME StoreInv, [InvocationNext]_storeVars, NEW j \in Invocations, inv[j].status \in Sent
    PROVE  inv'[j].status \in Sent
<1>0. inv \in [Invocations -> InvRow] /\ inv[j].status \notin {"absent", "requested", "claimed"}
  BY Zenon DEF StoreInv, InvocationTypeOK, InvRow, Sent, TerminalStatus
<1>1. CASE UNCHANGED invocationVars
  BY <1>1, Zenon DEF invocationVars
<1>2. ASSUME NEW i \in Invocations, NEW n \in Ordinals,
             Reconcile(i, n) \/ \E k \in Keys : AttemptStep(i, n, k)
      PROVE  inv'[j].status \in Sent
  <2>1. att[i][n] = inv[i].status
    BY <1>2, StepsMoveInFlight, Zenon DEF StoreInv, AttemptMirrorsInvocation
  <2>2. \E s \in InvocationStatus :
           /\ inv' = [inv EXCEPT ![i].status = s]
           /\ inv[i].status # "claimed" => s \in Sent
    BY <1>2, <2>1, Zenon DEF AttemptStep, Reconcile, PersistPreSendAllowAndMarkSendStarted,
       PersistPreSendDenyAndFail, verifyClaim, FailBeforeSend, FailCommittedBeforeRequest,
       RejectProviderResponse, MarkAmbiguous, MarkResponseReceived, FailAfterResponse,
       CompleteInvocation, MarkCancelled, Move, Sent, InvocationStatus, TerminalStatus, InFlight
  <2> QED
    BY <1>0, <2>2
<1>3. ASSUME NEW i \in Invocations, RequestCancellation(i)
      PROVE  inv'[j].status \in Sent
  BY <1>0, <1>3, Zenon DEF RequestCancellation, InvRow
<1>4. ASSUME NEW i \in Invocations, CreateInvocation(i) \/ ClaimExpires(i)
                                    \/ \E d \in Challengers : CreateChallenge(i, d)
      PROVE  inv'[j].status \in Sent
  BY <1>0, <1>4 DEF CreateInvocation, ClaimExpires, CreateChallenge, InvRow
<1>5. ASSUME NEW i \in Invocations, NEW d \in Challengers, NEW k \in Keys,
             ClaimInvocationAuthenticated(i, d, k)
      PROVE  inv'[j].status \in Sent
  BY <1>0, <1>5, Zenon DEF ClaimInvocationAuthenticated, Claimable, InvRow
<1> QED
  BY <1>1, <1>2, <1>3, <1>4, <1>5, Zenon DEF InvocationNext, storeVars

(* The authority stays typed, and uses of an assignment are never given back. *)
LEMMA UsesGrow ==
    ASSUME AuthorityTypeOK, [InvocationNext]_storeVars
    PROVE  /\ AuthorityTypeOK'
           /\ \A a \in Assignments : assignment'[a].used >= assignment[a].used
<1> DEFINE Uses == [status : AssignmentStatus, used : 0..MaxUses]
           Good == /\ AuthorityTypeOK'
                   /\ \A a \in Assignments : assignment'[a].used >= assignment[a].used
<1>0. /\ principal \in {"active", "disabled"} /\ key \in [Keys -> KeyStatus]
      /\ assignment \in [Assignments -> Uses] /\ MaxUses \in Nat
  BY AuthorityAssumption, Zenon DEF AuthorityTypeOK
<1>1. CASE UNCHANGED authorityVars
  BY <1>0, <1>1 DEF authorityVars, AuthorityTypeOK
<1>2. ASSUME NEW a \in Assignments, NEW s \in AssignmentStatus,
             assignment' = [assignment EXCEPT ![a].status = s], UNCHANGED <<principal, key>>
      PROVE  Good
  BY <1>0, <1>2 DEF AuthorityTypeOK
<1>3. ASSUME principal' \in {"active", "disabled"}, key' \in [Keys -> KeyStatus], UNCHANGED assignment
      PROVE  Good
  BY <1>0, <1>3 DEF AuthorityTypeOK
<1>4. CASE AuthoritySetUp \/ AuthorityChange
  <2>1. ASSUME NEW a \in Assignments, CreateAssignment(a) \/ RevokeAssignment(a) \/ ExpireAssignment(a)
        PROVE  Good
    BY <1>2, <2>1, Zenon DEF CreateAssignment, RevokeAssignment, ExpireAssignment, AssignmentStatus
  <2>2. ASSUME NEW k \in Keys, RegisterKey(k) \/ RetireKey(k) \/ RevokeKey(k)
        PROVE  Good
    BY <1>0, <1>3, <2>2, Zenon DEF RegisterKey, RetireKey, RevokeKey, KeyStatus
  <2>3. ASSUME NEW old \in Keys, NEW new \in Keys, RotateKey(old, new)
        PROVE  Good
    BY <1>0, <1>3, <2>3, Zenon DEF RotateKey, KeyStatus
  <2>4. CASE DisablePrincipal
    BY <1>0, <1>3, <2>4, Zenon DEF DisablePrincipal
  <2> QED
    BY <1>4, <2>1, <2>2, <2>3, <2>4, Zenon DEF AuthoritySetUp, AuthorityChange
<1>5. ASSUME NEW i \in Invocations, NEW n \in Ordinals, NEW k \in Keys,
             PersistPreSendAllowAndMarkSendStarted(i, n, k)
      PROVE  Good
  <2> DEFINE a == AssignmentOf[i]
             u == assignment[a].used + 1
             s == IF u >= MaxUses THEN "exhausted" ELSE "active"
  <2>1. a \in Assignments /\ assignment[a].used < MaxUses
    BY <1>5, InvocationAssumption, Zenon DEF PersistPreSendAllowAndMarkSendStarted, AssignmentUsable
  <2>2. u \in 0..MaxUses /\ u >= assignment[a].used /\ s \in AssignmentStatus
    BY <1>0, <2>1 DEF AssignmentStatus
  <2>3. assignment' = [assignment EXCEPT ![a] = [@ EXCEPT !.used = u, !.status = s]]
    BY <1>0, <1>5, <2>1, Zenon DEF PersistPreSendAllowAndMarkSendStarted, Consumed
  <2>4. UNCHANGED <<principal, key>>
    BY <1>5, Zenon DEF PersistPreSendAllowAndMarkSendStarted
  <2> DEFINE r == [assignment[a] EXCEPT !.used = u, !.status = s]
  <2> HIDE DEF u, s, a
  <2>5. r \in Uses /\ r.used = u
    BY <1>0, <2>1, <2>2, Zenon
  <2>6. assignment' = [assignment EXCEPT ![a] = r]
    BY <2>3, Zenon
  <2> HIDE DEF r
  <2>7. /\ assignment' \in [Assignments -> Uses]
        /\ \A b \in Assignments : assignment'[b].used >= assignment[b].used
    BY <1>0, <2>1, <2>2, <2>5, <2>6
  <2> QED
    BY <1>0, <2>4, <2>7, Zenon DEF AuthorityTypeOK
<1>6. ASSUME NEW i \in Invocations, NEW n \in Ordinals, NEW k \in Keys, AttemptStep(i, n, k)
      PROVE  Good
  BY <1>1, <1>5, <1>6, Zenon DEF AttemptStep, PersistPreSendDenyAndFail, FailBeforeSend,
     FailCommittedBeforeRequest, RejectProviderResponse, MarkAmbiguous, MarkResponseReceived,
     FailAfterResponse, CompleteInvocation, MarkCancelled
<1>7. ASSUME NEW i \in Invocations,
             \/ CreateInvocation(i) \/ RequestCancellation(i) \/ ClaimExpires(i)
             \/ \E d \in Challengers : CreateChallenge(i, d)
             \/ \E d \in Challengers, k \in Keys : ClaimInvocationAuthenticated(i, d, k)
             \/ \E n \in Ordinals : Reconcile(i, n)
      PROVE  UNCHANGED authorityVars
  BY <1>7, Zenon DEF CreateInvocation, RequestCancellation, ClaimExpires, CreateChallenge,
     ClaimInvocationAuthenticated, Reconcile
<1> QED
  BY <1>1, <1>4, <1>6, <1>7, Zenon DEF InvocationNext, storeVars

\* A process goes on without starting a send, and learns no answer.
Quiet(d) ==
    \/ Return(d)
    \/ \E pc \in PCs \ {"sending"} :
          /\ Goto(d, pc)
          /\ pc \in AnswerPC => proc[d].pc \in AnswerPC
          /\ pc \in SentPC => proc[d].pc \in SentPC

(* Only StartSend leads to the call, and only CallProvider to its answer. *)
LEMMA QuietSteps ==
    ASSUME NEW d \in Dispatchers,
           StoreSteps(d) \/ LocalSteps(d) \/ CostSteps(d), ~CallProvider(d)
    PROVE  \/ Quiet(d)
           \/ /\ PersistPreSendAllowAndMarkSendStarted(proc[d].i, proc[d].n, KeyOf[d])
              /\ Goto(d, "sending")
<1>a. Return(d) => Quiet(d)
  BY Zenon DEF Quiet
<1>b. \A pc \in PCs \ SentPC : Goto(d, pc) => Quiet(d)
  BY Zenon DEF Quiet, AnswerPC, SentPC
<1>c. proc[d].pc \in AnswerPC => \A pc \in AnswerPC : Goto(d, pc) => Quiet(d)
  BY Zenon DEF Quiet, PCs, AnswerPC, SentPC
<1>d. proc[d].pc = "cancelled" /\ Goto(d, "ambiguous") => Quiet(d)
  BY Zenon DEF Quiet, PCs, AnswerPC, SentPC
<1>e. {"validated", "consume", "reserved", "unreserve", "fail_unreserved", "release", "mark_ambiguous",
       "true_up", "complete", "true_up_end"} \subseteq PCs \ SentPC
  BY Zenon DEF PCs, AnswerPC, SentPC
<1>f. {"rejected", "answered", "received", "commit", "settle"} \subseteq AnswerPC
  BY Zenon DEF AnswerPC
<1> HIDE DEF Quiet
<1> USE DEF StoreCall, CostCall, At
<1>1. CASE ValidateFails(d) \/ DecisionDenies(d) \/ FailUnreserved(d)
  BY <1>a, <1>1, Zenon DEF ValidateFails, DecisionDenies, FailUnreserved
<1>2. CASE EvidenceFails(d) \/ NotSent(d)
  BY <1>b, <1>e, <1>2, Zenon DEF EvidenceFails, NotSent
<1>3. CASE StartSend(d)
  BY <1>b, <1>e, <1>3, Zenon DEF StartSend
<1>4. CASE Rejected(d) \/ StoreAnswer(d) \/ NormalizeFails(d)
  BY <1>b, <1>c, <1>e, <1>f, <1>4, Zenon DEF Rejected, StoreAnswer, NormalizeFails
<1>5. CASE CancelledBeforeAnswer(d)
  BY <1>b, <1>d, <1>e, <1>5, Zenon DEF CancelledBeforeAnswer
<1>6. CASE CancelledInAnswer(d) \/ StoreAmbiguous(d) \/ Complete(d)
  BY <1>a, <1>b, <1>e, <1>6, Zenon DEF CancelledInAnswer, StoreAmbiguous, Complete
<1>7. CASE ValidatePasses(d) \/ RereadFails(d) \/ Crash(d)
  BY <1>a, <1>b, <1>e, <1>7, Zenon DEF ValidatePasses, RereadFails, Crash
<1>8. CASE NormalizePasses(d)
  BY <1>c, <1>f, <1>8, Zenon DEF NormalizePasses
<1>9. CASE ReserveWallet(d)
  BY <1>b, <1>e, <1>9, Zenon DEF ReserveWallet
<1>10. CASE ConsumeBudget(d)
  BY <1>b, <1>e, <1>10, Zenon DEF ConsumeBudget
<1>11. CASE Unreserve(d) \/ DeferredRelease(d) \/ Ambiguous(d)
  BY <1>a, <1>b, <1>e, <1>11, Zenon DEF Unreserve, DeferredRelease, ReleaseCall, Ambiguous
<1>12. CASE Commit(d)
  BY <1>b, <1>e, <1>12, Zenon DEF Commit, ReconcileCall
<1>13. CASE Settle(d)
  BY <1>a, <1>b, <1>e, <1>13, Zenon DEF Settle, ReconcileCall
<1>14. CASE TrueUp(d) \/ TrueUpEnd(d)
  BY <1>a, <1>b, <1>e, <1>14, Zenon DEF TrueUp, TrueUpEnd, SettleBudget
<1> QED
  BY <1>1, <1>2, <1>3, <1>4, <1>5, <1>6, <1>7, <1>8, <1>9, <1>10, <1>11, <1>12, <1>13, <1>14, Zenon
     DEF StoreSteps, LocalSteps, CostSteps

(* A quiet step starts no call of any process. *)
LEMMA QuietProcs ==
    ASSUME ProcOK, NEW d \in Dispatchers, Quiet(d), NEW e \in Dispatchers
    PROVE  /\ proc'[e].pc = "sending" => proc[e].pc = "sending" /\ proc'[e].i = proc[e].i
           /\ proc'[e].pc \in AnswerPC => proc[e].pc \in AnswerPC /\ proc'[e].i = proc[e].i
           /\ proc'[e].pc \in SentPC => proc[e].pc \in SentPC /\ proc'[e].i = proc[e].i
<1>1. proc \in [Dispatchers -> Proc]
  BY Zenon DEF ProcOK
<1>2. CASE Return(d)
  BY <1>1, <1>2, Zenon DEF Return, Idle, AnswerPC, SentPC
<1>3. ASSUME NEW pc \in PCs \ {"sending"}, Goto(d, pc),
             pc \in AnswerPC => proc[d].pc \in AnswerPC,
             pc \in SentPC => proc[d].pc \in SentPC
      PROVE  /\ proc'[e].pc = "sending" => proc[e].pc = "sending" /\ proc'[e].i = proc[e].i
             /\ proc'[e].pc \in AnswerPC => proc[e].pc \in AnswerPC /\ proc'[e].i = proc[e].i
             /\ proc'[e].pc \in SentPC => proc[e].pc \in SentPC /\ proc'[e].i = proc[e].i
  BY <1>1, <1>3, Zenon DEF Goto, Proc
<1> QED
  BY <1>2, <1>3, Zenon DEF Quiet

(* A step on the accounts debits or counts only the call of its process, which *)
(* has its answer, or has committed its send.                                  *)
LEMMA DebitsAre ==
    ASSUME BaseInv, NEW d \in Dispatchers, CostSteps(d), NEW c \in Calls
    PROVE  /\ entry'[c].kind = "committed" =>
                 entry[c].kind = "committed" \/ (c = proc[d].i /\ proc[d].pc \in AnswerPC)
           /\ entry'[c].kind = "subscription" =>
                 entry[c].kind = "subscription" \/ (c = proc[d].i /\ proc[d].pc \in SentPC)
<1> DEFINE j == proc[d].i
           Goal == /\ entry'[c].kind = "committed" =>
                         entry[c].kind = "committed" \/ (c = j /\ proc[d].pc \in AnswerPC)
                   /\ entry'[c].kind = "subscription" =>
                         entry[c].kind = "subscription" \/ (c = j /\ proc[d].pc \in SentPC)
<1>0. entry \in [Calls -> Entry] /\ j \in Calls
  BY DispatchAssumption, Zenon DEF BaseInv, ProcOK, Proc, LedgerInv, LedgerTypeOK
<1>1. CASE UNCHANGED ledgerVars
  BY <1>1, Zenon DEF ledgerVars
<1>2. ASSUME NEW res, LedgerReserve(j, Estimate, res)
      PROVE  Goal
  BY <1>0, <1>1, <1>2 DEF LedgerReserve, WithinProgramCeiling, Entry
<1>3. ASSUME NEW res, LedgerRelease(j, res)
      PROVE  Goal
  BY <1>0, <1>1, <1>3 DEF LedgerRelease, Entry
<1>4. ASSUME NEW res, MarkPendingReconciliation(j, res)
      PROVE  Goal
  BY <1>0, <1>1, <1>4 DEF MarkPendingReconciliation, Entry
<1>5. ASSUME RecordSubscriptionConsumption(j), proc[d].pc \in SentPC
      PROVE  Goal
  BY <1>0, <1>5, Zenon DEF RecordSubscriptionConsumption, Entry
<1>6. ASSUME NEW a, NEW res, LedgerReconcile(j, a, res), proc[d].pc \in AnswerPC
      PROVE  Goal
  BY <1>0, <1>1, <1>6, SMTT(30) DEF LedgerReconcile, Entry
<1> HIDE DEF Goal
<1>7. CASE ReserveWallet(d)
  BY <1>1, <1>2, <1>7, Zenon DEF ReserveWallet, Goal
<1>8. CASE ConsumeBudget(d)
  BY <1>1, <1>8, Zenon DEF ConsumeBudget, Goal
<1>9. CASE Unreserve(d) \/ DeferredRelease(d)
  BY <1>1, <1>3, <1>9, Zenon DEF Unreserve, DeferredRelease, ReleaseCall, CostCall, costVars, Goal
<1>10. CASE Ambiguous(d)
  BY <1>1, <1>4, <1>5, <1>10, Zenon DEF Ambiguous, CostCall, costVars, At, SentPC, Goal
<1>11. CASE Commit(d) \/ Settle(d)
  BY <1>1, <1>4, <1>5, <1>6, <1>11, Zenon DEF Commit, Settle, ReconcileCall, CostCall, costVars, At,
     AnswerPC, SentPC, Goal
<1>12. CASE TrueUp(d) \/ TrueUpEnd(d)
  BY <1>1, <1>12, Zenon DEF TrueUp, TrueUpEnd, SettleBudget, CostCall, costVars, Goal
<1> QED
  BY <1>7, <1>8, <1>9, <1>10, <1>11, <1>12, Zenon DEF CostSteps, Goal
\* No call is started, made or answered, and what is debited or counted was due.
Calm ==
    /\ UNCHANGED <<calls, answered>>
    /\ \A e \in Dispatchers :
          /\ proc'[e].pc = "sending" => proc[e].pc = "sending" /\ proc'[e].i = proc[e].i
          /\ proc'[e].pc \in AnswerPC => proc[e].pc \in AnswerPC /\ proc'[e].i = proc[e].i
          /\ proc'[e].pc \in SentPC => proc[e].pc \in SentPC /\ proc'[e].i = proc[e].i
    /\ \A c \in Calls :
          /\ entry'[c].kind = "committed" => \/ entry[c].kind = "committed"
                                             \/ \E d \in Dispatchers : c = proc[d].i /\ proc[d].pc \in AnswerPC
          /\ entry'[c].kind = "subscription" => \/ entry[c].kind = "subscription"
                                                \/ \E d \in Dispatchers : c = proc[d].i /\ proc[d].pc \in SentPC

\* A send is committed, and its process goes on to the call.
Starts(d) ==
    /\ PersistPreSendAllowAndMarkSendStarted(proc[d].i, proc[d].n, KeyOf[d])
    /\ Goto(d, "sending")
    /\ UNCHANGED <<costVars, worldVars>>

(* Every step is calm, commits a send or calls the provider. *)
LEMMA StepKinds ==
    ASSUME BaseInv, [Next]_vars
    PROVE  Calm \/ \E d \in Dispatchers : Starts(d) \/ CallProvider(d)
<1>0. ProcOK /\ proc \in [Dispatchers -> Proc]
  BY Zenon DEF BaseInv, ProcOK
<1>1. ASSUME NEW d \in Dispatchers, StoreSteps(d)
      PROVE  Calm \/ Starts(d)
  <2>1. UNCHANGED <<costVars, worldVars>>
    BY <1>1, StoreStepsAre, Zenon
  <2>2. CASE CallProvider(d)
    BY <1>1, <2>2, StoreStepsAre, Zenon DEF CallProvider, StoreSteps, ValidateFails, DecisionDenies, FailUnreserved,
       EvidenceFails, StartSend, NotSent, Rejected, StoreAmbiguous, CancelledBeforeAnswer, StoreAnswer,
       NormalizeFails, CancelledInAnswer, Complete, At
  <2>3. CASE Quiet(d)
    BY <1>0, <2>1, <2>3, QuietProcs, Zenon DEF Calm, costVars, ledgerVars, worldVars
  <2> QED
    BY <1>1, <2>1, <2>2, <2>3, QuietSteps, Zenon DEF Starts
<1>2. ASSUME NEW d \in Dispatchers, LocalSteps(d), ~CallProvider(d)
      PROVE  Calm \/ Starts(d)
  <2>1. UNCHANGED <<costVars, worldVars>>
    BY <1>2, Zenon DEF LocalSteps, ValidatePasses, RereadFails, NormalizePasses, Crash
  <2>2. CASE Quiet(d)
    BY <1>0, <2>1, <2>2, QuietProcs, Zenon DEF Calm, costVars, ledgerVars, worldVars
  <2> QED
    BY <1>2, <2>1, <2>2, QuietSteps, Zenon DEF Starts
<1>3. ASSUME NEW d \in Dispatchers, CostSteps(d)
      PROVE  Calm
  <2>1. UNCHANGED <<storeVars, worldVars>>
    BY <1>3, CostStepsAre, Zenon
  <2>2. Quiet(d)
    <3>1. ~CallProvider(d) /\ ~PersistPreSendAllowAndMarkSendStarted(proc[d].i, proc[d].n, KeyOf[d])
      <4>1. proc[d].pc # "sending"
        BY <1>3, Zenon DEF CostSteps, ReserveWallet, ConsumeBudget, Unreserve, DeferredRelease,
           Ambiguous, Commit, TrueUp, Settle, TrueUpEnd, At
      <4>2. proc[d].i \in Invocations /\ inv \in [Invocations -> InvRow]
        BY <1>0, Zenon DEF Proc, BaseInv, StoreInv, InvocationTypeOK, InvRow
      <4>3. ASSUME PersistPreSendAllowAndMarkSendStarted(proc[d].i, proc[d].n, KeyOf[d])
            PROVE  FALSE
        <5>1. inv[proc[d].i].status = "claimed" /\ inv'[proc[d].i].status = "send_started"
          BY <4>2, <4>3, Zenon DEF PersistPreSendAllowAndMarkSendStarted, verifyClaim, Move, InvRow
        <5> QED
          BY <2>1, <5>1, Zenon DEF storeVars, invocationVars
      <4> QED
        BY <4>1, <4>3, Zenon DEF CallProvider, At
    <3> QED
      BY <1>3, <3>1, QuietSteps, Zenon
  <2>3. \A c \in Calls :
          /\ entry'[c].kind = "committed" =>
                entry[c].kind = "committed" \/ (c = proc[d].i /\ proc[d].pc \in AnswerPC)
          /\ entry'[c].kind = "subscription" =>
                entry[c].kind = "subscription" \/ (c = proc[d].i /\ proc[d].pc \in SentPC)
    BY <1>3, DebitsAre, Zenon
  <2> QED
    BY <1>0, <2>1, <2>2, <2>3, QuietProcs, Zenon DEF Calm, worldVars
<1>4. ASSUME NEW d \in Dispatchers, ClaimTurn(d) \/ \E i \in Serves[d] : IssueChallenge(d, i)
      PROVE  Calm
  <2>1. UNCHANGED <<costVars, worldVars>>
    BY <1>4, ClaimStepsAre, Zenon
  <2>2. \A e \in Dispatchers : proc'[e] = proc[e] \/ proc'[e].pc \in {"idle", "challenged", "claimed"}
    BY <1>0, <1>4, SMTT(30) DEF ClaimTurn, IssueChallenge, Return, Idle, Proc
  <2> QED
    BY <2>1, <2>2, Zenon DEF Calm, AnswerPC, SentPC, costVars, ledgerVars, worldVars
<1>5. CASE \/ \E i \in Invocations : Request(i) \/ Expire(i) \/ ReconcileAttempt(i)
           \/ SetUp \/ Intervene
  <2>1. UNCHANGED entry
    BY <1>5, Zenon DEF Request, Expire, ReconcileAttempt, SetUp, Intervene, costVars, ledgerVars,
       ProvisionWalletIfAbsent, SetBalance
  <2> QED
    BY <1>5, <2>1, WorldStepsAre, Zenon DEF Calm
<1>6. CASE UNCHANGED vars
  BY <1>6, Zenon DEF vars, costVars, ledgerVars, worldVars, Calm
<1> QED
  BY <1>1, <1>2, <1>3, <1>4, <1>5, <1>6, StepsByKind, Zenon DEF Next

(* The calls stay accounted for. *)
LEMMA CallStep ==
    ASSUME BaseInv, CallInv, [Next]_vars
    PROVE  CallInv'
<1>0. /\ proc \in [Dispatchers -> Proc] /\ proc' \in [Dispatchers -> Proc]
      /\ \A i \in Invocations : inv[i].status \in Sent => inv'[i].status \in Sent
      /\ inv \in [Invocations -> InvRow]
  BY Simulation, SentStays, Zenon DEF BaseInv, ProcOK, StoreInv, InvocationTypeOK, InvRow
<1>1. CASE Calm
  BY <1>0, <1>1, SMTT(30) DEF Calm, CallInv, Proc
<1>2. ASSUME NEW d \in Dispatchers, Starts(d)
      PROVE  CallInv'
  <2> DEFINE i == proc[d].i
  <2>1. i \in Invocations /\ inv[i].status = "claimed" /\ inv'[i].status = "send_started"
    BY <1>0, <1>2, Zenon DEF Starts, PersistPreSendAllowAndMarkSendStarted, verifyClaim, Move, Proc, InvRow
  <2>2. calls' = calls /\ calls[i] = 0
    BY <1>2, <2>1, Zenon DEF Starts, CallInv, Sent, TerminalStatus, worldVars
  <2>3. /\ proc'[d].i = i /\ \A e \in Dispatchers \ {d} : proc'[e] = proc[e]
        /\ \A e \in Dispatchers : proc[e].pc = "sending" => proc[e].i # i
    BY <1>0, <1>2, <2>1, Zenon DEF Starts, Goto, Proc, CallInv, Sent, TerminalStatus
  <2> QED
    BY <1>0, <2>1, <2>2, <2>3 DEF CallInv, Sent, Proc
<1>3. ASSUME NEW d \in Dispatchers, CallProvider(d)
      PROVE  CallInv'
  <2> DEFINE i == proc[d].i
  <2>1. /\ i \in Invocations /\ calls[i] = 0 /\ inv[i].status \in Sent /\ inv' = inv
        /\ \A e \in Dispatchers \ {d} : proc[e].pc = "sending" => proc[e].i # i
    BY <1>0, <1>3, Zenon DEF CallProvider, At, CallInv, Proc, storeVars, invocationVars
  <2>2. calls' = calls \/ calls' = [calls EXCEPT ![i] = 1]
    BY <1>3, <2>1 DEF CallProvider, CallInv
  <2>3. proc'[d].pc # "sending" /\ \A e \in Dispatchers \ {d} : proc'[e] = proc[e]
    BY <1>0, <1>3 DEF CallProvider, Goto, Proc
  <2> QED
    BY <1>0, <2>1, <2>2, <2>3, SMTT(30) DEF CallInv, Proc
<1> QED
  BY <1>1, <1>2, <1>3, StepKinds, Zenon

(* So do the debits. *)
LEMMA DebitStep ==
    ASSUME BaseInv, DebitInv, [Next]_vars
    PROVE  DebitInv'
<1>0. /\ proc \in [Dispatchers -> Proc] /\ proc' \in [Dispatchers -> Proc]
      /\ AuthorityTypeOK'
      /\ \A a \in Assignments : assignment'[a].used >= assignment[a].used
      /\ \A a \in Assignments : assignment[a].used \in Nat /\ assignment'[a].used \in Nat
      /\ Invocations \subseteq Calls /\ AssignmentOf \in [Invocations -> Assignments]
  <2>1. AuthorityTypeOK /\ AuthorityTypeOK'
        /\ \A a \in Assignments : assignment'[a].used >= assignment[a].used
    BY Simulation, UsesGrow, Zenon DEF DebitInv
  <2>2. \A a \in Assignments : assignment[a].used \in Nat /\ assignment'[a].used \in Nat
    BY <2>1, AuthorityAssumption, SMTT(30) DEF AuthorityTypeOK
  <2> QED
    BY <2>1, <2>2, Simulation, DispatchAssumption, InvocationAssumption, Zenon DEF BaseInv, ProcOK
<1>1. CASE Calm
  <2>1. \A i \in Invocations : answered'[i] = answered[i]
    BY <1>1, Zenon DEF Calm
  <2>2. NoPhantomDebit'
    BY <1>0, <1>1, <2>1 DEF Calm, DebitInv, NoPhantomDebit
  <2>3. answered' \in [Invocations -> BOOLEAN]
    BY <1>1, Zenon DEF Calm, DebitInv
  <2>4. ASSUME NEW e \in Dispatchers
        PROVE  /\ proc'[e].pc \in AnswerPC => answered'[proc'[e].i]
               /\ proc'[e].pc \in SentPC => assignment'[AssignmentOf[proc'[e].i]].used > 0
    <3>1. /\ proc[e].i \in Invocations
          /\ proc'[e].pc \in AnswerPC => proc[e].pc \in AnswerPC /\ proc'[e].i = proc[e].i
          /\ proc'[e].pc \in SentPC => proc[e].pc \in SentPC /\ proc'[e].i = proc[e].i
      BY <1>0, <1>1, Zenon DEF Calm, Proc
    <3>2. /\ proc[e].pc \in AnswerPC => answered[proc[e].i]
          /\ proc[e].pc \in SentPC => assignment[AssignmentOf[proc[e].i]].used > 0
      BY Zenon DEF DebitInv
    <3>3. /\ AssignmentOf[proc[e].i] \in Assignments
          /\ assignment'[AssignmentOf[proc[e].i]].used >= assignment[AssignmentOf[proc[e].i]].used
          /\ assignment[AssignmentOf[proc[e].i]].used \in Nat /\ assignment'[AssignmentOf[proc[e].i]].used \in Nat
      BY <1>0, <3>1, Zenon
    <3> QED
      BY <2>1, <3>1, <3>2, <3>3, SMTT(30)
  <2> QED
    BY <1>0, <2>2, <2>3, <2>4, Zenon DEF DebitInv
<1>2. ASSUME NEW d \in Dispatchers, Starts(d)
      PROVE  DebitInv'
  <2> DEFINE a == AssignmentOf[proc[d].i]
  <2>1. entry' = entry /\ answered' = answered
    BY <1>2, Zenon DEF Starts, costVars, ledgerVars, worldVars
  <2>2. NoPhantomDebit'
    BY <1>0, <2>1, SMTT(30) DEF DebitInv, NoPhantomDebit
  <2>3. a \in Assignments /\ assignment'[a].used > 0
    <3>1. a \in Assignments
      BY <1>0, Zenon DEF Proc
    <3>2. assignment'[a].used = assignment[a].used + 1
      BY <1>2, <3>1, Zenon DEF Starts, PersistPreSendAllowAndMarkSendStarted, Consumed, DebitInv, AuthorityTypeOK
    <3> QED
      BY <1>0, <3>1, <3>2
  <2>4. /\ proc'[d].i = proc[d].i /\ proc'[d].pc = "sending"
        /\ \A e \in Dispatchers \ {d} : proc'[e] = proc[e]
    BY <1>0, <1>2, Zenon DEF Starts, Goto, Proc
  <2>5. \A e \in Dispatchers :
          /\ proc'[e].pc \in AnswerPC => answered'[proc'[e].i]
          /\ proc'[e].pc \in SentPC => assignment'[AssignmentOf[proc'[e].i]].used > 0
    BY <1>0, <2>1, <2>3, <2>4, SMTT(30) DEF DebitInv, AnswerPC, Proc
  <2> QED
    BY <1>0, <2>1, <2>2, <2>5, Zenon DEF DebitInv
<1>3. ASSUME NEW d \in Dispatchers, CallProvider(d)
      PROVE  DebitInv'
  <2> DEFINE i == proc[d].i
  <2>1. i \in Invocations /\ entry' = entry /\ assignment' = assignment /\ proc[d].pc = "sending"
    BY <1>0, <1>3, Zenon DEF CallProvider, At, Proc, storeVars, authorityVars, costVars, ledgerVars
  <2>2. /\ \A j \in Invocations : answered[j] => answered'[j]
        /\ answered' \in [Invocations -> BOOLEAN]
    BY <1>3, <2>1, Zenon DEF CallProvider, DebitInv
  <2>3. /\ proc'[d].i = i /\ proc'[d].pc \in AnswerPC => answered'[i]
        /\ \A e \in Dispatchers \ {d} : proc'[e] = proc[e]
    BY <1>0, <1>3, <2>1 DEF CallProvider, Goto, Proc, AnswerPC, DebitInv
  <2>4. proc'[d].i = i
    BY <1>0, <1>3, SMTT(30) DEF CallProvider, Goto, Proc
  <2>5. NoPhantomDebit'
    BY <2>1, <2>2, Zenon DEF DebitInv, NoPhantomDebit
  <2>6. \A e \in Dispatchers :
          /\ proc'[e].pc \in AnswerPC => answered'[proc'[e].i]
          /\ proc'[e].pc \in SentPC => assignment'[AssignmentOf[proc'[e].i]].used > 0
    BY <1>0, <2>1, <2>2, <2>3, <2>4, Zenon DEF DebitInv, SentPC, Proc
  <2> QED
    BY <1>0, <2>2, <2>5, <2>6, Zenon DEF DebitInv
<1> QED
  BY <1>1, <1>2, <1>3, StepKinds, Zenon

(* The strengthening of OneCallPerInvocation holds throughout. *)
LEMMA CallInvHolds == Spec => []CallInv
<1>1. Init => CallInv
  BY DEF Init, CallInv, Idle
<1> QED
  BY <1>1, BaseInit, BaseStep, CallStep, PTL DEF Spec

(* For any dispatchers, invocations, keys, budgets and limits: whatever crashes, *)
(* retries, superseded claims, cancellations and lost acknowledgements happen,   *)
(* the provider gets the call of an invocation at most once.                     *)
THEOREM ProviderCalledAtMostOnce == Spec => []OneCallPerInvocation
<1>1. CallInv => OneCallPerInvocation
  BY DEF CallInv, OneCallPerInvocation
<1> QED
  BY <1>1, CallInvHolds, PTL

(* The strengthening of NoPhantomDebit holds throughout. *)
LEMMA DebitInvHolds == Spec => []DebitInv
<1>1. Init => DebitInv
  BY AuthorityAssumption, DispatchAssumption DEF Init, DebitInv, Idle, AnswerPC, SentPC, LedgerInit, NoEntry,
     NoPhantomDebit, AuthorityInit, AuthorityTypeOK, KeyStatus, AssignmentStatus
<1> QED
  BY <1>1, BaseInit, BaseStep, DebitStep, PTL DEF Spec

(* And no money is debited for a call the provider did not answer, nor a       *)
(* flat-rate call counted whose send was not committed.                        *)
THEOREM DebitedOnlyWhenAnswered == Spec => []NoPhantomDebit
<1>1. DebitInv => NoPhantomDebit
  BY Zenon DEF DebitInv
<1> QED
  BY <1>1, DebitInvHolds, PTL

(* Operators intervene a bounded number of times; nobody else does. *)
LEMMA InterventionsStep ==
    ASSUME BaseInv, interventions \in 0..MaxInterventions, [Next]_vars
    PROVE  interventions' \in 0..MaxInterventions
<1>1. ASSUME NEW d \in Dispatchers, Step(d)
      PROVE  UNCHANGED interventions
  <2>1. CASE StoreSteps(d)
    BY <2>1, StoreStepsAre, Zenon DEF worldVars
  <2>2. CASE CostSteps(d)
    BY <2>2, CostStepsAre, Zenon DEF worldVars
  <2>3. CASE ClaimTurn(d) \/ \E i \in Serves[d] : IssueChallenge(d, i)
    BY <2>3, ClaimStepsAre, Zenon DEF worldVars
  <2>4. CASE LocalSteps(d)
    BY <2>4, Zenon DEF LocalSteps, ValidatePasses, RereadFails, CallProvider, NormalizePasses, Crash, worldVars
  <2> QED
    BY <1>1, <2>1, <2>2, <2>3, <2>4, StepsByKind, Zenon
<1>2. ASSUME NEW i \in Invocations, Request(i) \/ Expire(i) \/ ReconcileAttempt(i)
      PROVE  UNCHANGED interventions
  BY <1>2, Zenon DEF Request, Expire, ReconcileAttempt, worldVars
<1>3. CASE SetUp
  BY <1>3, Zenon DEF SetUp, worldVars
<1>4. CASE Intervene
  <2>1. UNCHANGED interventions \/ (interventions < MaxInterventions /\ interventions' = interventions + 1)
    BY <1>4, Zenon DEF Intervene
  <2> QED
    BY <2>1, DispatchAssumption
<1>5. CASE UNCHANGED vars
  BY <1>5, Zenon DEF vars, worldVars
<1> QED
  BY <1>1, <1>2, <1>3, <1>4, <1>5, Zenon DEF Next

(* Every row, account, process and count of the composition keeps its      *)
(* shape: no reservation, refund or true-up takes an amount outside its    *)
(* range, no ordinal passes the limit of attempts.                         *)
THEOREM DispatchTypeCorrect == Spec => []TypeOK
<1>1. Init => interventions \in 0..MaxInterventions
  BY DispatchAssumption DEF Init
<1>2. BaseInv /\ interventions \in 0..MaxInterventions /\ [Next]_vars => (interventions \in 0..MaxInterventions)'
  BY InterventionsStep, Zenon
<1>3. BaseInv /\ CallInv /\ DebitInv /\ BudgetInv /\ interventions \in 0..MaxInterventions => TypeOK
  BY DEF BaseInv, ProcOK, Proc, StoreInv, LedgerInv, CallInv, DebitInv, BudgetInv, TypeOK
<1> QED
  BY <1>1, <1>2, <1>3, BaseInit, BaseStep, CallInvHolds, DebitInvHolds, BudgetInvHolds, DispatchImplementsBudget, PTL DEF Spec
=============================================================================
