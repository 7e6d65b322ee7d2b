------------------------------- MODULE Dispatch -------------------------------
(***************************************************************************)
(* DispatchService.Dispatch (internal/modelruntime/dispatch_service.go)    *)
(* run by several dispatcher processes over the invocation store, the      *)
(* cost gate (wallet and budget tree) and the provider.  A dispatcher is a *)
(* sequential program: proc[d] holds its program counter, the invocation   *)
(* it works on and the attempt whose claim token it holds.  Every store    *)
(* call is a transaction of its own, so anything may happen between two;   *)
(* a call may fail with its effect lost, or with its effect kept and only  *)
(* the acknowledgement lost, and the process may crash anywhere, which     *)
(* also skips the deferred release of its reservation.                     *)
(***************************************************************************)
EXTENDS ModelInvocation, AgentBudget

CONSTANTS Dispatchers, KeyOf,  \* the identity key in each process' key file
          Serves,              \* the invocations each process is called with
          Estimate, Costs,     \* what a call is estimated at, and may cost
          Opening, Balances,   \* the wallet's first balances, and later ones
          MaxRequests,         \* bound on the invocations of one behaviour
          MaxInterventions     \* bound on what operators do once all is set up

ASSUME DispatchAssumption ==
    /\ Challengers = Dispatchers
    /\ Invocations \subseteq Calls /\ Invocations # {}
    /\ KeyOf \in [Dispatchers -> Keys]
    /\ Serves \in [Dispatchers -> SUBSET Invocations]
    /\ Estimate \in Amounts /\ Costs \subseteq Amounts /\ Opening \cup Balances \subseteq Amounts
    /\ MaxRequests \in Nat /\ MaxInterventions \in Nat

VARIABLES proc,      \* the dispatcher processes
          calls,     \* external: how often the provider got the invocation's call
          answered,  \* external: whether the provider's answer came back
          interventions

costVars == <<ledgerVars, budgetVars>>
worldVars == <<calls, answered, interventions>>
vars == <<storeVars, costVars, proc, worldVars>>

PCs == {"idle", "challenged", "claimed", "validated", "consume", "unreserve",
        "fail_unreserved", "reserved", "release", "sending",
        "not_sent", "rejected", "answered", "received", "commit", "true_up",
        "complete", "settle", "true_up_end", "ambiguous", "mark_ambiguous", "cancelled"}

Idle == [pc |-> "idle", i |-> CHOOSE i \in Invocations : TRUE, n |-> 0]

TypeOK ==
    /\ AuthorityTypeOK /\ InvocationTypeOK /\ LedgerTypeOK /\ BudgetTypeOK
    /\ proc \in [Dispatchers -> [pc : PCs, i : Invocations, n : 0..MaxAttempts]]
    /\ calls \in [Invocations -> Nat]
    /\ answered \in [Invocations -> BOOLEAN]
    /\ interventions \in 0..MaxInterventions

Init ==
    /\ AuthorityInit /\ InvocationInit /\ LedgerInit /\ BudgetInit
    /\ proc = [d \in Dispatchers |-> Idle]
    /\ calls = [i \in Invocations |-> 0]
    /\ answered = [i \in Invocations |-> FALSE]
    /\ interventions = 0

At(d, pc) == proc[d].pc = pc
Goto(d, pc) == proc' = [proc EXCEPT ![d].pc = pc]
Return(d) == proc' = [proc EXCEPT ![d] = Idle]
Metered(i) == i \notin SubscriptionCalls

\* A store call that may succeed, be refused or fail, and whose effect may
\* have been committed although the caller sees an error.
StoreCall(effect, ok, err) ==
    /\ \/ effect /\ ok
       \/ (effect \/ UNCHANGED storeVars) /\ err
    /\ UNCHANGED <<costVars, worldVars>>

\* A call of the cost gate whose error, if any, is only logged.
CostCall(effect, next) ==
    /\ effect \/ UNCHANGED costVars
    /\ next
    /\ UNCHANGED <<storeVars, worldVars>>

(***************************************************************************)
(* Claiming.                                                               *)
(***************************************************************************)

\* An ended invocation is refused at the claim, so none is begun here.
IssueChallenge(d, i) ==
    /\ At(d, "idle")
    /\ principal = "active" /\ key[KeyOf[d]] = "active"
    /\ inv[i].status \in {"requested"} \cup InFlight
    /\ CreateChallenge(i, d)
    /\ proc' = [proc EXCEPT ![d] = [pc |-> "challenged", i |-> i, n |-> 0]]
    /\ UNCHANGED <<costVars, worldVars>>

ClaimTurn(d) ==
    LET i == proc[d].i IN
    /\ At(d, "challenged")
    /\ \/ /\ ClaimInvocationAuthenticated(i, d, KeyOf[d])
          /\ proc' = [proc EXCEPT ![d].pc = "claimed", ![d].n = inv[i].n + 1]
       \/ UNCHANGED storeVars /\ Return(d)
    /\ UNCHANGED <<costVars, worldVars>>

(***************************************************************************)
(* Before the send.                                                        *)
(***************************************************************************)

\* The re-validation of the claimed invocation; of what it reads, the
\* principal and the assignment are state of this model.
ValidatePasses(d) ==
    /\ At(d, "claimed")
    /\ principal = "active" /\ AssignmentUsable(AssignmentOf[proc[d].i])
    /\ Goto(d, "validated")
    /\ UNCHANGED <<storeVars, costVars, worldVars>>

\* Any other check of lines 247-383 or 475-532 fails.
ValidateFails(d) ==
    /\ At(d, "claimed") \/ At(d, "validated")
    /\ StoreCall(FailBeforeSend(proc[d].i, proc[d].n), Return(d), Return(d))

\* Authorization or egress policy denies.
DecisionDenies(d) ==
    /\ At(d, "validated")
    /\ StoreCall(PersistPreSendDenyAndFail(proc[d].i, proc[d].n, KeyOf[d]), Return(d), Return(d))

\* Gate.Reserve, wallet part.
ReserveWallet(d) ==
    LET i == proc[d].i
        next == IF BudgetOf(i) = NoBudget THEN "reserved" ELSE "consume"
    IN  /\ At(d, "validated")
        /\ \/ ~Metered(i) /\ UNCHANGED ledgerVars /\ Goto(d, next)
           \/ /\ Metered(i)
              /\ \/ LedgerReserve(i, Estimate, "ok") /\ Goto(d, next)
                 \/ /\ (\E res \in Results : LedgerReserve(i, Estimate, res)) \/ UNCHANGED ledgerVars
                    /\ Goto(d, "fail_unreserved")
        /\ UNCHANGED <<storeVars, budgetVars, worldVars>>

\* Gate.Reserve, budget part; a refusal hands the wallet reservation back.
ConsumeBudget(d) ==
    LET i == proc[d].i
        est == IF Metered(i) THEN Estimate ELSE 0
        back == IF Metered(i) THEN "unreserve" ELSE "fail_unreserved"
    IN  /\ At(d, "consume")
        /\ \/ ConsumeModelCall(i, est, "ok") /\ Goto(d, "reserved")
           \/ ConsumeModelCall(i, est, "refused") /\ Goto(d, back)
           \/ (ConsumeModelCall(i, est, "ok") \/ UNCHANGED budgetVars) /\ Goto(d, back)
        /\ UNCHANGED <<storeVars, ledgerVars, worldVars>>

ReleaseCall(d, next) ==
    CostCall(/\ Metered(proc[d].i)
             /\ \E res \in Results : LedgerRelease(proc[d].i, res)
             /\ UNCHANGED budgetVars, next)

Unreserve(d) == At(d, "unreserve") /\ ReleaseCall(d, Goto(d, "fail_unreserved"))

FailUnreserved(d) ==
    /\ At(d, "fail_unreserved")
    /\ StoreCall(FailBeforeSend(proc[d].i, proc[d].n), Return(d), Return(d))

\* Building the provider request fails after the reservation.
EvidenceFails(d) ==
    /\ At(d, "reserved")
    /\ StoreCall(FailBeforeSend(proc[d].i, proc[d].n), Goto(d, "release"), Goto(d, "release"))

StartSend(d) ==
    /\ At(d, "reserved")
    /\ StoreCall(PersistPreSendAllowAndMarkSendStarted(proc[d].i, proc[d].n, KeyOf[d]),
                 Goto(d, "sending"), Goto(d, "release"))

\* The deferred release, on every return of an applied, unsettled reservation.
DeferredRelease(d) == At(d, "release") /\ ReleaseCall(d, Return(d))

(***************************************************************************)
(* The call and its outcome.                                               *)
(***************************************************************************)

\* The invocation cannot be read back: nothing is sent.
RereadFails(d) ==
    /\ At(d, "sending")
    /\ Goto(d, "release")
    /\ UNCHANGED <<storeVars, costVars, worldVars>>

\* providerAdapter.Dispatch and the classification of what it returns.
CallProvider(d) ==
    LET i == proc[d].i
        Reach == calls' = [calls EXCEPT ![i] = @ + 1]
    IN  /\ At(d, "sending")
        /\ \/ Goto(d, "not_sent") /\ UNCHANGED <<calls, answered>>
           \/ Goto(d, "ambiguous") /\ (Reach \/ UNCHANGED calls) /\ UNCHANGED answered
           \/ Goto(d, "cancelled") /\ Reach /\ UNCHANGED answered
           \/ /\ Goto(d, "rejected") \/ Goto(d, "answered")
              /\ Reach /\ answered' = [answered EXCEPT ![i] = TRUE]
        /\ UNCHANGED <<storeVars, costVars, interventions>>

(* Mutant: a request that was never sent is settled like one that was. *)
SettleNotSent(d) ==
    /\ At(d, "not_sent")
    /\ StoreCall(FailCommittedBeforeRequest(proc[d].i, proc[d].n), Goto(d, "settle"), Goto(d, "settle"))

NotSent(d) ==
    /\ At(d, "not_sent")
    /\ StoreCall(FailCommittedBeforeRequest(proc[d].i, proc[d].n), Goto(d, "release"), Goto(d, "release"))

\* AdapterFailureResponseReceived: settled only when the rejection was stored.
Rejected(d) ==
    /\ At(d, "rejected")
    /\ StoreCall(RejectProviderResponse(proc[d].i, proc[d].n), Goto(d, "settle"), Goto(d, "release"))

\* AdapterFailureAmbiguous: the reservation is kept, marked pending.
Ambiguous(d) ==
    /\ At(d, "ambiguous")
    /\ CostCall(/\ IF Metered(proc[d].i)
                   THEN \E res \in Results : MarkPendingReconciliation(proc[d].i, res)
                   ELSE RecordSubscriptionConsumption(proc[d].i)
                /\ UNCHANGED budgetVars,
                Goto(d, "mark_ambiguous"))

StoreAmbiguous(d) ==
    /\ At(d, "mark_ambiguous")
    /\ StoreCall(MarkAmbiguous(proc[d].i, proc[d].n), Return(d), Return(d))

\* The adapter was cancelled and the provider confirmed it; that nobody asked
\* for it may also go unread, and the call ends there.
CancelledBeforeAnswer(d) ==
    /\ At(d, "cancelled")
    /\ \/ /\ inv[proc[d].i].cancel
          /\ StoreCall(MarkCancelled(proc[d].i, proc[d].n), Goto(d, "release"), Goto(d, "release"))
       \/ /\ ~inv[proc[d].i].cancel
          /\ Goto(d, "ambiguous") \/ Goto(d, "release")
          /\ UNCHANGED <<storeVars, costVars, worldVars>>

StoreAnswer(d) ==
    /\ At(d, "answered")
    /\ StoreCall(MarkResponseReceived(proc[d].i, proc[d].n), Goto(d, "received"), Goto(d, "settle"))

\* The answer cannot be normalized; settled only when that was stored.
NormalizeFails(d) ==
    /\ At(d, "received")
    /\ StoreCall(FailAfterResponse(proc[d].i, proc[d].n), Goto(d, "settle"), Goto(d, "release"))

\* The answer itself says that the provider cancelled.
CancelledInAnswer(d) ==
    /\ At(d, "received")
    /\ StoreCall(IF inv[proc[d].i].cancel THEN MarkCancelled(proc[d].i, proc[d].n)
                 ELSE FailAfterResponse(proc[d].i, proc[d].n),
                 Goto(d, "release"), Goto(d, "release"))

NormalizePasses(d) ==
    /\ At(d, "received")
    /\ Goto(d, "commit")
    /\ UNCHANGED <<storeVars, costVars, worldVars>>

(***************************************************************************)
(* Settlement.                                                             *)
(***************************************************************************)

\* Gate.Reconcile of the wallet; the budget is trued up only when it succeeded.
ReconcileCall(d, trueUp, otherwise) ==
    LET i == proc[d].i IN
    /\ \/ /\ Metered(i)
          /\ \/ /\ \E a \in Costs : LedgerReconcile(i, a, "ok")
                /\ Goto(d, trueUp)
             \/ /\ \/ \E a \in Costs, res \in Results : LedgerReconcile(i, a, res)
                   \/ UNCHANGED ledgerVars
                /\ otherwise
       \/ /\ ~Metered(i)
          /\ RecordSubscriptionConsumption(i) \/ UNCHANGED ledgerVars
          /\ otherwise
    /\ UNCHANGED <<storeVars, budgetVars, worldVars>>

Commit(d) == At(d, "commit") /\ ReconcileCall(d, "true_up", Goto(d, "complete"))

\* settleBudget: the actual amount is the one the wallet was debited.
SettleBudget(d, next) ==
    CostCall(/\ \E res \in Results : SettleModelCall(proc[d].i, entry[proc[d].i].cost, res)
             /\ UNCHANGED ledgerVars, next)

TrueUp(d) == At(d, "true_up") /\ SettleBudget(d, Goto(d, "complete"))

Complete(d) ==
    /\ At(d, "complete")
    /\ StoreCall(CompleteInvocation(proc[d].i, proc[d].n), Return(d), Return(d))

\* settleNonSuccessReservation: at the recovered usage, or pending without it.
Settle(d) ==
    /\ At(d, "settle")
    /\ \/ ReconcileCall(d, "true_up_end", Return(d))
       \/ /\ Metered(proc[d].i)
          /\ CostCall(/\ \E res \in Results : MarkPendingReconciliation(proc[d].i, res)
                      /\ UNCHANGED budgetVars, Return(d))

TrueUpEnd(d) == At(d, "true_up_end") /\ SettleBudget(d, Return(d))

\* The process dies: its local state is gone and no deferred call runs.
Crash(d) ==
    /\ ~At(d, "idle")
    /\ Return(d)
    /\ UNCHANGED <<storeVars, costVars, worldVars>>

(***************************************************************************)
(* The rest of the system.                                                 *)
(***************************************************************************)

\* What an execution needs, all of it provided before its first invocation is
\* created: the wallet, the budgets of its tasks, a key, an assignment.
SetUp ==
    /\ \A i \in Invocations : inv[i].status = "absent"
    /\ \/ /\ \E b \in Opening : ProvisionWalletIfAbsent(b)
          /\ UNCHANGED <<storeVars, budgetVars>>
       \/ BudgetAdmin /\ UNCHANGED <<storeVars, ledgerVars>>
       \/ AuthoritySetUp /\ UNCHANGED <<invocationVars, costVars>>
    /\ UNCHANGED <<proc, worldVars>>

Request(i) ==
    /\ Cardinality({j \in Invocations : inv[j].status # "absent"}) < MaxRequests
    /\ CreateInvocation(i)
    /\ UNCHANGED <<costVars, proc, worldVars>>

\* What operators change while an invocation is under way.  Retiring a key
\* completes its rotation and is not counted again.
Intervene ==
    /\ \E i \in Invocations : inv[i].status \notin TerminalStatus \cup {"absent"}
    /\ \/ interventions < MaxInterventions /\ interventions' = interventions + 1
       \/ (\E k \in Keys : RetireKey(k)) /\ UNCHANGED interventions
    /\ \/ /\ \E b \in Balances \ {wallet.balance} : SetBalance(b)
          /\ UNCHANGED <<storeVars, budgetVars>>
       \/ AuthorityChange /\ UNCHANGED <<invocationVars, costVars>>
       \/ (\E i \in Invocations : RequestCancellation(i)) /\ UNCHANGED costVars
    /\ UNCHANGED <<proc, calls, answered>>

Expire(i) == ClaimExpires(i) /\ UNCHANGED <<costVars, proc, worldVars>>

ReconcileAttempt(i) ==
    /\ \E n \in Ordinals : Reconcile(i, n)
    /\ UNCHANGED <<costVars, proc, worldVars>>

Step(d) ==
    \/ \E i \in Serves[d] : IssueChallenge(d, i)
    \/ ClaimTurn(d) \/ ValidatePasses(d) \/ ValidateFails(d) \/ DecisionDenies(d)
    \/ ReserveWallet(d) \/ ConsumeBudget(d) \/ Unreserve(d) \/ FailUnreserved(d)
    \/ EvidenceFails(d) \/ StartSend(d) \/ DeferredRelease(d) \/ RereadFails(d)
    \/ CallProvider(d) \/ NotSent(d) \/ Rejected(d) \/ Ambiguous(d) \/ StoreAmbiguous(d)
    \/ CancelledBeforeAnswer(d) \/ StoreAnswer(d) \/ NormalizeFails(d)
    \/ CancelledInAnswer(d) \/ NormalizePasses(d) \/ Commit(d) \/ TrueUp(d)
    \/ Complete(d) \/ Settle(d) \/ TrueUpEnd(d) \/ Crash(d)

Next ==
    \/ \E d \in Dispatchers : Step(d)
    \/ \E i \in Invocations : Request(i) \/ Expire(i) \/ ReconcileAttempt(i)
    \/ SetUp
    \/ Intervene

Spec == Init /\ [][Next]_vars

\* Time passes, and the executive worker reconciles on every pass of its loop.
FairSpec ==
    /\ Spec
    /\ \A i \in Invocations : WF_vars(Expire(i)) /\ WF_vars(ReconcileAttempt(i))

(***************************************************************************)
(* Properties.                                                             *)
(***************************************************************************)

(* The provider gets the call of an invocation at most once, whatever        *)
(* dispatchers crash, lose acknowledgements, outlive their claims or are     *)
(* retried after a reconciliation.                                           *)
OneCallPerInvocation == \A i \in Invocations : calls[i] <= 1

(* Money is debited only for a call the provider answered, and a flat-rate    *)
(* call counted only when a use of its assignment was: never for an           *)
(* invocation that failed or was cancelled before its send, however attempts  *)
(* interleave.                                                                *)
NoPhantomDebit ==
    \A i \in Invocations :
        /\ entry[i].kind = "committed" => answered[i]
        /\ entry[i].kind = "subscription" => assignment[AssignmentOf[i]].used > 0

(* A claimed or sent invocation does not stay so for ever: whatever its      *)
(* dispatcher does, it ends or becomes claimable again.                      *)
InFlightResolves ==
    \A i \in Invocations : inv[i].status \in InFlight ~> inv[i].status \notin InFlight

(* A call the provider has answered is never booked as released, that is as  *)
(* costing nothing.                                                          *)
AnsweredIsNeverReleased ==
    \A i \in Invocations : answered[i] => entry[i].kind # "released"
=============================================================================
