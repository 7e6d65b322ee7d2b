--------------------------- MODULE ModelInvocation ---------------------------
(***************************************************************************)
(* Model invocations and their dispatch attempts, as the store keeps them  *)
(* (internal/modelruntime/postgres).  inv[i] is the row of                 *)
(* model_invocations: its status, whether cancellation was requested, how  *)
(* many attempts it has had, and whether the claim of the last one is      *)
(* still live.  att[i][n] is the status of attempt n, and the claim token  *)
(* of an attempt is its ordinal.  Every operation holds the invocation's   *)
(* advisory lock, so each is one action; its guard is the one in the code, *)
(* which often looks at the attempt row only.                              *)
(***************************************************************************)
EXTENDS ExecutionAuthority, FiniteSets

CONSTANTS Invocations, MaxAttempts, GlobalConcurrency,
          AssignmentOf,  \* the assignment an invocation is pinned to
          Challengers,   \* who may hold an identity challenge
          NoOne

ASSUME InvocationAssumption ==
    /\ MaxAttempts \in Nat \ {0}
    /\ GlobalConcurrency \in Nat \ {0}
    /\ AssignmentOf \in [Invocations -> Assignments]
    /\ NoOne \notin Challengers
    /\ IsFiniteSet(Invocations)

Ordinals == 1..MaxAttempts

VARIABLES inv, att, challenge
invocationVars == <<inv, att, challenge>>

TerminalStatus == {"succeeded", "failed", "ambiguous", "cancelled"}
InFlight == {"claimed", "send_started", "response_received"}
InvocationStatus == {"absent", "requested"} \cup InFlight \cup TerminalStatus
AttemptStatus == {"none", "failed_before_send", "completed", "ambiguous"} \cup InFlight

InvocationTypeOK ==
    /\ inv \in [Invocations -> [status : InvocationStatus, cancel : BOOLEAN,
                                n : 0..MaxAttempts, live : BOOLEAN]]
    /\ att \in [Invocations -> [Ordinals -> AttemptStatus]]
    /\ challenge \in [Invocations -> Challengers \cup {NoOne}]

InvocationInit ==
    /\ inv = [i \in Invocations |-> [status |-> "absent", cancel |-> FALSE, n |-> 0, live |-> FALSE]]
    /\ att = [i \in Invocations |-> [n \in Ordinals |-> "none"]]
    /\ challenge = [i \in Invocations |-> NoOne]

\* InvocationService.Create: pinned to an assignment that is active now.
CreateInvocation(i) ==
    /\ inv[i].status = "absent"
    /\ AssignmentUsable(AssignmentOf[i])
    /\ inv' = [inv EXCEPT ![i].status = "requested"]
    /\ UNCHANGED <<att, challenge, authorityVars>>

\* CreateChallenge: at most one unconsumed challenge per invocation, the last
\* one issued.
CreateChallenge(i, d) ==
    /\ challenge' = [challenge EXCEPT ![i] = d]
    /\ UNCHANGED <<inv, att, authorityVars>>

ActiveInvocations ==
    {j \in Invocations : \/ inv[j].status \in {"send_started", "response_received"}
                         \/ inv[j].status = "claimed" /\ inv[j].live}

\* lockedClaimableInvocation and the challenge and key checks.
Claimable(i, d, k) ==
    /\ inv[i].status = "requested"
    /\ Cardinality(ActiveInvocations) < GlobalConcurrency
    /\ challenge[i] = d
    /\ KeyUsable(k)

\* ClaimInvocationAuthenticated with createClaimAttempt.  MaxAttempts bounds
\* the retries of one invocation.
ClaimInvocationAuthenticated(i, d, k) ==
    /\ Claimable(i, d, k)
    /\ inv[i].n < MaxAttempts
    /\ inv' = [inv EXCEPT ![i].status = "claimed", ![i].n = @ + 1, ![i].live = TRUE]
    /\ att' = [att EXCEPT ![i][inv[i].n + 1] = "claimed"]
    /\ challenge' = [challenge EXCEPT ![i] = NoOne]
    /\ UNCHANGED authorityVars

\* The row changes that end or advance attempt n.
Move(i, n, attStatus, invStatus) ==
    /\ att' = [att EXCEPT ![i][n] = attStatus]
    /\ inv' = [inv EXCEPT ![i].status = invStatus]
    /\ UNCHANGED challenge

\* verifyClaim: the only check that looks at the claim's expiry.
verifyClaim(i, n, k) ==
    /\ inv[i].status = "claimed" /\ att[i][n] = "claimed"
    /\ inv[i].live /\ KeyUsable(k)

PersistPreSendAllowAndMarkSendStarted(i, n, k) ==
    /\ verifyClaim(i, n, k)
    /\ AssignmentUsable(AssignmentOf[i])
    /\ ~inv[i].cancel
    /\ Move(i, n, "send_started", "send_started")
    /\ assignment' = Consumed(AssignmentOf[i])
    /\ UNCHANGED <<principal, key>>

PersistPreSendDenyAndFail(i, n, k) ==
    /\ verifyClaim(i, n, k)
    /\ Move(i, n, "failed_before_send", "failed")
    /\ UNCHANGED authorityVars

(* Mutant: nor at the attempt's. *)
FailAnyAttempt(i, n) ==
    /\ Move(i, n, "failed_before_send", "failed")
    /\ UNCHANGED authorityVars

\* FailBeforeSend updates the invocation without looking at its status.
FailBeforeSend(i, n) ==
    /\ att[i][n] = "claimed"
    /\ Move(i, n, "failed_before_send", "failed")
    /\ UNCHANGED authorityVars

FailCommittedBeforeRequest(i, n) ==
    /\ att[i][n] = "send_started" /\ inv[i].status = "send_started"
    /\ Move(i, n, "failed_before_send", "failed")
    /\ UNCHANGED authorityVars

RejectProviderResponse(i, n) ==
    /\ att[i][n] = "send_started" /\ inv[i].status = "send_started"
    /\ Move(i, n, "completed", "failed")
    /\ UNCHANGED authorityVars

MarkAmbiguous(i, n) ==
    /\ att[i][n] = "send_started" /\ inv[i].status = "send_started"
    /\ Move(i, n, "ambiguous", "ambiguous")
    /\ UNCHANGED authorityVars

MarkResponseReceived(i, n) ==
    /\ att[i][n] = "send_started" /\ inv[i].status = "send_started"
    /\ Move(i, n, "response_received", "response_received")
    /\ UNCHANGED authorityVars

FailAfterResponse(i, n) ==
    /\ att[i][n] = "response_received" /\ inv[i].status = "response_received"
    /\ Move(i, n, "completed", "failed")
    /\ UNCHANGED authorityVars

CompleteInvocation(i, n) ==
    /\ att[i][n] = "response_received" /\ inv[i].status = "response_received"
    /\ Move(i, n, "completed", "succeeded")
    /\ UNCHANGED authorityVars

\* MarkCancelled, like FailBeforeSend, trusts the attempt's status.
MarkCancelled(i, n) ==
    /\ att[i][n] \in {"send_started", "response_received"}
    /\ inv[i].cancel
    /\ Move(i, n, "completed", "cancelled")
    /\ UNCHANGED authorityVars

\* RequestCancellation: at once before the send, otherwise recorded for the
\* dispatcher to act on.
RequestCancellation(i) ==
    /\ UNCHANGED <<challenge, authorityVars>>
    /\ \/ /\ inv[i].status = "requested"
          /\ inv' = [inv EXCEPT ![i].status = "cancelled", ![i].cancel = TRUE]
          /\ UNCHANGED att
       \/ /\ inv[i].status = "claimed"
          /\ inv' = [inv EXCEPT ![i].status = "cancelled", ![i].cancel = TRUE]
          /\ att' = [att EXCEPT ![i] = [n \in Ordinals |->
                       IF @[n] = "claimed" THEN "failed_before_send" ELSE @[n]]]
       \/ /\ inv[i].status \in {"send_started", "response_received"}
          /\ ~inv[i].cancel
          /\ inv' = [inv EXCEPT ![i].cancel = TRUE]
          /\ UNCHANGED att

\* Time passes the claim's expiry (ClaimTTL, or the deadline once sent).
ClaimExpires(i) ==
    /\ inv[i].status \in InFlight /\ inv[i].live
    /\ inv' = [inv EXCEPT ![i].live = FALSE]
    /\ UNCHANGED <<att, challenge, authorityVars>>

(* Mutant: an expired send is retried instead of left ambiguous. *)
RetrySent(i, n) ==
    /\ ~inv[i].live
    /\ att[i][n] \in InFlight /\ inv[i].status = att[i][n]
    /\ \/ att[i][n] \in {"claimed", "send_started"} /\ Move(i, n, "failed_before_send", "requested")
       \/ att[i][n] = "response_received" /\ Move(i, n, "completed", "failed")
    /\ UNCHANGED authorityVars

(* Mutant: the reconciler knows claims and sends only. *)
SkipAnswered(i, n) ==
    /\ ~inv[i].live
    /\ inv[i].status = att[i][n]
    /\ \/ att[i][n] = "claimed" /\ Move(i, n, "failed_before_send", "requested")
       \/ att[i][n] = "send_started" /\ Move(i, n, "ambiguous", "ambiguous")
    /\ UNCHANGED authorityVars

\* Store.Reconcile for one expired attempt.
Reconcile(i, n) ==
    /\ ~inv[i].live
    /\ att[i][n] \in InFlight /\ inv[i].status = att[i][n]
    /\ \/ att[i][n] = "claimed" /\ Move(i, n, "failed_before_send", "requested")
       \/ att[i][n] = "send_started" /\ Move(i, n, "ambiguous", "ambiguous")
       \/ att[i][n] = "response_received" /\ Move(i, n, "completed", "failed")
    /\ UNCHANGED authorityVars

\* What a dispatcher, holding a key, does to attempt n.
AttemptStep(i, n, k) ==
    \/ PersistPreSendAllowAndMarkSendStarted(i, n, k)
    \/ PersistPreSendDenyAndFail(i, n, k)
    \/ FailBeforeSend(i, n) \/ FailCommittedBeforeRequest(i, n)
    \/ RejectProviderResponse(i, n) \/ MarkAmbiguous(i, n)
    \/ MarkResponseReceived(i, n) \/ FailAfterResponse(i, n)
    \/ CompleteInvocation(i, n) \/ MarkCancelled(i, n)

InvocationNext ==
    \/ \E i \in Invocations :
          \/ CreateInvocation(i) \/ RequestCancellation(i) \/ ClaimExpires(i)
          \/ \E d \in Challengers : CreateChallenge(i, d)
          \/ \E d \in Challengers, k \in Keys : ClaimInvocationAuthenticated(i, d, k)
          \/ \E n \in Ordinals, k \in Keys : AttemptStep(i, n, k)
          \/ \E n \in Ordinals : Reconcile(i, n)
    \/ (AuthoritySetUp \/ AuthorityChange) /\ UNCHANGED invocationVars

storeVars == <<invocationVars, authorityVars>>

InvocationSpec == AuthorityInit /\ InvocationInit /\ [][InvocationNext]_storeVars

(***************************************************************************)
(* Properties.                                                             *)
(***************************************************************************)

(* An invocation is in flight exactly when its last attempt is, in the same *)
(* status, and no earlier attempt is: the operations that change the        *)
(* invocation after looking at the attempt only, or the other way round,    *)
(* never act for a dispatcher whose claim was superseded.                   *)
AttemptMirrorsInvocation ==
    \A i \in Invocations, n \in Ordinals :
        /\ att[i][n] \in InFlight => n = inv[i].n /\ inv[i].status = att[i][n]
        /\ inv[i].status \in InFlight /\ n = inv[i].n => att[i][n] = inv[i].status

(* An invocation that ended stays ended: no late answer, late failure,       *)
(* cancellation or reconciliation of any attempt changes it again.           *)
TerminalInvocationIsFinal ==
    [][\A i \in Invocations :
          inv[i].status \in TerminalStatus => inv'[i].status = inv[i].status]_invocationVars

(* Never more invocations hold a live claim, or wait for the provider, than  *)
(* the configured concurrency, although an expired claim stops counting      *)
(* before its dispatcher knows.                                              *)
ConcurrencyLimited == Cardinality(ActiveInvocations) <= GlobalConcurrency
=============================================================================
