------------------------------- MODULE Outbox -------------------------------
(***************************************************************************)
(* The durable outbox (outbox_events).  A task's transaction inserts the   *)
(* event, consumers claim it, hand it on and acknowledge it with the       *)
(* claim's token, the reconciler takes back overdue claims, and operators  *)
(* prune old rows.  Every operation locks the event's row first.           *)
(*                                                                         *)
(* A claim's token is named by the attempt that issued it.  live says the  *)
(* claim has not expired, due that available_at has come.                  *)
(***************************************************************************)
EXTENDS Naturals

CONSTANTS
  Events,      \* identities of events
  MaxAttempts  \* outbox_events.max_attempts

ASSUME MaxAttemptsAssumption == MaxAttempts \in Nat /\ MaxAttempts > 0

VARIABLES
  eventStatus,  \* outbox_events.status; "absent" before, "pruned" after
  attempts,     \* outbox_events.attempt_count
  live,         \* claim_expires_at > now
  due,          \* available_at <= now
  age,          \* "young", "day" (>= 24 hours), "month" (>= 30 days)
  delivered     \* attempts whose consumer has handed the event on

outboxVars == <<eventStatus, attempts, live, due, age, delivered>>

Ordinals == 1..MaxAttempts

OutboxInit ==
  /\ eventStatus = [e \in Events |-> "absent"]
  /\ attempts = [e \in Events |-> 0]
  /\ live = [e \in Events |-> FALSE]
  /\ due = [e \in Events |-> FALSE]
  /\ age = [e \in Events |-> "young"]
  /\ delivered = [e \in Events |-> {}]

appendTaskEvent(e) ==
  /\ eventStatus[e] = "absent"
  /\ eventStatus' = [eventStatus EXCEPT ![e] = "pending"]
  /\ due' = [due EXCEPT ![e] = TRUE]
  /\ UNCHANGED <<attempts, live, age, delivered>>

(* One row of ClaimOutbox; it does not look at max_attempts. *)
ClaimOutbox(e) ==
  /\ eventStatus[e] = "pending" /\ due[e]
  /\ eventStatus' = [eventStatus EXCEPT ![e] = "claimed"]
  /\ attempts' = [attempts EXCEPT ![e] = @ + 1]
  /\ live' = [live EXCEPT ![e] = TRUE]
  /\ UNCHANGED <<due, age, delivered>>

(* The consumer of claim n hands the event on, possibly after the claim    *)
(* has expired.                                                            *)
Deliver(e, n) ==
  /\ n <= attempts[e] /\ n \notin delivered[e]
  /\ delivered' = [delivered EXCEPT ![e] = @ \cup {n}]
  /\ UNCHANGED <<eventStatus, attempts, live, due, age>>

(* Mutant: the token of any claim is accepted. *)
verifyAnyClaim(e, n) == eventStatus[e] = "claimed" /\ n <= attempts[e] /\ live[e]

verifyOutboxClaim(e, n) == eventStatus[e] = "claimed" /\ n = attempts[e] /\ live[e]

AckOutbox(e, n) ==
  /\ n \in delivered[e]
  /\ verifyOutboxClaim(e, n)
  /\ eventStatus' = [eventStatus EXCEPT ![e] = "published"]
  /\ live' = [live EXCEPT ![e] = FALSE]
  /\ UNCHANGED <<attempts, due, age, delivered>>

(* Mutant: one claim too many. *)
ReturnedOnceMore(e) == IF attempts[e] > MaxAttempts THEN "dead" ELSE "pending"

(* Where an event goes whose claim did not succeed. *)
Returned(e) == IF attempts[e] >= MaxAttempts THEN "dead" ELSE "pending"

NackOutbox(e, n) ==
  /\ verifyOutboxClaim(e, n)
  /\ eventStatus' = [eventStatus EXCEPT ![e] = Returned(e)]
  /\ due' = [due EXCEPT ![e] = IF Returned(e) = "pending" THEN FALSE ELSE @]
  /\ live' = [live EXCEPT ![e] = FALSE]
  /\ UNCHANGED <<attempts, age, delivered>>

(* Mutant: a claim on the last attempt is not recovered. *)
recoverRetryable(e) ==
  /\ eventStatus[e] = "claimed" /\ ~live[e] /\ attempts[e] < MaxAttempts
  /\ eventStatus' = [eventStatus EXCEPT ![e] = "pending"]
  /\ due' = [due EXCEPT ![e] = TRUE]
  /\ UNCHANGED <<attempts, live, age, delivered>>

(* One row of recoverOutboxTx. *)
recoverOutbox(e) ==
  /\ eventStatus[e] = "claimed" /\ ~live[e]
  /\ eventStatus' = [eventStatus EXCEPT ![e] = Returned(e)]
  /\ due' = [due EXCEPT ![e] = TRUE]
  /\ UNCHANGED <<attempts, live, age, delivered>>

(* Mutant: pending rows are pruned as early as the others. *)
PruneAgesAlike(s) == {"day", "month"}

(* Ages a prune request may name for rows of a status: 24 hours at least,  *)
(* 30 days when pending rows are included.                                 *)
PruneAges(s) == IF s = "pending" THEN {"month"} ELSE {"day", "month"}

(* One row of PruneOutbox. *)
PruneOutbox(e) ==
  /\ eventStatus[e] \in {"published", "dead", "pending"}
  /\ age[e] \in PruneAges(eventStatus[e])
  /\ eventStatus' = [eventStatus EXCEPT ![e] = "pruned"]
  /\ UNCHANGED <<attempts, live, due, age, delivered>>

-----------------------------------------------------------------------------
(* The passing of time. *)

ClaimExpires(e) ==
  /\ eventStatus[e] = "claimed" /\ live[e]
  /\ live' = [live EXCEPT ![e] = FALSE]
  /\ UNCHANGED <<eventStatus, attempts, due, age, delivered>>

BecomesDue(e) ==
  /\ eventStatus[e] = "pending" /\ ~due[e]
  /\ due' = [due EXCEPT ![e] = TRUE]
  /\ UNCHANGED <<eventStatus, attempts, live, age, delivered>>

GrowsOlder(e) ==
  /\ eventStatus[e] # "absent" /\ age[e] # "month"
  /\ age' = [age EXCEPT ![e] = IF @ = "young" THEN "day" ELSE "month"]
  /\ UNCHANGED <<eventStatus, attempts, live, due, delivered>>

-----------------------------------------------------------------------------
OutboxNext == \E e \in Events :
  \/ appendTaskEvent(e) \/ ClaimOutbox(e)
  \/ \E n \in Ordinals : Deliver(e, n) \/ AckOutbox(e, n) \/ NackOutbox(e, n)
  \/ recoverOutbox(e) \/ PruneOutbox(e)
  \/ ClaimExpires(e) \/ BecomesDue(e) \/ GrowsOlder(e)

(* The reconciler runs periodically and time passes; nothing is assumed of *)
(* consumers or operators.                                                 *)
OutboxSpec ==
  /\ OutboxInit /\ [][OutboxNext]_outboxVars
  /\ \A e \in Events : WF_outboxVars(recoverOutbox(e)) /\ WF_outboxVars(ClaimExpires(e)) /\ WF_outboxVars(BecomesDue(e))

-----------------------------------------------------------------------------
(* Properties. *)

(* Every variable has the shape of its column, and attempt_count never     *)
(* passes max_attempts although a claim does not compare them.             *)
OutboxTypeOK ==
  /\ eventStatus \in [Events -> {"absent", "pending", "claimed", "published", "dead", "pruned"}]
  /\ attempts \in [Events -> 0..MaxAttempts]
  /\ live \in [Events -> BOOLEAN]
  /\ due \in [Events -> BOOLEAN]
  /\ age \in [Events -> {"young", "day", "month"}]
  /\ delivered \in [Events -> SUBSET Ordinals]

(* A pending event has an attempt left, a dead one has none, and a token   *)
(* is alive only while its event is claimed.                               *)
AttemptsAccounted ==
  \A e \in Events :
    /\ eventStatus[e] = "pending" => attempts[e] < MaxAttempts
    /\ eventStatus[e] = "dead" => attempts[e] = MaxAttempts
    /\ eventStatus[e] \in {"claimed", "published"} => attempts[e] > 0
    /\ live[e] => eventStatus[e] = "claimed"

(* A published event was handed on by the holder of the latest claim: the  *)
(* late acknowledgement of a consumer whose claim was taken back never     *)
(* closes the event under its successor.                                   *)
PublishedByLatestClaim == \A e \in Events : eventStatus[e] = "published" => attempts[e] \in delivered[e]

(* Pruning loses no event nobody was given, unless it used up its attempts *)
(* or went unclaimed for 30 days.                                          *)
NothingFreshIsLost ==
  \A e \in Events :
    eventStatus[e] = "pruned" /\ delivered[e] = {} => attempts[e] = MaxAttempts \/ age[e] = "month"

(* A crashed consumer does not keep an event: every claim ends. *)
EveryClaimEnds == \A e \in Events : eventStatus[e] = "claimed" ~> eventStatus[e] # "claimed"
=============================================================================
