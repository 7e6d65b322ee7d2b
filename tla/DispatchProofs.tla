--------------------------- MODULE DispatchProofs ---------------------------
(***************************************************************************)
(* Proofs about the invocation store: for any invocations, dispatchers,    *)
(* keys and limits, attempts mirror their invocation, an ended invocation  *)
(* stays ended, and the concurrency limit holds.                           *)
(*                                                                         *)
(* Then proofs about the composition: the dispatchers, the reconciler and  *)
(* the operators together implement the specifications of the invocation   *)
(* store, of the wallet ledger and of the budget tree, so everything       *)
(* proved of those holds here.                                             *)
(***************************************************************************)
EXTENDS Dispatch, CostProofs, FiniteSetTheorems

(* Inductive strengthening: the attempts used are the first ones, an         *)
(* invocation in flight has one, and attempts mirror their invocation.       *)
StoreInv ==
    /\ InvocationTypeOK
    /\ \A i \in Invocations : inv[i].status \in InFlight => inv[i].n \in Ordinals
    /\ AttemptMirrorsInvocation

(* The empty store satisfies it. *)
LEMMA StoreInitInv == InvocationInit => StoreInv
BY InvocationAssumption DEF InvocationInit, StoreInv, InvocationTypeOK, AttemptMirrorsInvocation,
   InvocationStatus, AttemptStatus, InFlight, TerminalStatus, Ordinals

(* A step on nothing but the authority keeps it. *)
LEMMA StoreStutter ==
    ASSUME StoreInv, UNCHANGED invocationVars
    PROVE  StoreInv'
BY Zenon DEF StoreInv, invocationVars, InvocationTypeOK, AttemptMirrorsInvocation

\* A change of one invocation's row and attempts.
Update(i, row, atts) ==
    /\ inv' = [inv EXCEPT ![i] = row]
    /\ att' = [att EXCEPT ![i] = atts]

InvRow == [status : InvocationStatus, cancel : BOOLEAN, n : 0..MaxAttempts, live : BOOLEAN]

(* An invocation's row and attempts may be replaced by ones that mirror each *)
(* other.                                                                    *)
LEMMA UpdateInv ==
    ASSUME StoreInv, NEW i \in Invocations, NEW row \in InvRow,
           NEW atts \in [Ordinals -> AttemptStatus], Update(i, row, atts),
           challenge' \in [Invocations -> Challengers \cup {NoOne}],
           row.status \in InFlight => row.n \in Ordinals,
           \A n \in Ordinals :
              /\ atts[n] \in InFlight => n = row.n /\ row.status = atts[n]
              /\ row.status \in InFlight /\ n = row.n => atts[n] = row.status
    PROVE  StoreInv'
<1>1. /\ inv \in [Invocations -> InvRow]
      /\ att \in [Invocations -> [Ordinals -> AttemptStatus]]
  BY Zenon DEF StoreInv, InvocationTypeOK, InvRow
<1>2. /\ inv' \in [Invocations -> InvRow]
      /\ att' \in [Invocations -> [Ordinals -> AttemptStatus]]
  BY <1>1, Zenon DEF Update
<1>3. InvocationTypeOK'
  BY <1>2, Zenon DEF InvocationTypeOK, InvRow
<1>4. /\ inv'[i] = row /\ att'[i] = atts
      /\ \A j \in Invocations \ {i} : inv'[j] = inv[j] /\ att'[j] = att[j]
  BY <1>1, Zenon DEF Update
<1>5. \A j \in Invocations : inv'[j].status \in InFlight => inv'[j].n \in Ordinals
  BY <1>4, Zenon DEF StoreInv
<1>6. AttemptMirrorsInvocation'
  BY <1>4 DEF StoreInv, AttemptMirrorsInvocation
<1> QED
  BY <1>3, <1>5, <1>6, Zenon DEF StoreInv

(* Ending or advancing the attempt in flight keeps it. *)
LEMMA MoveInv ==
    ASSUME StoreInv, NEW i \in Invocations, NEW n \in Ordinals,
           NEW a \in AttemptStatus, NEW s \in InvocationStatus,
           Move(i, n, a, s), att[i][n] \in InFlight,
           a \in InFlight <=> s \in InFlight, a \in InFlight => a = s
    PROVE  StoreInv'
<1> DEFINE row == [inv[i] EXCEPT !.status = s]
           atts == [att[i] EXCEPT ![n] = a]
<1>1. inv[i] \in InvRow /\ att[i] \in [Ordinals -> AttemptStatus]
      /\ challenge \in [Invocations -> Challengers \cup {NoOne}]
  BY Zenon DEF StoreInv, InvocationTypeOK, InvRow
<1>2. row \in InvRow /\ row.status = s /\ row.n = inv[i].n
  BY <1>1, Zenon DEF InvRow
<1>3. atts \in [Ordinals -> AttemptStatus] /\ atts[n] = a /\ \A m \in Ordinals \ {n} : atts[m] = att[i][m]
  BY <1>1, Zenon
<1>4. Update(i, row, atts) /\ challenge' = challenge
  BY <1>1, Zenon DEF Move, Update, StoreInv, InvocationTypeOK
<1>5. inv[i].n = n /\ inv[i].status = att[i][n] /\ inv[i].n \in Ordinals
  BY Zenon DEF StoreInv, AttemptMirrorsInvocation
<1>6. \A m \in Ordinals : att[i][m] \in InFlight => m = n
  BY <1>5, Zenon DEF StoreInv, AttemptMirrorsInvocation
<1> HIDE DEF row, atts
<1> QED
  BY <1>1, <1>2, <1>3, <1>4, <1>5, <1>6, UpdateInv

(* Every step of a dispatcher or of the reconciler on an attempt moves one    *)
(* that is in flight: a dispatcher whose claim was superseded changes nothing. *)
LEMMA StepsMoveInFlight ==
    ASSUME StoreInv, NEW i \in Invocations, NEW n \in Ordinals,
           Reconcile(i, n) \/ \E k \in Keys : AttemptStep(i, n, k)
    PROVE  /\ att[i][n] \in InFlight
           /\ \E a \in AttemptStatus, s \in InvocationStatus :
                 /\ Move(i, n, a, s)
                 /\ a \in InFlight <=> s \in InFlight
                 /\ a \in InFlight => a = s
                 /\ s \in InFlight => \/ inv[i].status \in {"send_started", "response_received"}
                                      \/ inv[i].status = "claimed" /\ inv[i].live
BY DEF AttemptStep, Reconcile, PersistPreSendAllowAndMarkSendStarted, PersistPreSendDenyAndFail,
   verifyClaim, FailBeforeSend, FailCommittedBeforeRequest, RejectProviderResponse, MarkAmbiguous,
   MarkResponseReceived, FailAfterResponse, CompleteInvocation, MarkCancelled,
   InFlight, AttemptStatus, InvocationStatus, TerminalStatus

(* A claim keeps the invariant. *)
LEMMA ClaimInv ==
    ASSUME StoreInv, NEW i \in Invocations, NEW d \in Challengers, NEW k \in Keys,
           ClaimInvocationAuthenticated(i, d, k)
    PROVE  StoreInv'
<1> DEFINE row == [inv[i] EXCEPT !.status = "claimed", !.n = @ + 1, !.live = TRUE]
           atts == [att[i] EXCEPT ![inv[i].n + 1] = "claimed"]
<1>1. /\ inv[i] \in InvRow /\ att[i] \in [Ordinals -> AttemptStatus]
      /\ challenge \in [Invocations -> Challengers \cup {NoOne}]
  BY Zenon DEF StoreInv, InvocationTypeOK, InvRow
<1>2. inv[i].n + 1 \in Ordinals /\ inv[i].status = "requested"
  BY <1>1, InvocationAssumption DEF ClaimInvocationAuthenticated, Claimable, InvRow, Ordinals
<1>3. row \in InvRow /\ row.status = "claimed" /\ row.n = inv[i].n + 1
  <2> DEFINE m == inv[i].n + 1
  <2>1. m \in 0..MaxAttempts /\ "claimed" \in InvocationStatus
    BY <1>2, InvocationAssumption DEF Ordinals, InvocationStatus, InFlight
  <2>2. row = [inv[i] EXCEPT !.status = "claimed", !.n = m, !.live = TRUE]
    BY Zenon
  <2> HIDE DEF m
  <2> QED
    BY <1>1, <2>1, <2>2, Zenon DEF InvRow, m
<1>4. atts \in [Ordinals -> AttemptStatus] /\ atts[inv[i].n + 1] = "claimed"
      /\ \A m \in Ordinals \ {inv[i].n + 1} : atts[m] = att[i][m]
  BY <1>1, <1>2, Zenon DEF AttemptStatus, InFlight
<1>5. Update(i, row, atts)
  BY <1>1, Zenon DEF ClaimInvocationAuthenticated, Update, StoreInv, InvocationTypeOK
<1>6. challenge' \in [Invocations -> Challengers \cup {NoOne}]
  BY <1>1, Zenon DEF ClaimInvocationAuthenticated
<1>7. \A m \in Ordinals : att[i][m] \notin InFlight
  BY <1>2, Zenon DEF StoreInv, AttemptMirrorsInvocation, InFlight
<1> HIDE DEF row, atts
<1> QED
  BY <1>2, <1>3, <1>4, <1>5, <1>6, <1>7, UpdateInv

(* A cancellation request keeps it. *)
LEMMA CancelInv ==
    ASSUME StoreInv, NEW i \in Invocations, RequestCancellation(i)
    PROVE  StoreInv'
<1> DEFINE ended == [inv[i] EXCEPT !.status = "cancelled", !.cancel = TRUE]
           noted == [inv[i] EXCEPT !.cancel = TRUE]
           atts == [n \in Ordinals |-> IF att[i][n] = "claimed" THEN "failed_before_send" ELSE att[i][n]]
<1>1. /\ inv[i] \in InvRow /\ att[i] \in [Ordinals -> AttemptStatus]
      /\ challenge' \in [Invocations -> Challengers \cup {NoOne}]
      /\ att = [att EXCEPT ![i] = att[i]]
  BY Zenon DEF StoreInv, InvocationTypeOK, InvRow, RequestCancellation
<1>2. ended \in InvRow /\ ended.status = "cancelled"
  BY <1>1, Zenon DEF InvRow, InvocationStatus, TerminalStatus
<1>3. noted \in InvRow /\ noted.status = inv[i].status /\ noted.n = inv[i].n
  BY <1>1, Zenon DEF InvRow
<1>4. atts \in [Ordinals -> AttemptStatus]
  BY <1>1, Zenon DEF AttemptStatus
<1>5. \A n \in Ordinals : att[i][n] \in InFlight => att[i][n] = inv[i].status /\ n = inv[i].n
  BY Zenon DEF StoreInv, AttemptMirrorsInvocation
<1>6. CASE inv[i].status = "requested" /\ Update(i, ended, att[i])
  BY <1>1, <1>2, <1>5, <1>6, UpdateInv, Zenon DEF InFlight
<1>7. CASE inv[i].status = "claimed" /\ Update(i, ended, atts)
  <2>1. \A n \in Ordinals : atts[n] \notin InFlight
    BY <1>5, <1>7, Zenon DEF InFlight
  <2>2. "cancelled" \notin InFlight
    BY Zenon DEF InFlight
  <2> HIDE DEF atts, ended
  <2> QED
    BY <1>1, <1>2, <1>4, <1>7, <2>1, <2>2, UpdateInv, Zenon
<1>8. CASE Update(i, noted, att[i])
  <2>1. inv[i].status \in InFlight => inv[i].n \in Ordinals
    BY Zenon DEF StoreInv
  <2>2. \A n \in Ordinals : inv[i].status \in InFlight /\ n = inv[i].n => att[i][n] = inv[i].status
    BY Zenon DEF StoreInv, AttemptMirrorsInvocation
  <2> HIDE DEF noted
  <2> QED
    BY <1>1, <1>3, <1>5, <1>8, <2>1, <2>2, UpdateInv
<1> QED
  <2>1. inv \in [Invocations -> InvRow]
    BY Zenon DEF StoreInv, InvocationTypeOK, InvRow
  <2>2. \/ inv[i].status = "requested" /\ Update(i, ended, att[i])
        \/ inv[i].status = "claimed" /\ Update(i, ended, atts)
        \/ Update(i, noted, att[i])
    BY <1>1, <2>1, Zenon DEF RequestCancellation, Update
  <2> QED
    BY <1>6, <1>7, <1>8, <2>2, Zenon

(* Creating an invocation, issuing a challenge and the passing of time keep   *)
(* it.                                                                        *)
LEMMA OtherInv ==
    ASSUME StoreInv, NEW i \in Invocations,
           \/ CreateInvocation(i) \/ ClaimExpires(i)
           \/ \E d \in Challengers : CreateChallenge(i, d)
    PROVE  StoreInv'
<1>1. inv \in [Invocations -> InvRow] /\ att \in [Invocations -> [Ordinals -> AttemptStatus]]
      /\ challenge \in [Invocations -> Challengers \cup {NoOne}]
  BY Zenon DEF StoreInv, InvocationTypeOK, InvRow
<1>2. /\ inv[i].status \in InFlight => inv[i].n \in Ordinals
      /\ \A n \in Ordinals :
            /\ att[i][n] \in InFlight => n = inv[i].n /\ inv[i].status = att[i][n]
            /\ inv[i].status \in InFlight /\ n = inv[i].n => att[i][n] = inv[i].status
  BY Zenon DEF StoreInv, AttemptMirrorsInvocation
<1>3. CASE CreateInvocation(i)
  <2> DEFINE row == [inv[i] EXCEPT !.status = "requested"]
  <2>1. row \in InvRow /\ row.status = "requested"
    BY <1>1, Zenon DEF InvRow, InvocationStatus
  <2>2. Update(i, row, att[i]) /\ challenge' = challenge
    BY <1>1, <1>3, Zenon DEF CreateInvocation, Update
  <2>3. inv[i].status \notin InFlight /\ "requested" \notin InFlight
    BY <1>3, Zenon DEF CreateInvocation, InFlight
  <2> HIDE DEF row
  <2> QED
    BY <1>1, <1>2, <2>1, <2>2, <2>3, UpdateInv
<1>4. CASE \E d \in Challengers : CreateChallenge(i, d)
  <2>1. inv' = inv /\ att' = att /\ challenge' \in [Invocations -> Challengers \cup {NoOne}]
    BY <1>1, <1>4, Zenon DEF CreateChallenge
  <2> QED
    BY <2>1, Zenon DEF StoreInv, InvocationTypeOK, AttemptMirrorsInvocation
<1>5. CASE ClaimExpires(i)
  <2> DEFINE row == [inv[i] EXCEPT !.live = FALSE]
  <2>1. row \in InvRow /\ row.status = inv[i].status /\ row.n = inv[i].n
    BY <1>1, Zenon DEF InvRow
  <2>2. Update(i, row, att[i]) /\ challenge' = challenge
    BY <1>1, <1>5, Zenon DEF ClaimExpires, Update
  <2> HIDE DEF row
  <2> QED
    BY <1>1, <1>2, <2>1, <2>2, UpdateInv
<1> QED
  BY <1>3, <1>4, <1>5, Zenon

(* Every step of the store keeps the invariant. *)
LEMMA StoreStep == StoreInv /\ [InvocationNext]_storeVars => StoreInv'
<1> SUFFICES ASSUME StoreInv, [InvocationNext]_storeVars PROVE StoreInv'
  BY Zenon
<1>1. CASE UNCHANGED invocationVars
  BY <1>1, StoreStutter, Zenon
<1>2. ASSUME NEW i \in Invocations, CreateInvocation(i) \/ ClaimExpires(i) \/ RequestCancellation(i)
      PROVE  StoreInv'
  BY <1>2, CancelInv, OtherInv, Zenon
<1>3. ASSUME NEW i \in Invocations, NEW d \in Challengers, CreateChallenge(i, d)
      PROVE  StoreInv'
  BY <1>3, OtherInv, Zenon
<1>4. ASSUME NEW i \in Invocations, NEW d \in Challengers, NEW k \in Keys,
             ClaimInvocationAuthenticated(i, d, k)
      PROVE  StoreInv'
  BY <1>4, ClaimInv, Zenon
<1>5. ASSUME NEW i \in Invocations, NEW n \in Ordinals, NEW k \in Keys, AttemptStep(i, n, k)
      PROVE  StoreInv'
  BY <1>5, StepsMoveInFlight, MoveInv, Zenon
<1>6. ASSUME NEW i \in Invocations, NEW n \in Ordinals, Reconcile(i, n)
      PROVE  StoreInv'
  BY <1>6, StepsMoveInFlight, MoveInv, Zenon
<1> QED
  BY <1>1, <1>2, <1>3, <1>4, <1>5, <1>6, Zenon DEF InvocationNext, storeVars

(* In every reachable state attempts mirror their invocation: an operation   *)
(* that checks only one of the two rows still acts on both consistently, and *)
(* a superseded dispatcher acts on neither.                                  *)
THEOREM AttemptsMirror == InvocationSpec => []AttemptMirrorsInvocation
<1>1. InvocationInit => StoreInv
  BY StoreInitInv, Zenon
<1>2. StoreInv /\ [InvocationNext]_storeVars => StoreInv'
  BY StoreStep, Zenon
<1>3. StoreInv => AttemptMirrorsInvocation
  BY Zenon DEF StoreInv
<1> QED
  BY <1>1, <1>2, <1>3, PTL DEF InvocationSpec

(* No step changes an invocation that ended. *)
LEMMA StepKeepsTerminal ==
    ASSUME StoreInv, [InvocationNext]_storeVars, NEW j \in Invocations,
           inv[j].status \in TerminalStatus
    PROVE  inv'[j].status = inv[j].status
<1>0. inv \in [Invocations -> InvRow] /\ inv[j].status \notin InFlight
      /\ inv[j].status \notin {"absent", "requested"}
  BY Zenon DEF StoreInv, InvocationTypeOK, InvRow, TerminalStatus, InFlight
<1>1. CASE UNCHANGED invocationVars
  BY <1>1, Zenon DEF invocationVars
<1>2. ASSUME NEW i \in Invocations,
             \/ CreateInvocation(i) \/ ClaimExpires(i) \/ RequestCancellation(i)
             \/ \E d \in Challengers : CreateChallenge(i, d)
             \/ \E d \in Challengers, k \in Keys : ClaimInvocationAuthenticated(i, d, k)
      PROVE  inv'[j].status = inv[j].status
  BY <1>0, <1>2, Zenon DEF CreateInvocation, ClaimExpires, RequestCancellation, CreateChallenge,
     ClaimInvocationAuthenticated, Claimable, InFlight
<1>3. ASSUME NEW i \in Invocations, NEW n \in Ordinals,
             Reconcile(i, n) \/ \E k \in Keys : AttemptStep(i, n, k)
      PROVE  inv'[j].status = inv[j].status
  <2>1. att[i][n] \in InFlight /\ \E a \in AttemptStatus, s \in InvocationStatus : Move(i, n, a, s)
    BY <1>3, StepsMoveInFlight, Zenon
  <2>2. inv[i].status \in InFlight
    BY <2>1, Zenon DEF StoreInv, AttemptMirrorsInvocation
  <2> QED
    BY <1>0, <2>1, <2>2, Zenon DEF Move
<1> QED
  BY <1>1, <1>2, <1>3, Zenon DEF InvocationNext, storeVars

(* An invocation that ended stays ended in every behaviour of the store: late *)
(* answers, late failures, cancellations and reconciliations change nothing.  *)
THEOREM EndedInvocationIsFinal == InvocationSpec => TerminalInvocationIsFinal
<1>1. InvocationInit => StoreInv
  BY StoreInitInv, Zenon
<1>2. StoreInv /\ [InvocationNext]_storeVars => StoreInv'
  BY StoreStep, Zenon
<1>3. StoreInv /\ [InvocationNext]_storeVars
        => [\A i \in Invocations :
              inv[i].status \in TerminalStatus => inv'[i].status = inv[i].status]_invocationVars
  BY StepKeepsTerminal, Zenon
<1> QED
  BY <1>1, <1>2, <1>3, PTL DEF InvocationSpec, TerminalInvocationIsFinal

(* Invocations that count against the limit only leave, except by a claim.    *)
LEMMA ActiveShrinks ==
    ASSUME StoreInv, [InvocationNext]_storeVars,
           ~ \E i \in Invocations, d \in Challengers, k \in Keys : ClaimInvocationAuthenticated(i, d, k)
    PROVE  ActiveInvocations' \subseteq ActiveInvocations
<1>0. inv \in [Invocations -> InvRow]
  BY Zenon DEF StoreInv, InvocationTypeOK, InvRow
<1>1. CASE UNCHANGED invocationVars
  BY <1>1, Zenon DEF invocationVars, ActiveInvocations
<1>2. ASSUME NEW i \in Invocations,
             \/ CreateInvocation(i) \/ ClaimExpires(i) \/ RequestCancellation(i)
             \/ \E d \in Challengers : CreateChallenge(i, d)
      PROVE  ActiveInvocations' \subseteq ActiveInvocations
  <2>1. \A j \in Invocations \ {i} : inv'[j] = inv[j]
    BY <1>0, <1>2, Zenon DEF CreateInvocation, ClaimExpires, RequestCancellation, CreateChallenge
  <2>2. \/ inv'[i].status \in {"requested", "cancelled"}
        \/ inv'[i].status = inv[i].status /\ (inv'[i].live => inv[i].live)
    BY <1>0, <1>2 DEF CreateInvocation, ClaimExpires, RequestCancellation, CreateChallenge, InvRow
  <2> QED
    BY <2>1, <2>2, Zenon DEF ActiveInvocations
<1>3. ASSUME NEW i \in Invocations, NEW n \in Ordinals,
             Reconcile(i, n) \/ \E k \in Keys : AttemptStep(i, n, k)
      PROVE  ActiveInvocations' \subseteq ActiveInvocations
  <2>1. PICK a \in AttemptStatus, s \in InvocationStatus :
           /\ Move(i, n, a, s)
           /\ s \in InFlight => \/ inv[i].status \in {"send_started", "response_received"}
                                \/ inv[i].status = "claimed" /\ inv[i].live
    BY <1>3, StepsMoveInFlight, Zenon
  <2>2. /\ inv'[i].status = s
        /\ \A j \in Invocations \ {i} : inv'[j] = inv[j]
    BY <1>0, <2>1, Zenon DEF Move, InvRow
  <2> QED
    BY <2>1, <2>2, Zenon DEF ActiveInvocations, InFlight
<1> QED
  BY <1>1, <1>2, <1>3, Zenon DEF InvocationNext, storeVars

(* A claim adds one invocation, and only below the limit. *)
LEMMA ClaimWithinLimit ==
    ASSUME StoreInv, NEW i \in Invocations, NEW d \in Challengers, NEW k \in Keys,
           ClaimInvocationAuthenticated(i, d, k)
    PROVE  ConcurrencyLimited'
<1>0. inv \in [Invocations -> InvRow]
  BY Zenon DEF StoreInv, InvocationTypeOK, InvRow
<1>1. ActiveInvocations' \subseteq ActiveInvocations \cup {i}
  BY <1>0, Zenon DEF ClaimInvocationAuthenticated, ActiveInvocations
<1>2. IsFiniteSet(ActiveInvocations)
  BY FS_Subset, InvocationAssumption, Zenon DEF ActiveInvocations
<1>3. Cardinality(ActiveInvocations) < GlobalConcurrency
  BY Zenon DEF ClaimInvocationAuthenticated, Claimable
<1>4. IsFiniteSet(ActiveInvocations \cup {i})
      /\ Cardinality(ActiveInvocations \cup {i}) <= Cardinality(ActiveInvocations) + 1
  <2>1. Cardinality(ActiveInvocations) \in Nat
    BY <1>2, FS_CardinalityType, Zenon
  <2>2. /\ IsFiniteSet(ActiveInvocations \cup {i})
        /\ Cardinality(ActiveInvocations \cup {i})
             = IF i \in ActiveInvocations THEN Cardinality(ActiveInvocations)
               ELSE Cardinality(ActiveInvocations) + 1
    BY <1>2, FS_AddElement, Zenon
  <2> QED
    BY <2>1, <2>2
<1>5. Cardinality(ActiveInvocations') <= Cardinality(ActiveInvocations \cup {i})
  BY <1>1, <1>4, FS_Subset, Zenon
<1>6. Cardinality(ActiveInvocations) \in Nat /\ Cardinality(ActiveInvocations \cup {i}) \in Nat
  BY <1>2, <1>4, FS_CardinalityType, Zenon
<1>7. IsFiniteSet(ActiveInvocations')
  BY <1>1, <1>4, FS_Subset, Zenon
<1>8. Cardinality(ActiveInvocations') \in Nat
  BY <1>7, FS_CardinalityType, Zenon
<1> QED
  BY <1>3, <1>4, <1>5, <1>6, <1>8, InvocationAssumption DEF ConcurrencyLimited

(* Never more invocations hold a live claim or wait for the provider than    *)
(* the configured limit, for any limit and any number of dispatchers.        *)
THEOREM ConcurrencyStaysLimited == InvocationSpec => []ConcurrencyLimited
<1>1. AuthorityInit /\ InvocationInit => StoreInv /\ ConcurrencyLimited
  <2> SUFFICES ASSUME InvocationInit PROVE StoreInv /\ ConcurrencyLimited
    BY Zenon
  <2>1. ActiveInvocations = {}
    BY Zenon DEF InvocationInit, ActiveInvocations
  <2> QED
    BY <2>1, StoreInitInv, FS_EmptySet, InvocationAssumption DEF ConcurrencyLimited
<1>2. StoreInv /\ ConcurrencyLimited /\ [InvocationNext]_storeVars => StoreInv' /\ ConcurrencyLimited'
  <2> SUFFICES ASSUME StoreInv, ConcurrencyLimited, [InvocationNext]_storeVars
               PROVE  ConcurrencyLimited'
    BY StoreStep, Zenon
  <2>1. CASE \E i \in Invocations, d \in Challengers, k \in Keys : ClaimInvocationAuthenticated(i, d, k)
    BY <2>1, ClaimWithinLimit, Zenon
  <2>2. CASE ~ \E i \in Invocations, d \in Challengers, k \in Keys : ClaimInvocationAuthenticated(i, d, k)
    <3>1. IsFiniteSet(ActiveInvocations) /\ ActiveInvocations' \subseteq ActiveInvocations
      BY <2>2, ActiveShrinks, FS_Subset, InvocationAssumption, Zenon DEF ActiveInvocations
    <3>2. IsFiniteSet(ActiveInvocations') /\ Cardinality(ActiveInvocations') <= Cardinality(ActiveInvocations)
      BY <3>1, FS_Subset, Zenon
    <3>3. Cardinality(ActiveInvocations) \in Nat /\ Cardinality(ActiveInvocations') \in Nat
      BY <3>1, <3>2, FS_CardinalityType, Zenon
    <3> QED
      BY <3>2, <3>3, InvocationAssumption DEF ConcurrencyLimited
  <2> QED
    BY <2>1, <2>2, Zenon
<1> QED
  BY <1>1, <1>2, PTL DEF InvocationSpec

-----------------------------------------------------------------------------
(* The composition. *)

Proc == [pc : PCs, i : Invocations, n : 0..MaxAttempts]

\* Before the claim a process holds no attempt.
Unclaimed == {"idle", "challenged"}

(* Every process is typed, and holds an attempt once it has claimed one. *)
ProcOK ==
    /\ proc \in [Dispatchers -> Proc]
    /\ \A d \in Dispatchers : proc[d].pc \notin Unclaimed => proc[d].n \in Ordinals

(* What the dispatchers' steps rely on. *)
BaseInv == ProcOK /\ StoreInv /\ LedgerInv

(* A process that goes on, or returns, stays typed. *)
LEMMA ProcMoves ==
    ASSUME ProcOK, NEW d \in Dispatchers,
           \/ Return(d)
           \/ proc[d].pc \notin Unclaimed /\ \E pc \in PCs : Goto(d, pc)
    PROVE  ProcOK'
<1>1. Idle \in Proc /\ Idle.pc = "idle"
  BY InvocationAssumption, DispatchAssumption DEF Idle, Proc, PCs
<1>2. CASE Return(d)
  BY <1>1, <1>2, Zenon DEF Return, ProcOK, Unclaimed
<1>3. ASSUME NEW pc \in PCs, Goto(d, pc), proc[d].pc \notin Unclaimed
      PROVE  ProcOK'
  <2> DEFINE r == [proc[d] EXCEPT !.pc = pc]
  <2>1. proc[d] \in Proc /\ proc[d].n \in Ordinals
    BY <1>3, Zenon DEF ProcOK
  <2>2. r \in Proc /\ r.n \in Ordinals
    BY <2>1, Zenon DEF Proc
  <2>3. proc' = [proc EXCEPT ![d] = r]
    BY <1>3, Zenon DEF Goto, ProcOK
  <2> HIDE DEF r
  <2> QED
    BY <2>2, <2>3, Zenon DEF ProcOK
<1> QED
  BY <1>2, <1>3, Zenon

(* The steps of a dispatcher that call the invocation store after the claim: *)
(* each is a step on the attempt the process holds, or none, and leaves the  *)
(* accounts alone.                                                           *)
StoreSteps(d) ==
    \/ ValidateFails(d) \/ DecisionDenies(d) \/ FailUnreserved(d) \/ EvidenceFails(d)
    \/ StartSend(d) \/ NotSent(d) \/ Rejected(d) \/ StoreAmbiguous(d)
    \/ CancelledBeforeAnswer(d) \/ StoreAnswer(d) \/ NormalizeFails(d)
    \/ CancelledInAnswer(d) \/ Complete(d)

(* The steps that neither call the store nor the accounts. *)
LocalSteps(d) ==
    ValidatePasses(d) \/ RereadFails(d) \/ CallProvider(d) \/ NormalizePasses(d) \/ Crash(d)

(* The steps that call the cost gate. *)
CostSteps(d) ==
    \/ ReserveWallet(d) \/ ConsumeBudget(d) \/ Unreserve(d) \/ DeferredRelease(d)
    \/ Ambiguous(d) \/ Commit(d) \/ TrueUp(d) \/ Settle(d) \/ TrueUpEnd(d)

(* Store steps act on the held attempt. *)
LEMMA StoreStepsAre ==
    ASSUME NEW d \in Dispatchers, StoreSteps(d)
    PROVE  /\ AttemptStep(proc[d].i, proc[d].n, KeyOf[d]) \/ UNCHANGED storeVars
           /\ UNCHANGED <<costVars, worldVars>>
           /\ proc[d].pc \notin Unclaimed
           /\ Return(d) \/ \E pc \in PCs : Goto(d, pc)
<1> USE DEF StoreCall, At, AttemptStep, Unclaimed, PCs
<1>1. CASE ValidateFails(d)
  BY <1>1, Zenon DEF ValidateFails
<1>2. CASE DecisionDenies(d)
  BY <1>2, Zenon DEF DecisionDenies
<1>3. CASE FailUnreserved(d)
  BY <1>3, Zenon DEF FailUnreserved
<1>4. CASE EvidenceFails(d)
  BY <1>4, Zenon DEF EvidenceFails
<1>5. CASE StartSend(d)
  BY <1>5, Zenon DEF StartSend
<1>6. CASE NotSent(d)
  BY <1>6, Zenon DEF NotSent
<1>7. CASE Rejected(d)
  BY <1>7, Zenon DEF Rejected
<1>8. CASE StoreAmbiguous(d)
  BY <1>8, Zenon DEF StoreAmbiguous
<1>9. CASE CancelledBeforeAnswer(d)
  BY <1>9, Zenon DEF CancelledBeforeAnswer
<1>10. CASE StoreAnswer(d)
  BY <1>10, Zenon DEF StoreAnswer
<1>11. CASE NormalizeFails(d)
  BY <1>11, Zenon DEF NormalizeFails
<1>12. CASE CancelledInAnswer(d)
  BY <1>12, Zenon DEF CancelledInAnswer
<1>13. CASE Complete(d)
  BY <1>13, Zenon DEF Complete
<1> QED
  BY <1>1, <1>2, <1>3, <1>4, <1>5, <1>6, <1>7, <1>8, <1>9, <1>10, <1>11, <1>12, <1>13, Zenon DEF StoreSteps

(* Local steps change neither. *)
LEMMA LocalStepsAre ==
    ASSUME NEW d \in Dispatchers, LocalSteps(d)
    PROVE  /\ UNCHANGED <<storeVars, costVars>>
           /\ \/ Return(d)
              \/ proc[d].pc \notin Unclaimed /\ \E pc \in PCs : Goto(d, pc)
<1> USE DEF At, Unclaimed, PCs
<1>1. CASE ValidatePasses(d)
  BY <1>1, Zenon DEF ValidatePasses
<1>2. CASE RereadFails(d)
  BY <1>2, Zenon DEF RereadFails
<1>3. CASE CallProvider(d)
  BY <1>3, Zenon DEF CallProvider
<1>4. CASE NormalizePasses(d)
  BY <1>4, Zenon DEF NormalizePasses
<1>5. CASE Crash(d)
  BY <1>5, Zenon DEF Crash
<1> QED
  BY <1>1, <1>2, <1>3, <1>4, <1>5, Zenon DEF LocalSteps

(* Cost steps are steps of the ledger, of the budget tree or of neither, and  *)
(* leave the invocation store alone.                                          *)
LEMMA CostStepsAre ==
    ASSUME BaseInv, NEW d \in Dispatchers, CostSteps(d)
    PROVE  /\ [LedgerNext]_ledgerVars /\ [BudgetNext]_budgetVars
           /\ UNCHANGED <<storeVars, worldVars>>
           /\ proc[d].pc \notin Unclaimed
           /\ Return(d) \/ \E pc \in PCs : Goto(d, pc)
<1>0. /\ proc[d].i \in Calls /\ Estimate \in Amounts /\ 0 \in Amounts
      /\ \A a \in Costs : a \in Amounts
      /\ entry[proc[d].i].cost \in Amounts
  BY DispatchAssumption, LedgerAssumption DEF BaseInv, ProcOK, Proc, LedgerInv, LedgerTypeOK, Entry, Amounts
<1>a. "ok" \in Results /\ "refused" \in Results
  BY Zenon DEF Results
<1>1. CASE ReserveWallet(d)
  <2>1. /\ UNCHANGED ledgerVars \/ \E res \in Results : LedgerReserve(proc[d].i, Estimate, res)
        /\ UNCHANGED <<storeVars, budgetVars, worldVars>>
        /\ proc[d].pc = "validated"
        /\ Goto(d, "reserved") \/ Goto(d, "consume") \/ Goto(d, "fail_unreserved")
    BY <1>1, <1>a, Zenon DEF ReserveWallet, At
  <2> QED
    BY <1>0, <2>1, Zenon DEF LedgerNext, Unclaimed, PCs
<1>2. CASE ConsumeBudget(d)
  <2>1. /\ \/ UNCHANGED budgetVars
           \/ \E est \in {0, Estimate}, res \in Results : ConsumeModelCall(proc[d].i, est, res)
        /\ UNCHANGED <<storeVars, ledgerVars, worldVars>>
        /\ proc[d].pc = "consume"
        /\ Goto(d, "reserved") \/ Goto(d, "unreserve") \/ Goto(d, "fail_unreserved")
    BY <1>2, <1>a, Zenon DEF ConsumeBudget, At
  <2> QED
    BY <1>0, <2>1, Zenon DEF BudgetNext, Unclaimed, PCs
<1>3. CASE Unreserve(d) \/ DeferredRelease(d)
  <2>1. /\ UNCHANGED costVars \/ (UNCHANGED budgetVars /\ \E res \in Results : LedgerRelease(proc[d].i, res))
        /\ UNCHANGED <<storeVars, worldVars>>
        /\ proc[d].pc \in {"unreserve", "release"}
        /\ Goto(d, "fail_unreserved") \/ Return(d)
    BY <1>3, Zenon DEF Unreserve, DeferredRelease, ReleaseCall, CostCall, At
  <2> QED
    BY <1>0, <2>1, Zenon DEF LedgerNext, Unclaimed, PCs, costVars
<1>4. CASE Ambiguous(d)
  <2>1. /\ \/ UNCHANGED costVars
           \/ /\ UNCHANGED budgetVars
              /\ \/ \E res \in Results : MarkPendingReconciliation(proc[d].i, res)
                 \/ RecordSubscriptionConsumption(proc[d].i)
        /\ UNCHANGED <<storeVars, worldVars>>
        /\ proc[d].pc = "ambiguous" /\ Goto(d, "mark_ambiguous")
    BY <1>4, Zenon DEF Ambiguous, CostCall, At
  <2> QED
    BY <1>0, <2>1, Zenon DEF LedgerNext, Unclaimed, PCs, costVars
<1>5. CASE Commit(d) \/ Settle(d)
  <2>1. /\ \/ UNCHANGED costVars
           \/ /\ UNCHANGED budgetVars
              /\ \/ UNCHANGED ledgerVars
                 \/ \E a \in Costs, res \in Results : LedgerReconcile(proc[d].i, a, res)
                 \/ \E res \in Results : MarkPendingReconciliation(proc[d].i, res)
                 \/ RecordSubscriptionConsumption(proc[d].i)
        /\ UNCHANGED <<storeVars, worldVars>>
        /\ proc[d].pc \in {"commit", "settle"}
        /\ \/ Goto(d, "true_up") \/ Goto(d, "complete") \/ Goto(d, "true_up_end") \/ Return(d)
    BY <1>5, <1>a, Zenon DEF Commit, Settle, ReconcileCall, CostCall, At
  <2> QED
    BY <1>0, <2>1, Zenon DEF LedgerNext, Unclaimed, PCs, costVars
<1>6. CASE TrueUp(d) \/ TrueUpEnd(d)
  <2>1. /\ \/ UNCHANGED costVars
           \/ /\ UNCHANGED ledgerVars
              /\ \E res \in Results : SettleModelCall(proc[d].i, entry[proc[d].i].cost, res)
        /\ UNCHANGED <<storeVars, worldVars>>
        /\ proc[d].pc \in {"true_up", "true_up_end"}
        /\ Goto(d, "complete") \/ Return(d)
    BY <1>6, Zenon DEF TrueUp, TrueUpEnd, SettleBudget, CostCall, At
  <2> QED
    BY <1>0, <2>1, Zenon DEF BudgetNext, Unclaimed, PCs, costVars
<1> QED
  BY <1>1, <1>2, <1>3, <1>4, <1>5, <1>6, Zenon DEF CostSteps

(* Issuing a challenge and claiming are steps of the store, and a claim gives *)
(* the process its attempt.                                                   *)
LEMMA ClaimStepsAre ==
    ASSUME BaseInv, NEW d \in Dispatchers,
           ClaimTurn(d) \/ \E i \in Serves[d] : IssueChallenge(d, i)
    PROVE  /\ [InvocationNext]_storeVars
           /\ UNCHANGED <<costVars, worldVars>>
           /\ ProcOK'
<1>0. d \in Challengers /\ KeyOf[d] \in Keys /\ Serves[d] \subseteq Invocations
      /\ proc[d].i \in Invocations /\ ProcOK /\ proc[d] \in Proc
  BY DispatchAssumption, Zenon DEF BaseInv, ProcOK, Proc
<1>1. ASSUME NEW i \in Serves[d], IssueChallenge(d, i)
      PROVE  /\ InvocationNext /\ UNCHANGED <<costVars, worldVars>> /\ ProcOK'
  <2>1. InvocationNext /\ UNCHANGED <<costVars, worldVars>>
    BY <1>0, <1>1, Zenon DEF IssueChallenge, InvocationNext
  <2>2. [pc |-> "challenged", i |-> i, n |-> 0] \in Proc
    BY <1>0, InvocationAssumption, SMTT(30) DEF Proc, PCs
  <2>3. ProcOK'
    BY <1>0, <1>1, <2>2, Zenon DEF IssueChallenge, ProcOK, Unclaimed
  <2> QED
    BY <2>1, <2>3, Zenon
<1>2. CASE ClaimTurn(d) /\ Return(d) /\ UNCHANGED storeVars
  BY <1>0, <1>2, ProcMoves, Zenon DEF ClaimTurn
<1>3. CASE ClaimTurn(d) /\ ClaimInvocationAuthenticated(proc[d].i, d, KeyOf[d])
           /\ proc' = [proc EXCEPT ![d].pc = "claimed", ![d].n = inv[proc[d].i].n + 1]
  <2> DEFINE m == inv[proc[d].i].n + 1
             r == [proc[d] EXCEPT !.pc = "claimed", !.n = m]
  <2>1. m \in Ordinals
    <3>1. inv[proc[d].i].n \in Nat
      BY <1>0, InvocationAssumption, SMTT(30) DEF BaseInv, StoreInv, InvocationTypeOK
    <3>2. inv[proc[d].i].n < MaxAttempts
      BY <1>3, Zenon DEF ClaimInvocationAuthenticated
    <3> QED
      BY <3>1, <3>2, InvocationAssumption, SMTT(30) DEF Ordinals
  <2>2. m \in 0..MaxAttempts /\ "claimed" \in PCs
    BY <2>1, InvocationAssumption DEF Ordinals, PCs
  <2> HIDE DEF m
  <2>3. r \in Proc /\ r.n = m
    BY <1>0, <2>2, Zenon DEF Proc
  <2>4. proc' = [proc EXCEPT ![d] = r]
    BY <1>0, <1>3, Zenon DEF ProcOK, m
  <2> HIDE DEF r
  <2>5. ProcOK'
    BY <1>0, <2>1, <2>3, <2>4, Zenon DEF ProcOK
  <2>6. InvocationNext /\ UNCHANGED <<costVars, worldVars>>
    BY <1>0, <1>3, Zenon DEF InvocationNext, ClaimTurn
  <2> QED
    BY <2>5, <2>6, Zenon
<1> QED
  BY <1>1, <1>2, <1>3, Zenon DEF ClaimTurn
(* Everything else that happens is a step of one of the three components, *)
(* and touches no process and not the provider.                           *)
LEMMA WorldStepsAre ==
    ASSUME \/ \E i \in Invocations : Request(i) \/ Expire(i) \/ ReconcileAttempt(i)
           \/ SetUp \/ Intervene
    PROVE  /\ [InvocationNext]_storeVars /\ [LedgerNext]_ledgerVars /\ [BudgetNext]_budgetVars
           /\ UNCHANGED <<proc, calls, answered>>
<1>1. ASSUME NEW i \in Invocations, Request(i) \/ Expire(i) \/ ReconcileAttempt(i)
      PROVE  /\ InvocationNext /\ UNCHANGED costVars
             /\ UNCHANGED <<proc, calls, answered>>
  BY <1>1, Zenon DEF Request, Expire, ReconcileAttempt, InvocationNext, worldVars
<1>2. CASE SetUp
  <2>0. UNCHANGED <<proc, calls, answered>>
    BY <1>2, Zenon DEF SetUp, worldVars
  <2>1. CASE \E b \in Opening : ProvisionWalletIfAbsent(b) /\ UNCHANGED <<storeVars, budgetVars>>
    BY <2>0, <2>1, DispatchAssumption, Zenon DEF LedgerNext
  <2>2. CASE BudgetAdmin /\ UNCHANGED <<storeVars, ledgerVars>>
    BY <2>0, <2>2, Zenon DEF BudgetNext
  <2>3. CASE AuthoritySetUp /\ UNCHANGED <<invocationVars, costVars>>
    BY <2>0, <2>3, Zenon DEF InvocationNext, costVars
  <2> QED
    BY <1>2, <2>1, <2>2, <2>3, Zenon DEF SetUp, worldVars
<1>3. CASE Intervene
  <2>0. UNCHANGED <<proc, calls, answered>>
    BY <1>3, Zenon DEF Intervene
  <2>1. CASE \E b \in Balances : SetBalance(b) /\ UNCHANGED <<storeVars, budgetVars>>
    BY <2>0, <2>1, DispatchAssumption, Zenon DEF LedgerNext
  <2>2. CASE AuthorityChange /\ UNCHANGED <<invocationVars, costVars>>
    BY <2>0, <2>2, Zenon DEF InvocationNext, costVars
  <2>3. CASE (\E i \in Invocations : RequestCancellation(i)) /\ UNCHANGED costVars
    BY <2>0, <2>3, Zenon DEF InvocationNext, costVars
  <2>4. \/ \E b \in Balances : SetBalance(b) /\ UNCHANGED <<storeVars, budgetVars>>
        \/ AuthorityChange /\ UNCHANGED <<invocationVars, costVars>>
        \/ (\E i \in Invocations : RequestCancellation(i)) /\ UNCHANGED costVars
    BY <1>3, Zenon DEF Intervene
  <2> QED
    BY <2>0, <2>1, <2>2, <2>3, <2>4, Zenon
<1> QED
  BY <1>1, <1>2, <1>3, Zenon DEF costVars

(* The steps of a dispatcher, by what they call. *)
LEMMA StepsByKind ==
    ASSUME NEW d \in Dispatchers, Step(d)
    PROVE  \/ ClaimTurn(d) \/ \E i \in Serves[d] : IssueChallenge(d, i)
           \/ StoreSteps(d) \/ LocalSteps(d) \/ CostSteps(d)
BY Zenon DEF Step, StoreSteps, LocalSteps, CostSteps

(* One step of the composition is at most one step of each component, and   *)
(* keeps the processes typed.                                               *)
LEMMA Simulation ==
    ASSUME BaseInv, [Next]_vars
    PROVE  /\ [InvocationNext]_storeVars /\ [LedgerNext]_ledgerVars /\ [BudgetNext]_budgetVars
           /\ ProcOK'
<1>0. ProcOK
  BY Zenon DEF BaseInv
<1>1. ASSUME NEW d \in Dispatchers, StoreSteps(d)
      PROVE  /\ [InvocationNext]_storeVars /\ UNCHANGED costVars /\ ProcOK'
  <2>1. /\ AttemptStep(proc[d].i, proc[d].n, KeyOf[d]) \/ UNCHANGED storeVars
        /\ UNCHANGED costVars /\ proc[d].pc \notin Unclaimed
        /\ Return(d) \/ \E pc \in PCs : Goto(d, pc)
    BY <1>1, StoreStepsAre, Zenon
  <2>2. proc[d].i \in Invocations /\ proc[d].n \in Ordinals /\ KeyOf[d] \in Keys
    BY <1>0, <2>1, DispatchAssumption, Zenon DEF ProcOK, Proc
  <2>3. [InvocationNext]_storeVars
    BY <2>1, <2>2, Zenon DEF InvocationNext
  <2> QED
    BY <1>0, <2>1, <2>3, ProcMoves, Zenon
<1>2. ASSUME NEW d \in Dispatchers, LocalSteps(d)
      PROVE  UNCHANGED <<storeVars, costVars>> /\ ProcOK'
  BY <1>0, <1>2, LocalStepsAre, ProcMoves, Zenon
<1>3. ASSUME NEW d \in Dispatchers, CostSteps(d)
      PROVE  /\ [LedgerNext]_ledgerVars /\ [BudgetNext]_budgetVars
             /\ UNCHANGED storeVars /\ ProcOK'
  BY <1>0, <1>3, CostStepsAre, ProcMoves, Zenon
<1>4. ASSUME NEW d \in Dispatchers, ClaimTurn(d) \/ \E i \in Serves[d] : IssueChallenge(d, i)
      PROVE  [InvocationNext]_storeVars /\ UNCHANGED costVars /\ ProcOK'
  BY <1>4, ClaimStepsAre, Zenon
<1>5. CASE \E d \in Dispatchers : Step(d)
  BY <1>1, <1>2, <1>3, <1>4, <1>5, StepsByKind, Zenon DEF costVars
<1>6. CASE \/ \E i \in Invocations : Request(i) \/ Expire(i) \/ ReconcileAttempt(i)
           \/ SetUp \/ Intervene
  BY <1>0, <1>6, WorldStepsAre, Zenon DEF ProcOK
<1>7. CASE UNCHANGED vars
  BY <1>0, <1>7, Zenon DEF vars, costVars, ProcOK
<1> QED
  BY <1>5, <1>6, <1>7, Zenon DEF Next

(* The typing and the components' own invariants hold initially and are kept. *)
LEMMA BaseInit == Init => BaseInv
<1> SUFFICES ASSUME Init PROVE BaseInv
  BY Zenon
<1>1. Idle \in Proc /\ Idle.pc = "idle"
  BY InvocationAssumption, DispatchAssumption DEF Idle, Proc, PCs
<1>2. ProcOK
  BY <1>1, Zenon DEF Init, ProcOK, Unclaimed
<1> QED
  BY <1>2, StoreInitInv, LedgerInitInv, Zenon DEF Init, BaseInv

(* Every step of the system keeps the invariant the simulation rests on.    *)
LEMMA BaseStep == BaseInv /\ [Next]_vars => BaseInv'
<1> SUFFICES ASSUME BaseInv, [Next]_vars PROVE BaseInv'
  BY Zenon
<1>1. /\ [InvocationNext]_storeVars /\ [LedgerNext]_ledgerVars /\ ProcOK'
  BY Simulation, Zenon
<1> QED
  BY <1>1, StoreStep, LedgerStep, Zenon DEF BaseInv

(* Dispatchers, operators and the reconciler, with every crash, retry and lost *)
(* acknowledgement, only ever do to the invocation store what its              *)
(* specification allows.                                                       *)
THEOREM DispatchImplementsStore == Spec => InvocationSpec
<1>1. Init => AuthorityInit /\ InvocationInit
  BY Zenon DEF Init
<1>2. BaseInv /\ [Next]_vars => [InvocationNext]_storeVars
  BY Simulation, Zenon
<1> QED
  BY <1>1, <1>2, BaseInit, BaseStep, PTL DEF Spec, InvocationSpec

(* The same of the wallet ledger: the cost gate, with its deferred releases, *)
(* is a behaviour of the ledger specification.                               *)
THEOREM DispatchImplementsLedger == Spec => LedgerSpec
<1>1. Init => LedgerInit
  BY Zenon DEF Init
<1>2. BaseInv /\ [Next]_vars => [LedgerNext]_ledgerVars
  BY Simulation, Zenon
<1> QED
  BY <1>1, <1>2, BaseInit, BaseStep, PTL DEF Spec, LedgerSpec

(* The same of the budget tree. *)
THEOREM DispatchImplementsBudget == Spec => BudgetSpec
<1>1. Init => BudgetInit
  BY Zenon DEF Init
<1>2. BaseInv /\ [Next]_vars => [BudgetNext]_budgetVars
  BY Simulation, Zenon
<1> QED
  BY <1>1, <1>2, BaseInit, BaseStep, PTL DEF Spec, BudgetSpec

(* So what the components guarantee holds of the composition: attempts mirror *)
(* their invocation, the wallet holds what is open, and every budget accounts *)
(* for its calls.                                                             *)
THEOREM DispatchKeepsTheBooks ==
    Spec => [](AttemptMirrorsInvocation /\ ReservedIsOpen /\ BudgetAccounted)
BY DispatchImplementsStore, DispatchImplementsLedger, DispatchImplementsBudget,
   AttemptsMirror, WalletAccountsForReservations, BudgetsAccountForCalls, PTL
=============================================================================
