----------------------------- MODULE CostProofs -----------------------------
(***************************************************************************)
(* Proofs about the money.  First the wallet ledger: for any set of calls, *)
(* any amounts and any ceiling, the wallet accounts for every open         *)
(* reservation, a terminal row is final, and a program stays within its    *)
(* ceiling.  Then the budget tree: for any tasks, limits and calls, the    *)
(* usage of every row is what its calls were charged and its children were *)
(* given.                                                                  *)
(***************************************************************************)
EXTENDS AgentBudget, TLAPS

(* Open and admitted amounts are amounts. *)
LEMMA AmountsTyped ==
    ASSUME LedgerTypeOK
    PROVE  /\ OpenAmounts \in [Calls -> Amounts]
           /\ [c \in Calls |-> Admitted(c)] \in [Calls -> Amounts]
           /\ [c \in Calls |-> Spend(c)] \in [Calls -> Amounts]
           /\ \A c \in Calls : Admitted(c) <= Spend(c)
BY LedgerAssumption DEF LedgerTypeOK, OpenAmounts, Open, Admitted, Spend, Entry, Amounts

(* Changing the rows of one call changes both totals by that call alone. *)
LEMMA OneCallUpdate ==
    ASSUME LedgerTypeOK, LedgerTypeOK', NEW c \in Calls,
           \A d \in Calls \ {c} : entry'[d] = entry[d]
    PROVE  /\ Total(OpenAmounts') = Total(OpenAmounts) - Open(c) + Open(c)'
           /\ Total([d \in Calls |-> Admitted(d)'])
                = Total([d \in Calls |-> Admitted(d)]) - Admitted(c) + Admitted(c)'
<1> DEFINE A == [d \in Calls |-> Admitted(d)]
<1>1. OpenAmounts \in [Calls -> Amounts] /\ A \in [Calls -> Amounts]
  BY AmountsTyped, Zenon
<1>2. Open(c)' \in Amounts /\ Admitted(c)' \in Amounts
  BY LedgerAssumption DEF LedgerTypeOK, Open, Admitted, Entry, Amounts
<1>3. \A d \in Calls \ {c} : Open(d)' = Open(d) /\ Admitted(d)' = Admitted(d)
  BY Zenon DEF Open, Admitted
<1>4. OpenAmounts' = [OpenAmounts EXCEPT ![c] = Open(c)']
  BY <1>3, Zenon DEF OpenAmounts
<1>5. [d \in Calls |-> Admitted(d)'] = [A EXCEPT ![c] = Admitted(c)']
  BY <1>3, Zenon
<1>6. OpenAmounts[c] = Open(c) /\ A[c] = Admitted(c)
  BY Zenon DEF OpenAmounts
<1>7. Total([OpenAmounts EXCEPT ![c] = Open(c)']) = Total(OpenAmounts) - OpenAmounts[c] + Open(c)'
  BY <1>1, <1>2, TotalAssumption, Zenon
<1> HIDE DEF A
<1>8. Total([A EXCEPT ![c] = Admitted(c)']) = Total(A) - A[c] + Admitted(c)'
  BY <1>1, <1>2, TotalAssumption, Zenon
<1> QED
  BY <1>4, <1>5, <1>6, <1>7, <1>8, Zenon DEF A

(* What every open reservation is covered by: removing it leaves a total. *)
LEMMA OpenIsCovered ==
    ASSUME LedgerTypeOK, NEW c \in Calls
    PROVE  Total(OpenAmounts) \in Nat /\ Total(OpenAmounts) - Open(c) \in Nat
<1>1. OpenAmounts \in [Calls -> Amounts]
  BY AmountsTyped, Zenon
<1>2. 0 \in Amounts
  BY LedgerAssumption DEF Amounts
<1>3. [OpenAmounts EXCEPT ![c] = 0] \in [Calls -> Amounts]
  BY <1>1, <1>2, Zenon
<1>4. Total([OpenAmounts EXCEPT ![c] = 0]) \in Nat
  BY <1>3, TotalAssumption, Zenon
<1>5. Total([OpenAmounts EXCEPT ![c] = 0]) = Total(OpenAmounts) - OpenAmounts[c] + 0
  BY <1>1, <1>2, TotalAssumption, Zenon
<1>6. Total(OpenAmounts) \in Nat
  BY <1>1, TotalAssumption, Zenon
<1>7. OpenAmounts[c] = Open(c) /\ Open(c) \in Nat
  BY LedgerAssumption DEF OpenAmounts, Open, LedgerTypeOK, Entry, Amounts
<1> QED
  BY <1>4, <1>5, <1>6, <1>7

(* Inductive strengthening: the accounting equation and the ceiling, with    *)
(* the typing they carry, no reservation before the wallet exists, and none  *)
(* for a flat-rate call.                                                     *)
LedgerInv ==
    /\ LedgerTypeOK
    /\ ReservedIsOpen
    /\ ProgramCeilingHeld
    /\ ~wallet.provisioned => \A c \in Calls : ~HasReservation(c)
    /\ ~wallet.provisioned => wallet.reserved = 0
    /\ \A c \in SubscriptionCalls : ~HasReservation(c)

(* The empty ledger satisfies the invariant. *)
LEMMA LedgerInitInv == LedgerInit => LedgerInv
<1> SUFFICES ASSUME LedgerInit PROVE LedgerInv
  BY Zenon
<1>1. LedgerTypeOK
  BY LedgerAssumption DEF LedgerInit, LedgerTypeOK, Wallet, Entry, NoEntry, Amounts
<1>2. OpenAmounts = [c \in Calls |-> 0] /\ [c \in Calls |-> Admitted(c)] = [c \in Calls |-> 0]
  BY Zenon DEF LedgerInit, NoEntry, OpenAmounts, Open, Admitted
<1>3. ReservedIsOpen
  BY <1>2, TotalAssumption DEF ReservedIsOpen, LedgerInit
<1>4. ProgramCeilingHeld
  BY <1>2, TotalAssumption, LedgerAssumption DEF ProgramCeilingHeld
<1> QED
  BY <1>1, <1>3, <1>4, LedgerAssumption, Zenon DEF LedgerInv, LedgerInit, HasReservation, NoEntry

(* A step that leaves wallet and rows alone keeps the invariant. *)
LEMMA LedgerStutter ==
    ASSUME LedgerInv, UNCHANGED ledgerVars
    PROVE  LedgerInv'
BY Zenon DEF LedgerInv, ledgerVars, LedgerTypeOK, ReservedIsOpen, OpenAmounts, Open,
       ProgramCeilingHeld, Admitted, HasReservation

(* Setting the balance, the operator's top-up, keeps it. *)
LEMMA BalanceInv ==
    ASSUME LedgerInv, NEW b \in Amounts, ProvisionWalletIfAbsent(b) \/ SetBalance(b)
    PROVE  LedgerInv'
<1>1. entry' = entry /\ wallet'.provisioned /\ wallet'.reserved = wallet.reserved
      /\ wallet'.balance = b /\ wallet.reserved <= b /\ wallet' \in Wallet
  <2>1. wallet \in Wallet /\ b \in Nat /\ (~wallet.provisioned => wallet.reserved = 0)
    BY LedgerAssumption DEF LedgerInv, LedgerTypeOK, Amounts
  <2>2. CASE ProvisionWalletIfAbsent(b)
    BY <2>1, <2>2 DEF ProvisionWalletIfAbsent, Wallet
  <2>3. CASE SetBalance(b)
    <3>1. wallet' = [wallet EXCEPT !.provisioned = TRUE, !.balance = b] /\ entry' = entry
      BY <2>3, Zenon DEF SetBalance
    <3>2. wallet.reserved <= b
      BY <2>1, <2>3 DEF SetBalance, Wallet
    <3> QED
      BY <2>1, <3>1, <3>2, Zenon DEF Wallet
  <2> QED
    BY <2>2, <2>3, Zenon
<1>2. OpenAmounts' = OpenAmounts /\ ProgramCeilingHeld'
  BY <1>1, Zenon DEF LedgerInv, OpenAmounts, Open, ProgramCeilingHeld, Admitted
<1> QED
  BY <1>1, <1>2, Zenon DEF LedgerInv, LedgerTypeOK, ReservedIsOpen, HasReservation

(* A reservation, fresh or repeated, keeps it. *)
LEMMA ReserveInv ==
    ASSUME LedgerInv, NEW c \in Calls, NEW est \in Amounts, NEW res,
           LedgerReserve(c, est, res)
    PROVE  LedgerInv'
<1>1. CASE UNCHANGED ledgerVars
  BY <1>1, LedgerStutter, Zenon
<1>2. CASE /\ wallet.provisioned /\ ~HasReservation(c)
           /\ c \in InProgram => FamilySpend + est <= Ceiling
           /\ wallet.balance - wallet.reserved >= est
           /\ wallet' = [wallet EXCEPT !.reserved = @ + est]
           /\ entry' = [entry EXCEPT ![c].kind = "reserved", ![c].amount = est]
  <2>0. LedgerTypeOK /\ wallet \in Wallet /\ est \in Nat
    BY LedgerAssumption DEF LedgerInv, LedgerTypeOK, Amounts
  <2>1. LedgerTypeOK'
    <3>1. wallet' \in Wallet
      BY <1>2, <2>0 DEF Wallet
    <3>2. entry' = [entry EXCEPT ![c] = [entry[c] EXCEPT !.kind = "reserved", !.amount = est]]
      BY <1>2, <2>0, Zenon DEF LedgerTypeOK, Entry
    <3>3. [entry[c] EXCEPT !.kind = "reserved", !.amount = est] \in Entry
      BY <2>0, Zenon DEF LedgerTypeOK, Entry
    <3> QED
      BY <2>0, <3>1, <3>2, <3>3, Zenon DEF LedgerTypeOK
  <2>2. /\ \A d \in Calls \ {c} : entry'[d] = entry[d]
        /\ entry'[c].kind = "reserved" /\ entry'[c].amount = est
    BY <1>2, <2>0, Zenon DEF LedgerTypeOK, Entry
  <2>3. Open(c) = 0 /\ Open(c)' = est
    BY <1>2, <2>2, Zenon DEF Open, HasReservation
  <2>4. Admitted(c) = 0 /\ Admitted(c)' = IF c \in InProgram THEN est ELSE 0
    BY <1>2, <2>2, <2>3, Zenon DEF Admitted, HasReservation
  <2>5. wallet.reserved \in Nat /\ wallet.balance \in Nat /\ wallet'.provisioned
        /\ wallet'.reserved = wallet.reserved + est /\ wallet'.balance = wallet.balance
    BY <1>2, <2>0, Zenon DEF Wallet
  <2>6. ReservedIsOpen'
    <3>1. Total(OpenAmounts') = Total(OpenAmounts) - 0 + est
      BY <2>0, <2>1, <2>2, <2>3, OneCallUpdate, Zenon
    <3>2. Total(OpenAmounts) = wallet.reserved
      BY Zenon DEF LedgerInv, ReservedIsOpen
    <3> QED
      BY <1>2, <2>0, <2>5, <3>1, <3>2 DEF ReservedIsOpen
  <2>7. ProgramCeilingHeld'
    <3> DEFINE A == [d \in Calls |-> Admitted(d)]
               S == [d \in Calls |-> Spend(d)]
    <3>1. A \in [Calls -> Amounts] /\ S \in [Calls -> Amounts] /\ \A d \in Calls : A[d] <= S[d]
      BY <2>0, AmountsTyped, Zenon
    <3>2. Total([d \in Calls |-> Admitted(d)']) = Total(A) - 0 + (IF c \in InProgram THEN est ELSE 0)
      BY <2>0, <2>1, <2>2, <2>4, OneCallUpdate, Zenon
    <3>3. FamilySpend = Total(S)
      BY Zenon DEF FamilySpend
    <3>4. Total(A) <= Ceiling
      BY Zenon DEF LedgerInv, ProgramCeilingHeld
    <3>5. ProgramCeilingHeld' <=> Total([d \in Calls |-> Admitted(d)']) <= Ceiling
      BY Zenon DEF ProgramCeilingHeld
    <3> HIDE DEF A, S
    <3>6. Total(A) \in Nat /\ Total(S) \in Nat /\ Total(A) <= Total(S)
      BY <3>1, TotalAssumption, Zenon
    <3> QED
      BY <1>2, <2>0, <3>2, <3>3, <3>4, <3>5, <3>6, LedgerAssumption
  <2>8. \A d \in SubscriptionCalls : ~HasReservation(d)'
    BY <2>2, LedgerAssumption, Zenon DEF LedgerInv, HasReservation, LedgerReserve, WithinProgramCeiling
  <2> QED
    BY <2>1, <2>5, <2>6, <2>7, <2>8, Zenon DEF LedgerInv
<1> QED
  BY <1>1, <1>2, Zenon DEF LedgerReserve, WithinProgramCeiling

(* Closing a reservation, by debiting its cost or by releasing it, keeps the *)
(* accounting equation: the reserved amount leaves both sides.               *)
LEMMA CloseInv ==
    ASSUME LedgerInv, NEW c \in Calls, NEW actual \in Amounts,
           entry[c].kind = "reserved",
           NEW kind \in {"committed", "released"},
           entry' = [entry EXCEPT ![c] = [entry[c] EXCEPT !.kind = kind, !.cost = actual]],
           wallet' \in Wallet, wallet'.provisioned,
           wallet'.reserved = wallet.reserved - entry[c].amount,
           wallet'.reserved <= wallet'.balance
    PROVE  LedgerInv'
<1>1. LedgerTypeOK /\ entry[c] \in Entry /\ wallet \in Wallet
  BY Zenon DEF LedgerInv, LedgerTypeOK
<1>2. [entry[c] EXCEPT !.kind = kind, !.cost = actual] \in Entry
  BY <1>1, Zenon DEF Entry
<1>3. LedgerTypeOK'
  BY <1>1, <1>2, Zenon DEF LedgerTypeOK
<1>4. /\ \A d \in Calls \ {c} : entry'[d] = entry[d]
      /\ entry'[c].kind = kind /\ entry'[c].cost = actual /\ entry'[c].amount = entry[c].amount
  BY <1>1, Zenon DEF LedgerTypeOK, Entry
<1>5. Open(c) = entry[c].amount /\ Open(c)' = 0
  BY <1>4, Zenon DEF Open
<1>6. ReservedIsOpen'
  <2>1. Total(OpenAmounts') = Total(OpenAmounts) - Open(c) + 0
    BY <1>1, <1>3, <1>4, <1>5, OneCallUpdate, Zenon
  <2>2. Total(OpenAmounts) = wallet.reserved /\ wallet.reserved \in Nat /\ entry[c].amount \in Nat
    BY <1>1, LedgerAssumption DEF LedgerInv, ReservedIsOpen, Wallet, Entry, Amounts
  <2> QED
    BY <1>5, <2>1, <2>2 DEF ReservedIsOpen
<1>7. ProgramCeilingHeld'
  <2>1. Total([d \in Calls |-> Admitted(d)'])
          = Total([d \in Calls |-> Admitted(d)]) - Admitted(c) + Admitted(c)'
    BY <1>1, <1>3, <1>4, OneCallUpdate, Zenon
  <2>2. Admitted(c)' <= Admitted(c) /\ Admitted(c)' \in Nat /\ Admitted(c) \in Nat
    BY <1>1, <1>4, LedgerAssumption DEF Admitted, Open, Entry, Amounts
  <2>3. Total([d \in Calls |-> Admitted(d)]) <= Ceiling
    BY Zenon DEF LedgerInv, ProgramCeilingHeld
  <2>4. Total([d \in Calls |-> Admitted(d)]) \in Nat
    BY <1>1, AmountsTyped, TotalAssumption, Zenon
  <2>5. ProgramCeilingHeld' <=> Total([d \in Calls |-> Admitted(d)']) <= Ceiling
    BY Zenon DEF ProgramCeilingHeld
  <2> QED
    BY <2>1, <2>2, <2>3, <2>4, <2>5, LedgerAssumption
<1>8. \A d \in SubscriptionCalls : ~HasReservation(d)'
  BY <1>4, LedgerAssumption, Zenon DEF LedgerInv, HasReservation
<1> QED
  BY <1>3, <1>6, <1>7, <1>8, Zenon DEF LedgerInv

(* Settling a reservation at its actual cost keeps the invariant. *)
LEMMA ReconcileInv ==
    ASSUME LedgerInv, NEW c \in Calls, NEW actual \in Amounts, NEW res,
           LedgerReconcile(c, actual, res)
    PROVE  LedgerInv'
<1>1. CASE UNCHANGED ledgerVars
  BY <1>1, LedgerStutter, Zenon
<1>2. CASE /\ entry[c].kind = "reserved" /\ SettlementFits(c, actual)
           /\ wallet' = [wallet EXCEPT !.balance = @ - actual, !.reserved = @ - entry[c].amount]
           /\ entry' = [entry EXCEPT ![c].kind = "committed", ![c].cost = actual]
  <2>1. LedgerTypeOK /\ entry[c] \in Entry /\ wallet \in Wallet /\ actual \in Nat
    BY LedgerAssumption DEF LedgerInv, LedgerTypeOK, Amounts
  <2>2. entry' = [entry EXCEPT ![c] = [entry[c] EXCEPT !.kind = "committed", !.cost = actual]]
    BY <1>2, <2>1, Zenon DEF LedgerTypeOK, Entry
  <2>3. wallet.reserved - entry[c].amount \in Nat
    BY <1>2, <2>1, OpenIsCovered, Zenon DEF LedgerInv, ReservedIsOpen, Open
  <2>4. wallet.provisioned
    BY <1>2, Zenon DEF LedgerInv, HasReservation
  <2>5. wallet.balance \in Nat /\ wallet.reserved - entry[c].amount <= wallet.balance - actual
    BY <1>2, <2>1, Zenon DEF SettlementFits, Wallet
  <2>6. wallet.balance - actual \in Nat
    BY <2>1, <2>3, <2>5
  <2>7. wallet' \in Wallet /\ wallet'.provisioned /\ wallet'.reserved = wallet.reserved - entry[c].amount
        /\ wallet'.balance = wallet.balance - actual
    BY <1>2, <2>1, <2>3, <2>4, <2>6, Zenon DEF Wallet
  <2> QED
    BY <1>2, <2>2, <2>5, <2>7, CloseInv, Zenon
<1> QED
  BY <1>1, <1>2, Zenon DEF LedgerReconcile

(* Releasing a reservation keeps the invariant. *)
LEMMA ReleaseInv ==
    ASSUME LedgerInv, NEW c \in Calls, NEW res, LedgerRelease(c, res)
    PROVE  LedgerInv'
<1>1. CASE UNCHANGED ledgerVars
  BY <1>1, LedgerStutter, Zenon
<1>2. CASE /\ entry[c].kind = "reserved"
           /\ wallet' = [wallet EXCEPT !.reserved = @ - entry[c].amount]
           /\ entry' = [entry EXCEPT ![c].kind = "released"]
  <2>1. LedgerTypeOK /\ entry[c] \in Entry /\ wallet \in Wallet
    BY Zenon DEF LedgerInv, LedgerTypeOK
  <2>2. entry' = [entry EXCEPT ![c] = [entry[c] EXCEPT !.kind = "released", !.cost = entry[c].cost]]
    BY <1>2, <2>1, Zenon DEF LedgerTypeOK, Entry
  <2>3. wallet.reserved - entry[c].amount \in Nat
    BY <1>2, <2>1, OpenIsCovered, Zenon DEF LedgerInv, ReservedIsOpen, Open
  <2>4. wallet.provisioned /\ wallet.reserved <= wallet.balance
    BY <1>2, Zenon DEF LedgerInv, HasReservation, ReservedIsOpen
  <2>5. wallet' \in Wallet /\ wallet'.provisioned /\ wallet'.reserved = wallet.reserved - entry[c].amount
        /\ wallet'.balance = wallet.balance
    BY <1>2, <2>1, <2>3, <2>4, Zenon DEF Wallet
  <2>6. wallet'.reserved <= wallet'.balance /\ entry[c].cost \in Amounts
    BY <2>1, <2>3, <2>4, <2>5, LedgerAssumption DEF Wallet, Entry, Amounts
  <2> QED
    BY <1>2, <2>2, <2>5, <2>6, CloseInv, Zenon
<1> QED
  BY <1>1, <1>2, Zenon DEF LedgerRelease

(* Annotating a row, or recording a flat-rate call, moves no money. *)
LEMMA AnnotateInv ==
    ASSUME LedgerInv, NEW c \in Calls,
           \/ \E res \in Results : MarkPendingReconciliation(c, res)
           \/ RecordSubscriptionConsumption(c)
    PROVE  LedgerInv'
<1>1. CASE UNCHANGED ledgerVars
  BY <1>1, LedgerStutter, Zenon
<1>2. ASSUME NEW e \in Entry, entry' = [entry EXCEPT ![c] = e], wallet' = wallet,
             \/ e = [entry[c] EXCEPT !.pending = TRUE]
             \/ e = [entry[c] EXCEPT !.kind = "subscription"] /\ entry[c].kind \in {"none", "subscription"}
      PROVE  LedgerInv'
  <2>1. LedgerTypeOK /\ LedgerTypeOK' /\ entry[c] \in Entry
    BY <1>2, Zenon DEF LedgerInv, LedgerTypeOK
  <2>2. \A d \in Calls : Open(d)' = Open(d) /\ Admitted(d)' = Admitted(d) /\ HasReservation(d)' = HasReservation(d)
    BY <1>2, <2>1 DEF Open, Admitted, HasReservation, LedgerTypeOK, Entry
  <2>3. OpenAmounts' = OpenAmounts /\ ProgramCeilingHeld'
    BY <2>2, Zenon DEF OpenAmounts, ProgramCeilingHeld, LedgerInv
  <2> QED
    BY <1>2, <2>1, <2>2, <2>3, LedgerAssumption, Zenon DEF LedgerInv, ReservedIsOpen
<1>3. entry[c] \in Entry /\ LedgerTypeOK
  BY Zenon DEF LedgerInv, LedgerTypeOK
<1> DEFINE p == [entry[c] EXCEPT !.pending = TRUE]
           q == [entry[c] EXCEPT !.kind = "subscription"]
<1>4. p \in Entry /\ q \in Entry
  BY <1>3, Zenon DEF Entry
<1>5. [entry EXCEPT ![c].pending = TRUE] = [entry EXCEPT ![c] = p]
      /\ [entry EXCEPT ![c].kind = "subscription"] = [entry EXCEPT ![c] = q]
  BY <1>3, Zenon DEF LedgerTypeOK, Entry
<1>6. CASE \E res \in Results : MarkPendingReconciliation(c, res)
  BY <1>1, <1>2, <1>4, <1>5, <1>6, Zenon DEF MarkPendingReconciliation
<1>7. CASE RecordSubscriptionConsumption(c)
  <2>1. entry[c].kind \in {"none", "subscription"}
    BY <1>3, <1>7, Zenon DEF RecordSubscriptionConsumption, LedgerInv, HasReservation, Entry
  <2> QED
    BY <1>2, <1>4, <1>5, <1>7, <2>1, Zenon DEF RecordSubscriptionConsumption
<1> QED
  BY <1>6, <1>7, Zenon

(* Every step of the ledger keeps the invariant. *)
LEMMA LedgerStep == LedgerInv /\ [LedgerNext]_ledgerVars => LedgerInv'
<1> SUFFICES ASSUME LedgerInv, [LedgerNext]_ledgerVars PROVE LedgerInv'
  BY Zenon
<1>1. CASE UNCHANGED ledgerVars
  BY <1>1, LedgerStutter, Zenon
<1>2. CASE \E b \in Amounts : ProvisionWalletIfAbsent(b) \/ SetBalance(b)
  BY <1>2, BalanceInv, Zenon
<1>3. CASE \E c \in Calls, res \in Results, a \in Amounts : LedgerReserve(c, a, res)
  BY <1>3, ReserveInv, Zenon
<1>4. CASE \E c \in Calls, res \in Results, a \in Amounts : LedgerReconcile(c, a, res)
  BY <1>4, ReconcileInv, Zenon
<1>5. CASE \E c \in Calls, res \in Results : LedgerRelease(c, res)
  BY <1>5, ReleaseInv, Zenon
<1>6. CASE \E c \in Calls : \/ \E res \in Results : MarkPendingReconciliation(c, res)
                           \/ RecordSubscriptionConsumption(c)
  BY <1>6, AnnotateInv, Zenon
<1> QED
  BY <1>1, <1>2, <1>3, <1>4, <1>5, <1>6, Zenon DEF LedgerNext

(* For any calls, amounts and ceiling, the wallet's reserved column is the   *)
(* sum of the open reservations and the balance covers it                    *)
(* (costledger/postgres/store.go).                                           *)
THEOREM WalletAccountsForReservations == LedgerSpec => []ReservedIsOpen
<1>1. LedgerInv => ReservedIsOpen
  BY Zenon DEF LedgerInv
<1> QED
  BY <1>1, LedgerInitInv, LedgerStep, PTL DEF LedgerSpec

(* For any calls, amounts and ceiling, the admitted spend of a program's     *)
(* family stays within its ceiling (ReserveWithinProgramCeiling).            *)
THEOREM ProgramStaysWithinCeiling == LedgerSpec => []ProgramCeilingHeld
<1>1. LedgerInv => ProgramCeilingHeld
  BY Zenon DEF LedgerInv
<1> QED
  BY <1>1, LedgerInitInv, LedgerStep, PTL DEF LedgerSpec

(* A committed or released call keeps its terminal row and its amounts.      *)
THEOREM SettlementIsFinal == LedgerSpec => TerminalEntryIsFinal
<1> DEFINE Final == \A c \in Calls : entry[c].kind \in {"committed", "released"}
                      => /\ entry'[c].kind = entry[c].kind
                         /\ entry'[c].cost = entry[c].cost
                         /\ entry'[c].amount = entry[c].amount
<1>1. LedgerInv /\ [LedgerNext]_ledgerVars => [Final]_ledgerVars
  <2> SUFFICES ASSUME LedgerInv, LedgerNext PROVE Final
    BY Zenon DEF ledgerVars
  <2>0. entry \in [Calls -> Entry] /\ \A c \in SubscriptionCalls : entry[c].kind \notin {"committed", "released"}
    BY Zenon DEF LedgerInv, LedgerTypeOK, HasReservation
  <2>1. CASE \E b \in Amounts : ProvisionWalletIfAbsent(b) \/ SetBalance(b)
    BY <2>1, Zenon DEF ProvisionWalletIfAbsent, SetBalance
  <2>2. ASSUME NEW c \in Calls, NEW res \in Results, NEW a \in Amounts, LedgerReserve(c, a, res)
        PROVE  Final
    BY <2>0, <2>2, Zenon DEF LedgerReserve, WithinProgramCeiling, ledgerVars, HasReservation, Entry
  <2>3. ASSUME NEW c \in Calls, NEW res \in Results, NEW a \in Amounts, LedgerReconcile(c, a, res)
        PROVE  Final
    BY <2>0, <2>3, Zenon DEF LedgerReconcile, ledgerVars, Entry
  <2>4. ASSUME NEW c \in Calls, NEW res \in Results, LedgerRelease(c, res)
        PROVE  Final
    BY <2>0, <2>4, Zenon DEF LedgerRelease, ledgerVars, Entry
  <2>5. ASSUME NEW c \in Calls, NEW res \in Results, MarkPendingReconciliation(c, res)
        PROVE  Final
    BY <2>0, <2>5 DEF MarkPendingReconciliation, ledgerVars, Entry
  <2>6. ASSUME NEW c \in Calls, RecordSubscriptionConsumption(c)
        PROVE  Final
    BY <2>0, <2>6, Zenon DEF RecordSubscriptionConsumption, Entry
  <2> QED
    BY <2>1, <2>2, <2>3, <2>4, <2>5, <2>6, Zenon DEF LedgerNext
<1> QED
  BY <1>1, LedgerInitInv, LedgerStep, PTL DEF LedgerSpec, TerminalEntryIsFinal


\* The functions whose sums Charged and Allocated are.
ChargeOn(b, d) ==
    [c \in Calls |-> IF charge[c].on # b THEN 0
                     ELSE IF d = "money" THEN charge[c].money ELSE 1]
GivenBy(b, d) ==
    [t \in Tasks |-> IF budget[t].parent = b THEN budget[t].max[d] ELSE 0]

Row == [max : Limits, used : [Dims -> Nat], depth : Nat \ {0}, subagents : Nat,
        parent : Tasks \cup {NoBudget}, exists : BOOLEAN]
Charge == [on : Tasks \cup {NoBudget}, state : {"none", "consumed", "settled"}, money : Amounts]

\* What holds of the rows besides the equation: everything charged, attached
\* or given names a row that exists.
RowsCoherent ==
    /\ \A c \in Calls : /\ charge[c].state = "none" <=> charge[c].on = NoBudget
                        /\ charge[c].on # NoBudget => budget[charge[c].on].exists
    /\ \A t \in Tasks : attached[t] # NoBudget => budget[attached[t]].exists
    /\ \A t \in Tasks : budget[t].parent # NoBudget => /\ budget[t].exists
                                                       /\ budget[budget[t].parent].exists

(* Inductive strengthening of BudgetAccounted. *)
BudgetInv == BudgetTypeOK /\ RowsCoherent /\ BudgetAccounted

(* Both kinds of sums are over functions the laws of sums apply to. *)
LEMMA SumsTyped ==
    ASSUME BudgetTypeOK, NEW b \in Tasks, NEW d \in Dims
    PROVE  /\ ChargeOn(b, d) \in [Calls -> Amounts]
           /\ GivenBy(b, d) \in [Tasks -> 0..MaxLimit]
           /\ Charged(b, d) = Total(ChargeOn(b, d)) /\ Charged(b, d) \in Nat
           /\ Allocated(b, d) = TotalTasks(GivenBy(b, d)) /\ Allocated(b, d) \in Nat
<1>1. ChargeOn(b, d) \in [Calls -> Amounts]
  BY BudgetAssumption DEF ChargeOn, BudgetTypeOK, Amounts
<1>2. GivenBy(b, d) \in [Tasks -> 0..MaxLimit]
  <2>1. \A t \in Tasks : budget[t].max[d] \in 0..MaxLimit
    BY BudgetAssumption DEF BudgetTypeOK, Limits, Dims
  <2> QED
    BY <2>1, BudgetAssumption DEF GivenBy
<1>3. Charged(b, d) = Total(ChargeOn(b, d)) /\ Allocated(b, d) = TotalTasks(GivenBy(b, d))
  BY Zenon DEF Charged, Allocated, ChargeOn, GivenBy
<1>4. Total(ChargeOn(b, d)) \in Nat
  BY <1>1, TotalAssumption, Zenon
<1>5. TotalTasks(GivenBy(b, d)) \in Nat
  BY <1>2, TotalTasksAssumption, Zenon
<1> QED
  BY <1>1, <1>2, <1>3, <1>4, <1>5, Zenon

(* A row nothing was charged to, or given by, has empty sums. *)
LEMMA EmptySums ==
    ASSUME NEW b \in Tasks, NEW d \in Dims
    PROVE  /\ (\A c \in Calls : charge[c].on # b) => Charged(b, d) = 0
           /\ (\A t \in Tasks : budget[t].parent # b) => Allocated(b, d) = 0
<1>1. ASSUME \A c \in Calls : charge[c].on # b PROVE Charged(b, d) = 0
  <2>1. ChargeOn(b, d) = [c \in Calls |-> 0]
    BY <1>1, Zenon DEF ChargeOn
  <2>2. Charged(b, d) = Total(ChargeOn(b, d))
    BY Zenon DEF Charged, ChargeOn
  <2> QED
    BY <2>1, <2>2, TotalAssumption, Zenon
<1>2. ASSUME \A t \in Tasks : budget[t].parent # b PROVE Allocated(b, d) = 0
  <2>1. GivenBy(b, d) = [t \in Tasks |-> 0]
    BY <1>2, Zenon DEF GivenBy
  <2>2. Allocated(b, d) = TotalTasks(GivenBy(b, d))
    BY Zenon DEF Allocated, GivenBy
  <2> QED
    BY <2>1, <2>2, TotalTasksAssumption, Zenon
<1> QED
  BY <1>1, <1>2, Zenon

(* The type invariant, row by row. *)
LEMMA BudgetTyped ==
    BudgetTypeOK <=> /\ budget \in [Tasks -> Row]
                     /\ attached \in [Tasks -> Tasks \cup {NoBudget}]
                     /\ inherited \subseteq Tasks \X Tasks
                     /\ charge \in [Calls -> Charge]
BY Zenon DEF BudgetTypeOK, Row, Charge

(* The rows stay coherent when limits, parents and attachments do not change. *)
LEMMA CoherentRows ==
    ASSUME BudgetTypeOK, RowsCoherent, attached' = attached,
           \A e \in Tasks : /\ budget'[e].parent = budget[e].parent
                            /\ budget'[e].exists = budget[e].exists,
           \A x \in Calls : /\ charge'[x].state = "none" <=> charge'[x].on = NoBudget
                            /\ charge'[x].on # NoBudget => budget'[charge'[x].on].exists
    PROVE  RowsCoherent'
<1>1. \A t \in Tasks : attached[t] \in Tasks \cup {NoBudget} /\ budget[t].parent \in Tasks \cup {NoBudget}
  BY Zenon DEF BudgetTypeOK
<1> QED
  BY <1>1, Zenon DEF RowsCoherent

(* The fresh tree satisfies the invariant. *)
LEMMA BudgetInitInv == BudgetInit => BudgetInv
<1> SUFFICES ASSUME BudgetInit PROVE BudgetInv
  BY Zenon
<1>1. BudgetTypeOK
  <2>1. NoRow \in Row
    BY BudgetAssumption DEF NoRow, Row, Limits, Dims
  <2>2. NoCharge \in Charge
    BY BudgetAssumption DEF NoCharge, Charge, Amounts
  <2> QED
    BY <2>1, <2>2, Zenon DEF BudgetInit, BudgetTypeOK, Row, Charge
<1>2. RowsCoherent /\ BudgetAccounted
  BY Zenon DEF BudgetInit, RowsCoherent, BudgetAccounted, NoRow, NoCharge
<1> QED
  BY <1>1, <1>2, Zenon DEF BudgetInv

(* A step that leaves the budgets alone keeps it. *)
LEMMA BudgetStutter ==
    ASSUME BudgetInv, UNCHANGED budgetVars
    PROVE  BudgetInv'
<1>1. budget' = budget /\ attached' = attached /\ inherited' = inherited /\ charge' = charge
  BY Zenon DEF budgetVars
<1>2. BudgetTypeOK' /\ RowsCoherent'
  BY <1>1, Zenon DEF BudgetInv, BudgetTypeOK, RowsCoherent
<1>3. BudgetAccounted'
  BY <1>1, Zenon DEF BudgetInv, BudgetAccounted, Charged, Allocated
<1> QED
  BY <1>2, <1>3, Zenon DEF BudgetInv

(* A new row has the limits, the depth and the parent it is created with. *)
LEMMA NewRowIs ==
    ASSUME NEW limits \in Limits, NEW depth \in Nat \ {0}, NEW p \in Tasks \cup {NoBudget}
    PROVE  LET r == NewRow(limits, depth, p)
           IN  r \in Row /\ r.max = limits /\ r.used = [d \in Dims |-> 0] /\ r.parent = p /\ r.exists
<1>1. NoRow \in Row /\ NoRow.used = [d \in Dims |-> 0]
  BY BudgetAssumption DEF NoRow, Row, Limits, Dims
<1> QED
  BY <1>1, Zenon DEF NewRow, Row

(* Creating a root budget keeps it: the new row is neither charged to nor a  *)
(* child, so no sum changes.                                                 *)
LEMMA CreateRootInv ==
    ASSUME BudgetInv, NEW t \in Tasks, NEW limits \in Limits, CreateRootBudget(t, limits)
    PROVE  BudgetInv'
<1> DEFINE r == NewRow(limits, 1, NoBudget)
<1>1. BudgetTypeOK /\ RowsCoherent /\ BudgetAccounted /\ ~budget[t].exists
  BY Zenon DEF BudgetInv, CreateRootBudget
<1>2. /\ budget' = [budget EXCEPT ![t] = r]
      /\ attached' = [attached EXCEPT ![t] = IF @ = NoBudget THEN t ELSE @]
      /\ inherited' = inherited /\ charge' = charge
  BY Zenon DEF CreateRootBudget
<1>3. r \in Row /\ r.max = limits /\ r.used = [d \in Dims |-> 0] /\ r.parent = NoBudget /\ r.exists
  BY NewRowIs
<1>4. BudgetTypeOK'
  BY <1>1, <1>2, <1>3, Zenon DEF BudgetTypeOK, Row
<1>5. budget'[t] = r /\ \A b \in Tasks \ {t} : budget'[b] = budget[b]
  BY <1>1, <1>2, Zenon DEF BudgetTypeOK
<1>6. budget[t].parent = NoBudget
  BY <1>1, Zenon DEF RowsCoherent
<1>7. RowsCoherent'
  BY <1>1, <1>2, <1>3, <1>5, BudgetAssumption DEF RowsCoherent, BudgetTypeOK
<1>8. \A b \in Tasks, d \in Dims : Charged(b, d)' = Charged(b, d) /\ Allocated(b, d)' = Allocated(b, d)
  <2> SUFFICES ASSUME NEW b \in Tasks, NEW d \in Dims
               PROVE Charged(b, d)' = Charged(b, d) /\ Allocated(b, d)' = Allocated(b, d)
    BY Zenon
  <2>1. GivenBy(b, d)' = GivenBy(b, d)
    BY <1>3, <1>5, <1>6, BudgetAssumption DEF GivenBy
  <2> QED
    BY <1>2, <2>1, Zenon DEF Charged, Allocated, GivenBy
<1>9. \A d \in Dims : Charged(t, d) = 0 /\ Allocated(t, d) = 0
  <2>1. (\A c \in Calls : charge[c].on # t) /\ (\A s \in Tasks : budget[s].parent # t)
    BY <1>1, BudgetAssumption, Zenon DEF RowsCoherent
  <2> QED
    BY <2>1, EmptySums, Zenon
<1>10. BudgetAccounted'
  <2> SUFFICES ASSUME NEW b \in Tasks, NEW d \in Dims, budget'[b].exists
               PROVE /\ budget'[b].used[d] = Charged(b, d)' + Allocated(b, d)'
                     /\ budget'[b].used[d] <= budget'[b].max[d]
    BY Zenon DEF BudgetAccounted
  <2>1. CASE b = t
    BY <1>3, <1>5, <1>8, <1>9, <2>1 DEF Limits, Dims
  <2>2. CASE b # t
    BY <1>1, <1>5, <1>8, <2>2, Zenon DEF BudgetAccounted
  <2> QED
    BY <2>1, <2>2, Zenon
<1> QED
  BY <1>4, <1>7, <1>10, Zenon DEF BudgetInv

(* A parent that gains a child keeps its limits, usage and parent. *)
LEMMA WithChildIs ==
    ASSUME BudgetTypeOK, NEW p \in Tasks, NEW depth \in Nat \ {0}
    PROVE  LET r == WithChild(p, depth)
           IN  /\ r \in Row /\ r.max = budget[p].max /\ r.used = budget[p].used
               /\ r.parent = budget[p].parent /\ r.exists = budget[p].exists
<1>1. budget[p] \in Row
  BY Zenon DEF BudgetTypeOK, Row
<1> DEFINE s == budget[p].subagents + 1
           m == IF depth > budget[p].depth THEN depth ELSE budget[p].depth
<1>2. s \in Nat /\ m \in Nat \ {0}
  BY <1>1 DEF Row
<1>3. WithChild(p, depth) = [budget[p] EXCEPT !.subagents = s, !.depth = m]
  BY Zenon DEF WithChild
<1> HIDE DEF s, m
<1> QED
  BY <1>1, <1>2, <1>3, Zenon DEF Row

(* Sharing a parent's row keeps the invariant. *)
LEMMA InheritSharedInv ==
    ASSUME BudgetInv, NEW p \in Tasks, NEW t \in Tasks, NEW depth \in Nat \ {0},
           InheritShared(p, t, depth)
    PROVE  BudgetInv'
<1> DEFINE r == WithChild(p, depth)
<1>1. BudgetTypeOK /\ RowsCoherent /\ BudgetAccounted /\ budget[p].exists
  BY Zenon DEF BudgetInv, InheritShared, CanInherit
<1>2. /\ budget' = [budget EXCEPT ![p] = r]
      /\ attached' = [attached EXCEPT ![t] = IF @ = NoBudget THEN p ELSE @]
      /\ inherited' = inherited \cup {<<p, t>>} /\ charge' = charge
  BY Zenon DEF InheritShared
<1>3. /\ r \in Row /\ r.max = budget[p].max /\ r.used = budget[p].used
      /\ r.parent = budget[p].parent /\ r.exists = budget[p].exists
  BY <1>1, WithChildIs, Zenon
<1>4. BudgetTypeOK'
  BY <1>1, <1>2, <1>3 DEF BudgetTypeOK, Row
<1>5. \A b \in Tasks : /\ budget'[b].max = budget[b].max /\ budget'[b].used = budget[b].used
                       /\ budget'[b].parent = budget[b].parent
                       /\ budget'[b].exists = budget[b].exists
  BY <1>1, <1>2, <1>3, Zenon DEF BudgetTypeOK
<1>6. RowsCoherent'
  BY <1>1, <1>2, <1>5, BudgetAssumption DEF RowsCoherent, BudgetTypeOK
<1>7. \A b \in Tasks, d \in Dims : Charged(b, d)' = Charged(b, d) /\ Allocated(b, d)' = Allocated(b, d)
  <2> SUFFICES ASSUME NEW b \in Tasks, NEW d \in Dims
               PROVE Charged(b, d)' = Charged(b, d) /\ Allocated(b, d)' = Allocated(b, d)
    BY Zenon
  <2>1. GivenBy(b, d)' = GivenBy(b, d)
    BY <1>5, Zenon DEF GivenBy
  <2> QED
    BY <1>2, <2>1, Zenon DEF Charged, Allocated, GivenBy
<1>8. BudgetAccounted'
  BY <1>1, <1>5, <1>7, Zenon DEF BudgetAccounted
<1> QED
  BY <1>4, <1>6, <1>8, Zenon DEF BudgetInv

(* Giving a child a budget of its own keeps it: what the parent pays is the  *)
(* one summand its children's sum gains.                                     *)
LEMMA InheritAllocatedInv ==
    ASSUME BudgetInv, NEW p \in Tasks, NEW t \in Tasks \ {p}, NEW depth \in Nat \ {0},
           NEW limits \in Limits, InheritAllocated(p, t, depth, limits)
    PROVE  BudgetInv'
<1> DEFINE w == WithChild(p, depth)
           r == [w EXCEPT !.used = [d \in Dims |-> @[d] + limits[d]]]
           n == NewRow(limits, depth, p)
<1>1. BudgetTypeOK /\ RowsCoherent /\ BudgetAccounted /\ budget[p].exists /\ ~budget[t].exists
  BY Zenon DEF BudgetInv, InheritAllocated, CanInherit
<1>2. /\ budget' = [budget EXCEPT ![p] = r, ![t] = n]
      /\ attached' = [attached EXCEPT ![t] = t]
      /\ inherited' = inherited \cup {<<p, t>>} /\ charge' = charge
      /\ \A d \in Dims : limits[d] <= budget[p].max[d] - budget[p].used[d]
  BY Zenon DEF InheritAllocated
<1>3. /\ w \in Row /\ w.max = budget[p].max /\ w.used = budget[p].used
      /\ w.parent = budget[p].parent /\ w.exists = budget[p].exists
  BY <1>1, WithChildIs, Zenon
<1>4. n \in Row /\ n.max = limits /\ n.used = [d \in Dims |-> 0] /\ n.parent = p /\ n.exists
  BY NewRowIs, Zenon
<1>5. /\ \A d \in Dims : limits[d] \in 0..MaxLimit /\ w.used[d] \in Nat
      /\ \A d \in Dims : budget[p].max[d] \in Nat
  BY <1>1, <1>3, BudgetAssumption DEF Row, Limits, Dims, BudgetTypeOK
<1>6. /\ r \in Row /\ r.max = budget[p].max /\ r.parent = budget[p].parent /\ r.exists
      /\ \A d \in Dims : r.used[d] = budget[p].used[d] + limits[d]
  <2> DEFINE u == [d \in Dims |-> w.used[d] + limits[d]]
  <2>1. u \in [Dims -> Nat] /\ \A d \in Dims : u[d] = budget[p].used[d] + limits[d]
    BY <1>3, <1>5, BudgetAssumption
  <2>2. r = [w EXCEPT !.used = u]
    BY Zenon
  <2> HIDE DEF w, u, r
  <2> QED
    BY <1>1, <1>3, <2>1, <2>2, Zenon DEF Row
<1> HIDE DEF r, n, w
<1>7. budget'[p] = r /\ budget'[t] = n /\ \A b \in Tasks \ {p, t} : budget'[b] = budget[b]
  BY <1>1, <1>2, Zenon DEF BudgetTypeOK
<1>8. BudgetTypeOK'
  <2>1. budget' \in [Tasks -> Row]
    BY <1>1, <1>2, <1>4, <1>6, Zenon DEF BudgetTypeOK, Row
  <2>2. attached' \in [Tasks -> Tasks \cup {NoBudget}] /\ inherited' \subseteq Tasks \X Tasks
    BY <1>1, <1>2 DEF BudgetTypeOK
  <2> QED
    BY <1>1, <1>2, <2>1, <2>2, Zenon DEF BudgetTypeOK, Row
<1>9. budget[t].parent = NoBudget
  BY <1>1, Zenon DEF RowsCoherent
<1>10. RowsCoherent'
  <2>1. \A b \in Tasks : budget[b].exists => budget'[b].exists
    BY <1>1, <1>6, <1>7, Zenon
  <2>2. \A b \in Tasks \ {t} : budget'[b].parent = budget[b].parent
    BY <1>6, <1>7, Zenon
  <2>3. \A c \in Calls : charge[c].on # NoBudget => charge[c].on \in Tasks
    BY <1>1, Zenon DEF BudgetTypeOK
  <2>4. \A b \in Tasks : attached'[b] # NoBudget => budget'[attached'[b]].exists
    BY <1>1, <1>2, <1>4, <1>7, <2>1 DEF RowsCoherent, BudgetTypeOK
  <2>5. \A b \in Tasks : budget'[b].parent # NoBudget => /\ budget'[b].exists
                                                         /\ budget'[budget'[b].parent].exists
    <3> TAKE b \in Tasks
    <3>1. CASE b = t
      BY <1>4, <1>6, <1>7, <3>1, Zenon
    <3>2. CASE b # t
      BY <1>1, <2>1, <2>2, <3>2, Zenon DEF RowsCoherent, BudgetTypeOK
    <3> QED
      BY <3>1, <3>2, Zenon
  <2> QED
    BY <1>1, <1>2, <2>1, <2>3, <2>4, <2>5, Zenon DEF RowsCoherent
<1>11. \A b \in Tasks, d \in Dims : Charged(b, d)' = Charged(b, d)
  BY <1>2, Zenon DEF Charged
<1>12. \A d \in Dims : Allocated(p, d)' = Allocated(p, d) + limits[d]
  <2> TAKE d \in Dims
  <2>1. GivenBy(p, d)' = [GivenBy(p, d) EXCEPT ![t] = limits[d]]
    <3>1. \A b \in Tasks \ {t} : /\ budget'[b].parent = budget[b].parent
                                 /\ budget'[b].max = budget[b].max
      BY <1>6, <1>7, Zenon
    <3>2. budget'[t].parent = p /\ budget'[t].max = limits
      BY <1>4, <1>7, Zenon
    <3> QED
      BY <3>1, <3>2, Zenon DEF GivenBy
  <2>2. GivenBy(p, d)[t] = 0
    BY <1>9, BudgetAssumption, Zenon DEF GivenBy
  <2>3. GivenBy(p, d) \in [Tasks -> 0..MaxLimit] /\ Allocated(p, d) = TotalTasks(GivenBy(p, d))
        /\ Allocated(p, d) \in Nat
    BY <1>1, SumsTyped, Zenon
  <2>4. Allocated(p, d)' = TotalTasks(GivenBy(p, d)')
    BY Zenon DEF Allocated, GivenBy
  <2>5. TotalTasks([GivenBy(p, d) EXCEPT ![t] = limits[d]])
          = TotalTasks(GivenBy(p, d)) - GivenBy(p, d)[t] + limits[d]
    BY <1>5, <2>3, TotalTasksAssumption, Zenon
  <2>6. limits[d] \in Nat
    BY <1>5, BudgetAssumption
  <2> QED
    BY <2>1, <2>2, <2>3, <2>4, <2>5, <2>6
<1>13. \A b \in Tasks \ {p}, d \in Dims : Allocated(b, d)' = Allocated(b, d)
  <2> TAKE b \in Tasks \ {p}, d \in Dims
  <2>1. GivenBy(b, d)' = GivenBy(b, d)
    <3>1. \A s \in Tasks \ {t} : budget'[s].parent = budget[s].parent /\ budget'[s].max = budget[s].max
      BY <1>6, <1>7, Zenon
    <3>2. budget'[t].parent # b /\ budget[t].parent # b
      BY <1>4, <1>7, <1>9, BudgetAssumption, Zenon
    <3> QED
      BY <3>1, <3>2, Zenon DEF GivenBy
  <2> QED
    BY <2>1, Zenon DEF Allocated, GivenBy
<1>14. \A d \in Dims : Charged(t, d) = 0 /\ Allocated(t, d) = 0
  <2>1. (\A c \in Calls : charge[c].on # t) /\ (\A s \in Tasks : budget[s].parent # t)
    BY <1>1, BudgetAssumption, Zenon DEF RowsCoherent
  <2> QED
    BY <2>1, EmptySums, Zenon
<1>15. BudgetAccounted'
  <2> SUFFICES ASSUME NEW b \in Tasks, NEW d \in Dims, budget'[b].exists
               PROVE /\ budget'[b].used[d] = Charged(b, d)' + Allocated(b, d)'
                     /\ budget'[b].used[d] <= budget'[b].max[d]
    BY Zenon DEF BudgetAccounted
  <2>0. Charged(b, d) \in Nat /\ Allocated(b, d) \in Nat
    BY <1>1, SumsTyped, Zenon
  <2>1. CASE b = t
    BY <1>4, <1>5, <1>7, <1>11, <1>13, <1>14, <2>1
  <2>2. CASE b = p
    <3>1. budget[p].used[d] = Charged(p, d) + Allocated(p, d)
      BY <1>1, Zenon DEF BudgetAccounted
    <3>2. limits[d] \in Nat /\ budget[p].used[d] \in Nat /\ budget[p].max[d] \in Nat
      BY <1>3, <1>5
    <3> QED
      BY <1>2, <1>6, <1>7, <1>11, <1>12, <2>0, <2>2, <3>1, <3>2
  <2>3. CASE b \notin {p, t}
    BY <1>1, <1>7, <1>11, <1>13, <2>3 DEF BudgetAccounted
  <2> QED
    BY <2>1, <2>2, <2>3, Zenon
<1> QED
  BY <1>8, <1>10, <1>15, Zenon DEF BudgetInv

(* Charging one call anew changes the sums of its row by the difference, and *)
(* no sum of another row.                                                    *)
LEMMA OneCharge ==
    ASSUME BudgetTypeOK, NEW c \in Calls, NEW b \in Tasks, NEW row \in Charge,
           charge[c].on \in {b, NoBudget}, row.on = b,
           charge' = [charge EXCEPT ![c] = row]
    PROVE  /\ \A e \in Tasks \ {b}, d \in Dims : Charged(e, d)' = Charged(e, d)
           /\ \A d \in Dims : /\ Charged(b, d)' = Charged(b, d) - ChargeOn(b, d)[c]
                                                  + (IF d = "money" THEN row.money ELSE 1)
                            /\ Charged(b, d) - ChargeOn(b, d)[c] \in Nat
<1>0. NoBudget # b /\ 0 \in Amounts /\ 1 \in Amounts /\ Amounts \subseteq Nat
  BY BudgetAssumption DEF Amounts
<1>1. charge'[c] = row /\ \A x \in Calls \ {c} : charge'[x] = charge[x]
  BY Zenon DEF BudgetTypeOK
<1>2. ASSUME NEW e \in Tasks \ {b}, NEW d \in Dims
      PROVE  Charged(e, d)' = Charged(e, d)
  <2>1. charge[c].on # e /\ charge'[c].on # e
    BY <1>1, BudgetAssumption, Zenon
  <2>2. ChargeOn(e, d)' = ChargeOn(e, d)
    BY <1>1, <2>1 DEF ChargeOn
  <2> QED
    BY <2>2, Zenon DEF Charged, ChargeOn
<1>3. ASSUME NEW d \in Dims
      PROVE  /\ Charged(b, d)' = Charged(b, d) - ChargeOn(b, d)[c]
                                   + (IF d = "money" THEN row.money ELSE 1)
             /\ Charged(b, d) - ChargeOn(b, d)[c] \in Nat
  <2> DEFINE new == IF d = "money" THEN row.money ELSE 1
             f == ChargeOn(b, d)
  <2>1. new \in Amounts
    BY <1>0, Zenon DEF Charge
  <2>2. f \in [Calls -> Amounts] /\ Charged(b, d) = Total(f) /\ Charged(b, d) \in Nat
    BY SumsTyped, Zenon
  <2>3. ChargeOn(b, d)' = [f EXCEPT ![c] = new]
    <3> DEFINE g == ChargeOn(b, d)'
    <3>1. g = [x \in Calls |-> g[x]]
      BY DEF ChargeOn
    <3>2. g[c] = new
      BY <1>1 DEF ChargeOn
    <3>3. \A x \in Calls \ {c} : g[x] = f[x]
      BY <1>1 DEF ChargeOn
    <3> HIDE DEF f, g, new
    <3>4. g = [f EXCEPT ![c] = new]
      BY <2>2, <3>1, <3>2, <3>3, Zenon
    <3> QED
      BY <3>4, Zenon DEF f, g, new
  <2>4. Charged(b, d)' = Total(ChargeOn(b, d)')
    BY Zenon DEF Charged, ChargeOn
  <2> HIDE DEF f, new
  <2>5. Total([f EXCEPT ![c] = new]) = Total(f) - f[c] + new
    BY <2>1, <2>2, TotalAssumption, Zenon
  <2>6. Total([f EXCEPT ![c] = 0]) = Total(f) - f[c] + 0
    BY <1>0, <2>2, TotalAssumption, Zenon
  <2>7. [f EXCEPT ![c] = 0] \in [Calls -> Amounts]
    BY <1>0, <2>2, Zenon
  <2>8. Total([f EXCEPT ![c] = 0]) \in Nat
    BY <2>7, TotalAssumption, Zenon
  <2>9. f[c] \in Nat
    BY <1>0, <2>2, Zenon
  <2> QED
    BY <2>2, <2>3, <2>4, <2>5, <2>6, <2>8, <2>9 DEF f, new
<1> QED
  BY <1>2, <1>3, Zenon

(* A row whose usage is replaced stays a row, with the rest as it was. *)
LEMMA NewUsage ==
    ASSUME BudgetTypeOK, NEW b \in Tasks, NEW u \in [Dims -> Nat],
           budget' = [budget EXCEPT ![b] = [budget[b] EXCEPT !.used = u]]
    PROVE  /\ budget' \in [Tasks -> Row]
           /\ budget'[b].used = u
           /\ \A e \in Tasks : /\ budget'[e].max = budget[e].max
                               /\ budget'[e].parent = budget[e].parent
                               /\ budget'[e].exists = budget[e].exists
                               /\ e # b => budget'[e].used = budget[e].used
           /\ \A e \in Tasks, d \in Dims : Allocated(e, d)' = Allocated(e, d)
<1>1. budget[b] \in Row
  BY Zenon DEF BudgetTypeOK, Row
<1>2. /\ budget' \in [Tasks -> Row]
      /\ budget'[b].used = u
      /\ \A e \in Tasks : /\ budget'[e].max = budget[e].max
                          /\ budget'[e].parent = budget[e].parent
                          /\ budget'[e].exists = budget[e].exists
                          /\ e # b => budget'[e].used = budget[e].used
  BY <1>1, Zenon DEF BudgetTypeOK, Row
<1>3. ASSUME NEW e \in Tasks, NEW d \in Dims PROVE Allocated(e, d)' = Allocated(e, d)
  <2>1. GivenBy(e, d)' = GivenBy(e, d)
    BY <1>2 DEF GivenBy
  <2> QED
    BY <2>1, Zenon DEF Allocated, GivenBy
<1> QED
  BY <1>2, <1>3, Zenon

(* Charging a call keeps the invariant. *)
LEMMA ConsumeInv ==
    ASSUME BudgetInv, NEW c \in Calls, NEW est \in Amounts, NEW res, ConsumeModelCall(c, est, res)
    PROVE  BudgetInv'
<1>0. BudgetTypeOK /\ RowsCoherent /\ BudgetAccounted
  BY Zenon DEF BudgetInv
<1>1. CASE UNCHANGED budgetVars
  BY <1>1, BudgetStutter, Zenon
<1>2. CASE ~UNCHANGED budgetVars
  <2>0. PICK b \in Tasks : b = BudgetOf(c)
    <3>1. TaskOf[c] \in Tasks /\ BudgetOf(c) # NoBudget
      BY <1>2, BudgetAssumption, Zenon DEF ConsumeModelCall
    <3> QED
      BY <1>0, <3>1, Zenon DEF BudgetOf, BudgetTypeOK
  <2> DEFINE row == [on |-> b, state |-> "consumed", money |-> est]
             u == [budget[b].used EXCEPT !["money"] = @ + est, !["calls"] = @ + 1]
  <2>1. /\ b # NoBudget /\ charge[c].state = "none"
        /\ budget[b].used.money + est <= budget[b].max.money
        /\ budget[b].used.calls + 1 <= budget[b].max.calls
        /\ budget' = [budget EXCEPT ![b].used.money = @ + est, ![b].used.calls = @ + 1]
        /\ charge' = [charge EXCEPT ![c] = row]
        /\ attached' = attached /\ inherited' = inherited
    BY <1>2, <2>0, Zenon DEF ConsumeModelCall
  <2>2. b \in Tasks /\ budget[b].exists /\ budget[b].used \in [Dims -> Nat] /\ est \in Nat
    <3>1. TaskOf[c] \in Tasks
      BY BudgetAssumption, Zenon
    <3>2. budget[b].exists
      BY <1>0, <2>0, <2>1, <3>1, Zenon DEF BudgetOf, RowsCoherent
    <3> QED
      BY <1>0, <3>2, BudgetAssumption DEF BudgetTypeOK, Amounts
  <2>3. u \in [Dims -> Nat] /\ u["money"] = budget[b].used["money"] + est
        /\ u["calls"] = budget[b].used["calls"] + 1
    BY <2>2 DEF Dims
  <2>4. budget' = [budget EXCEPT ![b] = [budget[b] EXCEPT !.used = u]]
    BY <1>0, <2>1, <2>2, Zenon DEF BudgetTypeOK
  <2> HIDE DEF u
  <2>5. row \in Charge /\ row.on = b /\ row.money = est
    BY <2>2, Zenon DEF Charge
  <2>6. charge[c].on = NoBudget
    BY <1>0, <2>1, Zenon DEF RowsCoherent
  <2>7. /\ budget' \in [Tasks -> Row] /\ budget'[b].used = u
        /\ \A e \in Tasks : /\ budget'[e].max = budget[e].max
                            /\ budget'[e].parent = budget[e].parent
                            /\ budget'[e].exists = budget[e].exists
                            /\ e # b => budget'[e].used = budget[e].used
        /\ \A e \in Tasks, d \in Dims : Allocated(e, d)' = Allocated(e, d)
    BY <1>0, <2>2, <2>3, <2>4, NewUsage, Zenon
  <2>8. /\ \A e \in Tasks \ {b}, d \in Dims : Charged(e, d)' = Charged(e, d)
        /\ \A d \in Dims : Charged(b, d)' = Charged(b, d) - ChargeOn(b, d)[c]
                                             + (IF d = "money" THEN row.money ELSE 1)
    BY <1>0, <2>1, <2>2, <2>5, <2>6, OneCharge, Zenon
  <2>9. \A d \in Dims : ChargeOn(b, d)[c] = 0
    BY <2>2, <2>6, BudgetAssumption, Zenon DEF ChargeOn
  <2> HIDE DEF row
  <2>10. BudgetTypeOK'
    <3>1. charge' \in [Calls -> Charge]
      BY <1>0, <2>1, <2>5, BudgetTyped, Zenon
    <3> QED
      BY <1>0, <2>1, <2>7, <3>1, Zenon DEF BudgetTypeOK, Row, Charge
  <2>11. RowsCoherent'
    <3>1. row.state = "consumed"
      BY Zenon DEF row
    <3>2. charge'[c] = row /\ \A x \in Calls \ {c} : charge'[x] = charge[x]
      BY <1>0, <2>1, Zenon DEF BudgetTypeOK
    <3>3. \A x \in Calls : charge[x].on \in Tasks \cup {NoBudget}
      BY <1>0, Zenon DEF BudgetTypeOK
    <3>4. \A x \in Calls : /\ charge'[x].state = "none" <=> charge'[x].on = NoBudget
                           /\ charge'[x].on # NoBudget => budget'[charge'[x].on].exists
      BY <1>0, <2>1, <2>2, <2>5, <2>7, <3>1, <3>2, <3>3 DEF RowsCoherent
    <3>5. \A e \in Tasks : /\ budget'[e].parent = budget[e].parent
                           /\ budget'[e].exists = budget[e].exists
      BY <2>7, Zenon
    <3> QED
      BY <1>0, <2>1, <3>4, <3>5, CoherentRows, Zenon
  <2>12. BudgetAccounted'
    <3> SUFFICES ASSUME NEW e \in Tasks, NEW d \in Dims, budget'[e].exists
                 PROVE /\ budget'[e].used[d] = Charged(e, d)' + Allocated(e, d)'
                       /\ budget'[e].used[d] <= budget'[e].max[d]
      BY Zenon DEF BudgetAccounted
    <3>1. Charged(e, d) \in Nat /\ Allocated(e, d) \in Nat
      BY <1>0, SumsTyped, Zenon
    <3>2. CASE e # b
      BY <1>0, <2>7, <2>8, <3>2 DEF BudgetAccounted
    <3>3. CASE e = b /\ d = "money"
      <4>1. /\ Charged(b, d)' = Charged(b, d) - 0 + est
            /\ budget'[b].used[d] = budget[b].used[d] + est
            /\ budget'[b].max[d] = budget[b].max[d]
            /\ budget[b].used[d] + est <= budget[b].max[d]
        BY <2>1, <2>2, <2>3, <2>5, <2>7, <2>8, <2>9, <3>3
      <4>2. budget[b].used[d] = Charged(b, d) + Allocated(b, d)
        BY <1>0, <2>2, Zenon DEF BudgetAccounted
      <4> QED
        BY <2>2, <2>7, <3>1, <3>3, <4>1, <4>2
    <3>4. CASE e = b /\ d = "calls"
      <4>1. /\ Charged(b, d)' = Charged(b, d) - 0 + 1
            /\ budget'[b].used[d] = budget[b].used[d] + 1
            /\ budget'[b].max[d] = budget[b].max[d]
            /\ budget[b].used[d] + 1 <= budget[b].max[d]
        BY <2>1, <2>2, <2>3, <2>7, <2>8, <2>9, <3>4
      <4>2. budget[b].used[d] = Charged(b, d) + Allocated(b, d)
        BY <1>0, <2>2, Zenon DEF BudgetAccounted
      <4> QED
        BY <2>2, <2>7, <3>1, <3>4, <4>1, <4>2
    <3> QED
      BY <3>2, <3>3, <3>4, Zenon DEF Dims
  <2> QED
    BY <2>10, <2>11, <2>12, Zenon DEF BudgetInv
<1> QED
  BY <1>1, <1>2, Zenon

(* Settling a call keeps it, and the clamp at zero never applies. *)
LEMMA SettleInv ==
    ASSUME BudgetInv, NEW c \in Calls, NEW actual \in Amounts, NEW res, SettleModelCall(c, actual, res)
    PROVE  BudgetInv'
<1>0. BudgetTypeOK /\ RowsCoherent /\ BudgetAccounted
  BY Zenon DEF BudgetInv
<1>1. CASE UNCHANGED budgetVars
  BY <1>1, BudgetStutter, Zenon
<1>2. CASE ~UNCHANGED budgetVars
  <2>0. PICK b \in Tasks : b = charge[c].on
    BY <1>0, <1>2, Zenon DEF SettleModelCall, RowsCoherent, BudgetTypeOK
  <2> DEFINE raw == budget[b].used.money + actual - charge[c].money
             next == IF raw < 0 THEN 0 ELSE raw
             row == [charge[c] EXCEPT !.state = "settled", !.money = actual]
             u == [budget[b].used EXCEPT !["money"] = raw]
  <2>1. /\ charge[c].state = "consumed" /\ next <= budget[b].max.money
        /\ budget' = [budget EXCEPT ![b].used.money = next]
        /\ charge' = [charge EXCEPT ![c].state = "settled", ![c].money = actual]
        /\ attached' = attached /\ inherited' = inherited
    BY <1>2, <2>0, Zenon DEF SettleModelCall
  <2>2. /\ b \in Tasks /\ budget[b].exists /\ budget[b].used \in [Dims -> Nat]
        /\ actual \in Nat /\ charge[c] \in Charge /\ charge[c].money \in Nat
        /\ budget[b].max.money \in Nat
    BY <1>0, <2>0, <2>1, BudgetAssumption DEF BudgetTypeOK, RowsCoherent, Amounts, Charge, Limits
  <2>3. charge' = [charge EXCEPT ![c] = row]
    BY <1>0, <2>1, Zenon DEF BudgetTypeOK
  <2>4. row \in Charge /\ row.on = b /\ row.money = actual /\ row.state = "settled"
    BY <2>0, <2>2, Zenon DEF Charge
  <2> HIDE DEF row
  <2>5. /\ \A e \in Tasks \ {b}, d \in Dims : Charged(e, d)' = Charged(e, d)
        /\ \A d \in Dims : /\ Charged(b, d)' = Charged(b, d) - ChargeOn(b, d)[c]
                                             + (IF d = "money" THEN row.money ELSE 1)
                            /\ Charged(b, d) - ChargeOn(b, d)[c] \in Nat
    <3>1. charge[c].on \in {b, NoBudget}
      BY <2>0, Zenon
    <3> QED
      BY <1>0, <2>2, <2>3, <2>4, <3>1, OneCharge, Zenon
  <2>6. "money" \in Dims /\ "calls" \in Dims
    BY Zenon DEF Dims
  <2>7. ChargeOn(b, "money")[c] = charge[c].money /\ ChargeOn(b, "calls")[c] = 1
    BY <2>0, Zenon DEF ChargeOn
  <2>8. \A d \in Dims : Charged(b, d) \in Nat /\ Allocated(b, d) \in Nat
                        /\ budget[b].used[d] = Charged(b, d) + Allocated(b, d)
                        /\ budget[b].used[d] <= budget[b].max[d]
    BY <1>0, <2>2, SumsTyped, Zenon DEF BudgetAccounted
  <2>9. raw \in Nat /\ next = raw
    <3>1. raw \in Int
      BY <2>2, <2>6
    <3>2. Charged(b, "money") - charge[c].money \in Nat
      BY <2>5, <2>6, <2>7, Zenon
    <3>3. raw >= 0
      BY <2>2, <2>6, <2>8, <3>2
    <3> QED
      BY <3>1, <3>3
  <2> HIDE DEF raw
  <2>10. u \in [Dims -> Nat] /\ u["money"] = raw /\ u["calls"] = budget[b].used["calls"]
    BY <2>2, <2>9, Zenon DEF Dims
  <2>11. budget' = [budget EXCEPT ![b] = [budget[b] EXCEPT !.used = u]]
    BY <1>0, <2>1, <2>2, <2>9, Zenon DEF BudgetTypeOK
  <2> HIDE DEF u, next
  <2>12. /\ budget' \in [Tasks -> Row] /\ budget'[b].used = u
         /\ \A e \in Tasks : /\ budget'[e].max = budget[e].max
                             /\ budget'[e].parent = budget[e].parent
                             /\ budget'[e].exists = budget[e].exists
                             /\ e # b => budget'[e].used = budget[e].used
         /\ \A e \in Tasks, d \in Dims : Allocated(e, d)' = Allocated(e, d)
    BY <1>0, <2>2, <2>10, <2>11, NewUsage, Zenon
  <2>13. BudgetTypeOK'
    <3>1. charge' \in [Calls -> Charge]
      BY <1>0, <2>3, <2>4, BudgetTyped, Zenon
    <3> QED
      BY <1>0, <2>1, <2>12, <3>1, Zenon DEF BudgetTypeOK, Row, Charge
  <2>14. RowsCoherent'
    <3>1. charge'[c] = row /\ \A x \in Calls \ {c} : charge'[x] = charge[x]
      BY <1>0, <2>3, Zenon DEF BudgetTypeOK
    <3>2. \A x \in Calls : charge[x].on \in Tasks \cup {NoBudget}
      BY <1>0, Zenon DEF BudgetTypeOK
    <3>3. \A x \in Calls : /\ charge'[x].state = "none" <=> charge'[x].on = NoBudget
                           /\ charge'[x].on # NoBudget => budget'[charge'[x].on].exists
      BY <1>0, <2>2, <2>4, <2>12, <3>1, <3>2, BudgetAssumption DEF RowsCoherent
    <3>4. \A e \in Tasks : /\ budget'[e].parent = budget[e].parent
                           /\ budget'[e].exists = budget[e].exists
      BY <2>12, Zenon
    <3> QED
      BY <1>0, <2>1, <3>3, <3>4, CoherentRows, Zenon
  <2>15. BudgetAccounted'
    <3> SUFFICES ASSUME NEW e \in Tasks, NEW d \in Dims, budget'[e].exists
                 PROVE /\ budget'[e].used[d] = Charged(e, d)' + Allocated(e, d)'
                       /\ budget'[e].used[d] <= budget'[e].max[d]
      BY Zenon DEF BudgetAccounted
    <3>2. CASE e # b
      BY <1>0, <2>5, <2>12, <3>2 DEF BudgetAccounted
    <3>3. CASE e = b /\ d = "money"
      <4>1. raw = budget[b].used["money"] + actual - charge[c].money
        BY Zenon DEF raw
      <4>2. raw <= budget[b].max["money"]
        BY <2>1, <2>9, Zenon
      <4>3. Charged(b, "money")' = Charged(b, "money") - charge[c].money + actual
        BY <2>4, <2>5, <2>6, <2>7, Zenon
      <4>4. Charged(b, "money") \in Nat /\ Allocated(b, "money") \in Nat
            /\ budget[b].used["money"] = Charged(b, "money") + Allocated(b, "money")
        BY <2>6, <2>8, Zenon
      <4>5. budget'[b].used["money"] = raw /\ budget'[b].max["money"] = budget[b].max["money"]
            /\ Allocated(b, "money")' = Allocated(b, "money")
        BY <2>2, <2>6, <2>10, <2>12, Zenon
      <4>6. raw = Charged(b, "money")' + Allocated(b, "money")
        BY <2>2, <4>1, <4>3, <4>4
      <4> QED
        BY <3>3, <4>2, <4>5, <4>6, Zenon
    <3>4. CASE e = b /\ d = "calls"
      <4>1. Charged(b, "calls")' = Charged(b, "calls") - 1 + 1
        BY <2>5, <2>6, <2>7, Zenon
      <4>2. Charged(b, "calls") \in Nat /\ Allocated(b, "calls") \in Nat
            /\ budget[b].used["calls"] = Charged(b, "calls") + Allocated(b, "calls")
            /\ budget[b].used["calls"] <= budget[b].max["calls"]
        BY <2>6, <2>8, Zenon
      <4>3. budget'[b].used["calls"] = budget[b].used["calls"]
            /\ budget'[b].max["calls"] = budget[b].max["calls"]
            /\ Allocated(b, "calls")' = Allocated(b, "calls")
        BY <2>2, <2>6, <2>10, <2>12, Zenon
      <4> QED
        BY <3>4, <4>1, <4>2, <4>3
    <3> QED
      BY <3>2, <3>3, <3>4, Zenon DEF Dims
  <2> QED
    BY <2>13, <2>14, <2>15, Zenon DEF BudgetInv
<1> QED
  BY <1>1, <1>2, Zenon

(* Every step of the budget store keeps the invariant. *)
LEMMA BudgetStep == BudgetInv /\ [BudgetNext]_budgetVars => BudgetInv'
<1> SUFFICES ASSUME BudgetInv, [BudgetNext]_budgetVars PROVE BudgetInv'
  BY Zenon
<1>1. CASE UNCHANGED budgetVars
  BY <1>1, BudgetStutter, Zenon
<1>2. CASE BudgetAdmin
  BY <1>2, CreateRootInv, InheritSharedInv, InheritAllocatedInv, BudgetAssumption, Zenon DEF BudgetAdmin
<1>3. ASSUME NEW c \in Calls, NEW a \in Amounts, NEW res \in Results,
             ConsumeModelCall(c, a, res) \/ SettleModelCall(c, a, res)
      PROVE  BudgetInv'
  BY <1>3, ConsumeInv, SettleInv, Zenon
<1> QED
  BY <1>1, <1>2, <1>3, Zenon DEF BudgetNext

(* The invariant of the budget tree holds throughout. *)
LEMMA BudgetInvHolds == BudgetSpec => []BudgetInv
<1>1. BudgetInit => BudgetInv
  BY BudgetInitInv, Zenon
<1>2. BudgetInv /\ [BudgetNext]_budgetVars => BudgetInv'
  BY BudgetStep, Zenon
<1> QED
  BY <1>1, <1>2, PTL DEF BudgetSpec

(* The usage of a budget row is what its calls were charged plus what it     *)
(* handed to its children, and within its limits, for any tree of tasks, any *)
(* limits and any interleaving of charges, settlements and inheritances.     *)
THEOREM BudgetsAccountForCalls == BudgetSpec => []BudgetAccounted
<1>1. BudgetInv => BudgetAccounted
  BY Zenon DEF BudgetInv
<1> QED
  BY <1>1, BudgetInvHolds, PTL
=============================================================================
