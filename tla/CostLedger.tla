------------------------------ MODULE CostLedger ------------------------------
(***************************************************************************)
(* The prepaid wallet of one provider and its append-only ledger           *)
(* (internal/costledger).  Every operation is one transaction that locks   *)
(* the wallet row, so each is one action.  wallet is the row of            *)
(* provider_wallets, entry[c] the rows of provider_wallet_events of call   *)
(* c: whether a reservation was written and its amount, and the at most    *)
(* one terminal row that closed it.  An operation has a result parameter   *)
(* so that a caller can branch on the error it gets back.                  *)
(***************************************************************************)
EXTENDS Integers

CONSTANTS
    Calls,              \* model and embedding invocations billed here
    SubscriptionCalls,  \* calls of a flat-rate provider, never priced
    InProgram,          \* calls subject to the program's family ceiling
    Ceiling,            \* Family.MaxUSD of the program
    MaxAmount,          \* bound on every amount of money
    Total(_)            \* the sum of a function from Calls to amounts

Amounts == 0..MaxAmount

\* All that the proofs use of the sum: it starts at zero, is monotonic and can
\* be updated one call at a time.
ASSUME TotalAssumption ==
    /\ Total([c \in Calls |-> 0]) = 0
    /\ \A f \in [Calls -> Amounts] :
          /\ Total(f) \in Nat
          /\ \A c \in Calls, a \in Amounts :
                Total([f EXCEPT ![c] = a]) = Total(f) - f[c] + a
          /\ \A g \in [Calls -> Amounts] :
                (\A c \in Calls : f[c] <= g[c]) => Total(f) <= Total(g)

ASSUME LedgerAssumption ==
    /\ MaxAmount \in Nat
    /\ Ceiling \in Nat
    /\ SubscriptionCalls \subseteq Calls
    /\ InProgram \subseteq Calls

VARIABLES wallet, entry
ledgerVars == <<wallet, entry>>

Wallet == [provisioned : BOOLEAN, balance : Nat, reserved : Nat]
Entry == [kind : {"none", "reserved", "committed", "released", "subscription"},
          amount : Amounts, cost : Amounts, pending : BOOLEAN]

LedgerTypeOK == wallet \in Wallet /\ entry \in [Calls -> Entry]

NoEntry == [kind |-> "none", amount |-> 0, cost |-> 0, pending |-> FALSE]

LedgerInit ==
    /\ wallet = [provisioned |-> FALSE, balance |-> 0, reserved |-> 0]
    /\ entry = [c \in Calls |-> NoEntry]

\* The 'reserved' row of a call, which its terminal row never removes.
HasReservation(c) == entry[c].kind \in {"reserved", "committed", "released"}

Open(c) == IF entry[c].kind = "reserved" THEN entry[c].amount ELSE 0

OpenAmounts == [c \in Calls |-> Open(c)]

Spend(c) ==
    IF c \notin InProgram THEN 0
    ELSE IF entry[c].kind = "committed" THEN entry[c].cost ELSE Open(c)

\* familySpendSQL: a committed call counts its cost, a released one nothing,
\* an open one its estimate.
FamilySpend == Total([c \in Calls |-> Spend(c)])

\* What ReserveWithinProgramCeiling adds to a reservation, under the lock of
\* the wallet.
WithinProgramCeiling(c, est) == c \in InProgram => FamilySpend + est <= Ceiling

ProvisionWalletIfAbsent(b) ==
    /\ ~wallet.provisioned
    /\ wallet' = [provisioned |-> TRUE, balance |-> b, reserved |-> 0]
    /\ UNCHANGED entry

SetBalance(b) ==
    /\ wallet.provisioned => wallet.reserved <= b
    /\ wallet' = [wallet EXCEPT !.provisioned = TRUE, !.balance = b]
    /\ UNCHANGED entry

\* Reserve and ReserveWithinProgramCeiling (calls of InProgram), and
\* ReserveEmbedding.  A second reservation with the same amount succeeds
\* without effect, whatever became of the first.
LedgerReserve(c, est, res) ==
    /\ c \notin SubscriptionCalls
    /\ \/ /\ ~wallet.provisioned
          /\ res = "wallet_not_found"
          /\ UNCHANGED ledgerVars
       \/ /\ wallet.provisioned /\ HasReservation(c)
          /\ res = IF entry[c].amount = est THEN "ok" ELSE "amount_mismatch"
          /\ UNCHANGED ledgerVars
       \/ /\ wallet.provisioned /\ ~HasReservation(c)
          /\ \/ ~WithinProgramCeiling(c, est)
             \/ wallet.balance - wallet.reserved < est
          /\ res = "refused"
          /\ UNCHANGED ledgerVars
       \/ /\ wallet.provisioned /\ ~HasReservation(c)
          /\ WithinProgramCeiling(c, est)
          /\ wallet.balance - wallet.reserved >= est
          /\ res = "ok"
          /\ wallet' = [wallet EXCEPT !.reserved = @ + est]
          /\ entry' = [entry EXCEPT ![c].kind = "reserved", ![c].amount = est]

\* The CHECK constraints of provider_wallets abort a settlement that would
\* leave less on the wallet than is still reserved.
SettlementFits(c, actual) ==
    wallet.reserved - entry[c].amount <= wallet.balance - actual

(* Mutant: the debit leaves the reservation on the wallet. *)
DebitOnly(c, actual, res) ==
    /\ entry[c].kind = "reserved" /\ SettlementFits(c, actual) /\ res = "ok"
    /\ wallet' = [wallet EXCEPT !.balance = @ - actual]
    /\ entry' = [entry EXCEPT ![c].kind = "committed", ![c].cost = actual]

\* Reconcile and ReconcileEmbedding: the actual cost is debited and the
\* reservation closed.  Repeating it changes nothing, and a released call is
\* never debited any more.
LedgerReconcile(c, actual, res) ==
    \/ /\ ~HasReservation(c) /\ res = "not_found"
       /\ UNCHANGED ledgerVars
    \/ /\ entry[c].kind = "released" /\ res = "already_terminal"
       /\ UNCHANGED ledgerVars
    \/ /\ entry[c].kind = "committed" /\ res = "ok"
       /\ UNCHANGED ledgerVars
    \/ /\ entry[c].kind = "reserved" /\ ~SettlementFits(c, actual)
       /\ res = "check_violation"
       /\ UNCHANGED ledgerVars
    \/ /\ entry[c].kind = "reserved" /\ SettlementFits(c, actual)
       /\ res = "ok"
       /\ wallet' = [wallet EXCEPT !.balance = @ - actual,
                                   !.reserved = @ - entry[c].amount]
       /\ entry' = [entry EXCEPT ![c].kind = "committed", ![c].cost = actual]

(* Mutant: a repeated release frees the amount again. *)
ReleaseAgain(c, res) ==
    /\ HasReservation(c) /\ res = "ok"
    /\ wallet' = [wallet EXCEPT !.reserved = @ - entry[c].amount]
    /\ entry' = [entry EXCEPT ![c].kind = "released"]

\* Release and ReleaseEmbedding: the reservation is closed at no cost.
LedgerRelease(c, res) ==
    \/ /\ ~HasReservation(c) /\ res = "not_found"
       /\ UNCHANGED ledgerVars
    \/ /\ entry[c].kind = "committed" /\ res = "already_terminal"
       /\ UNCHANGED ledgerVars
    \/ /\ entry[c].kind = "released" /\ res = "ok"
       /\ UNCHANGED ledgerVars
    \/ /\ entry[c].kind = "reserved" /\ res = "ok"
       /\ wallet' = [wallet EXCEPT !.reserved = @ - entry[c].amount]
       /\ entry' = [entry EXCEPT ![c].kind = "released"]

MarkPendingReconciliation(c, res) ==
    \/ /\ ~HasReservation(c) /\ res = "not_found"
       /\ UNCHANGED ledgerVars
    \/ /\ HasReservation(c) /\ res = "ok"
       /\ entry' = [entry EXCEPT ![c].pending = TRUE]
       /\ UNCHANGED wallet

RecordSubscriptionConsumption(c) ==
    /\ c \in SubscriptionCalls
    /\ entry' = [entry EXCEPT ![c].kind = "subscription"]
    /\ UNCHANGED wallet

Results == {"ok", "refused", "wallet_not_found", "amount_mismatch",
            "not_found", "already_terminal", "check_violation"}

LedgerNext ==
    \/ \E b \in Amounts : ProvisionWalletIfAbsent(b) \/ SetBalance(b)
    \/ \E c \in Calls, res \in Results :
          \/ \E a \in Amounts : LedgerReserve(c, a, res) \/ LedgerReconcile(c, a, res)
          \/ LedgerRelease(c, res)
          \/ MarkPendingReconciliation(c, res)
    \/ \E c \in Calls : RecordSubscriptionConsumption(c)

LedgerSpec == LedgerInit /\ [][LedgerNext]_ledgerVars

(***************************************************************************)
(* Properties.                                                             *)
(***************************************************************************)

(* The reserved column of the wallet is exactly the sum of the reservations *)
(* that were neither committed nor released, and never exceeds the balance: *)
(* no sequence of reservations, retries, settlements and releases, in any   *)
(* order, leaks or frees money twice.                                       *)
ReservedIsOpen ==
    /\ wallet.reserved = Total(OpenAmounts)
    /\ wallet.reserved <= wallet.balance

\* What a call counts against the ceiling it was admitted under: its cost,
\* but never more than the estimate the admission compared.
Admitted(c) ==
    IF c \notin InProgram THEN 0
    ELSE IF entry[c].kind = "committed"
         THEN IF entry[c].cost <= entry[c].amount THEN entry[c].cost ELSE entry[c].amount
         ELSE Open(c)

(* A program's family never holds more than its ceiling: counting every call *)
(* at what it cost, or at its estimate where it cost more, the calls open and *)
(* settled together stay within Family.MaxUSD, however reservations,          *)
(* releases and settlements of several calls interleave.                      *)
ProgramCeilingHeld == Total([c \in Calls |-> Admitted(c)]) <= Ceiling

(* A call that reached its terminal row keeps it: it is never reopened, its  *)
(* cost is never changed, and a committed call is never released, nor a      *)
(* released one committed.                                                   *)
TerminalEntryIsFinal ==
    [][\A c \in Calls : entry[c].kind \in {"committed", "released"}
          => /\ entry'[c].kind = entry[c].kind
             /\ entry'[c].cost = entry[c].cost
             /\ entry'[c].amount = entry[c].amount]_ledgerVars
=============================================================================
