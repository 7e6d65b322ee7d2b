----------------------------- MODULE MCDispatch -----------------------------
(***************************************************************************)
(* Dispatch with the sums it is parameterised by.                          *)
(***************************************************************************)
EXTENDS Dispatch, FiniteSetsExt, TLC

CONSTANTS d1, d2, k1, k2, i1, i2, a1, t1, t2

\* The sum of a function over its domain.
SumOver(f) == FoldSet(LAMBDA x, acc : f[x] + acc, 0, DOMAIN f)

OneKey == [d \in Dispatchers |-> k1]
OnlyFirstServesAll == [d \in Dispatchers |-> IF d = d1 THEN Invocations ELSE {i1}]
SameAssignment == [i \in Invocations |-> a1]
ChildTask == [c \in Calls |-> t2]

SmallLimits == {[money |-> 3, calls |-> 2, depth |-> 2, subagents |-> 1]}

\* Too little for one estimate, and enough for it but not for its true cost.
SmallShares == {[money |-> m, calls |-> 1, depth |-> 2, subagents |-> 1] : m \in {1, 2}}

(* A settlement above a ceiling is still applied: wherever a dispatcher is    *)
(* about to correct a charge to what the call cost, the row takes the amount. *)
(* It is what the comment of SettleModelCall promises; the CHECK on the row   *)
(* refuses the update, so the charge keeps its estimate.                      *)
SettlementIsApplied ==
    \A d \in Dispatchers : At(d, "true_up") \/ At(d, "true_up_end") =>
        ~ENABLED SettleModelCall(proc[d].i, entry[proc[d].i].cost, "check_violation")
=============================================================================
