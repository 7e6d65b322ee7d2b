------------------------------ MODULE AgentBudget ------------------------------
(***************************************************************************)
(* The budget tree of an execution (internal/agentbudget), next to the     *)
(* wallet that bills the same calls.  A budget row is named by the task    *)
(* that owns it.  Of its dimensions two behave differently and are kept:   *)
(* "money" (USD; tokens move with it, except that a flat-rate call is      *)
(* charged tokens but no USD), charged with an estimate and trued up       *)
(* afterwards, and "calls" (and, like it, wall time and retries), charged  *)
(* once and never refunded.  Each operation is one transaction that holds  *)
(* the budget row it changes.                                              *)
(***************************************************************************)
EXTENDS CostLedger

CONSTANTS
    Tasks,        \* tasks that may own or share a budget
    TaskOf,       \* the task of each call
    Roots,        \* the tasks CreateRootBudget is asked for
    NoBudget,
    RootLimits,   \* limits CreateRootBudget may be asked for
    Allocations,  \* limits InheritForChild may be asked for
    Depths,       \* depths a child may be created at
    MaxLimit,     \* bound on every limit
    TotalTasks(_) \* the sum of a function from Tasks to limits

Dims == {"money", "calls"}
Limits == [money : 1..MaxLimit, calls : 1..MaxLimit, depth : 1..MaxLimit, subagents : 1..MaxLimit]

\* The sum over tasks, as TotalAssumption states it of the sum over calls.
ASSUME TotalTasksAssumption ==
    /\ TotalTasks([t \in Tasks |-> 0]) = 0
    /\ \A f \in [Tasks -> 0..MaxLimit] :
          /\ TotalTasks(f) \in Nat
          /\ \A t \in Tasks, a \in 0..MaxLimit :
                TotalTasks([f EXCEPT ![t] = a]) = TotalTasks(f) - f[t] + a

ASSUME BudgetAssumption ==
    /\ MaxLimit \in Nat \ {0} /\ MaxAmount \in Nat \ {0}
    /\ TaskOf \in [Calls -> Tasks]
    /\ NoBudget \notin Tasks /\ Roots \subseteq Tasks
    /\ RootLimits \subseteq Limits /\ Allocations \subseteq Limits
    /\ Depths \subseteq Nat \ {0}

VARIABLES budget, attached, inherited, charge
budgetVars == <<budget, attached, inherited, charge>>

NoRow == [max |-> [money |-> 1, calls |-> 1, depth |-> 1, subagents |-> 1],
          used |-> [d \in Dims |-> 0], depth |-> 1, subagents |-> 0,
          parent |-> NoBudget, exists |-> FALSE]

NoCharge == [on |-> NoBudget, state |-> "none", money |-> 0]

BudgetInit ==
    /\ budget = [t \in Tasks |-> NoRow]
    /\ attached = [t \in Tasks |-> NoBudget]
    /\ inherited = {}
    /\ charge = [c \in Calls |-> NoCharge]

BudgetTypeOK ==
    /\ budget \in [Tasks -> [max : Limits, used : [Dims -> Nat], depth : Nat \ {0},
                             subagents : Nat, parent : Tasks \cup {NoBudget},
                             exists : BOOLEAN]]
    /\ attached \in [Tasks -> Tasks \cup {NoBudget}]
    /\ inherited \subseteq Tasks \X Tasks
    /\ charge \in [Calls -> [on : Tasks \cup {NoBudget},
                             state : {"none", "consumed", "settled"}, money : Amounts]]

NewRow(limits, depth, parent) ==
    [NoRow EXCEPT !.max = limits, !.depth = depth, !.parent = parent, !.exists = TRUE]

\* CreateRootBudget; asked again with the same terms it changes nothing, with
\* others it reports a conflict and changes nothing either.
CreateRootBudget(t, limits) ==
    /\ ~budget[t].exists
    /\ budget' = [budget EXCEPT ![t] = NewRow(limits, 1, NoBudget)]
    /\ attached' = [attached EXCEPT ![t] = IF @ = NoBudget THEN t ELSE @]
    /\ UNCHANGED <<inherited, charge>>

\* The row of a parent that gains one subagent at some depth.
WithChild(p, depth) ==
    [budget[p] EXCEPT !.subagents = @ + 1,
                      !.depth = IF depth > @ THEN depth ELSE @]

CanInherit(p, t, depth) ==
    /\ budget[p].exists
    /\ depth <= budget[p].max.depth
    /\ <<p, t>> \notin inherited
    /\ budget[p].subagents + 1 <= budget[p].max.subagents

\* InheritForChild without an allocation: the child shares its parent's row.
InheritShared(p, t, depth) ==
    /\ CanInherit(p, t, depth)
    /\ inherited' = inherited \cup {<<p, t>>}
    /\ budget' = [budget EXCEPT ![p] = WithChild(p, depth)]
    /\ attached' = [attached EXCEPT ![t] = IF @ = NoBudget THEN p ELSE @]
    /\ UNCHANGED charge

\* InheritForChild with an allocation: the parent pays for it in full, up
\* front.  A second row, or a second attachment, of the task is refused by
\* the unique constraints.
InheritAllocated(p, t, depth, limits) ==
    /\ CanInherit(p, t, depth)
    /\ \A d \in Dims : limits[d] <= budget[p].max[d] - budget[p].used[d]
    /\ ~budget[t].exists /\ attached[t] = NoBudget
    /\ depth <= limits.depth
    /\ inherited' = inherited \cup {<<p, t>>}
    /\ budget' = [budget EXCEPT
          ![p] = [WithChild(p, depth) EXCEPT !.used = [d \in Dims |-> @[d] + limits[d]]],
          ![t] = NewRow(limits, depth, p)]
    /\ attached' = [attached EXCEPT ![t] = t]
    /\ UNCHANGED charge

\* ResolveBudgetForTask: calls of a task without a budget are not tracked.
BudgetOf(c) == attached[TaskOf[c]]

(* Mutant: every attempt of a call is charged. *)
ConsumeEveryAttempt(c, est, res) ==
    LET b == BudgetOf(c) IN
    /\ b # NoBudget /\ res = "ok"
    /\ budget[b].used.money + est <= budget[b].max.money
    /\ budget[b].used.calls + 1 <= budget[b].max.calls
    /\ budget' = [budget EXCEPT ![b].used.money = @ + est, ![b].used.calls = @ + 1]
    /\ charge' = [charge EXCEPT ![c] = [on |-> b, state |-> "consumed", money |-> est]]
    /\ UNCHANGED <<attached, inherited>>

\* ConsumeModelCall on the budget of c's task; charged at most once per call.
ConsumeModelCall(c, est, res) ==
    LET b == BudgetOf(c)
        Fits == /\ budget[b].used.money + est <= budget[b].max.money
                /\ budget[b].used.calls + 1 <= budget[b].max.calls
    IN  /\ b # NoBudget
        /\ \/ /\ charge[c].state # "none" /\ res = "ok"
              /\ UNCHANGED budgetVars
           \/ /\ charge[c].state = "none" /\ ~Fits /\ res = "refused"
              /\ UNCHANGED budgetVars
           \/ /\ charge[c].state = "none" /\ Fits /\ res = "ok"
              /\ budget' = [budget EXCEPT ![b].used.money = @ + est, ![b].used.calls = @ + 1]
              /\ charge' = [charge EXCEPT ![c] = [on |-> b, state |-> "consumed", money |-> est]]
              /\ UNCHANGED <<attached, inherited>>

\* SettleModelCall: the charge becomes the actual amount, once; the clamp at
\* zero is kept.  The CHECK used <= max aborts a settlement above the ceiling.
SettleModelCall(c, actual, res) ==
    LET b == charge[c].on
        raw == budget[b].used.money + actual - charge[c].money
        next == IF raw < 0 THEN 0 ELSE raw
    IN  \/ /\ charge[c].state # "consumed" /\ res = "ok"
           /\ UNCHANGED budgetVars
        \/ /\ charge[c].state = "consumed" /\ next > budget[b].max.money
           /\ res = "check_violation"
           /\ UNCHANGED budgetVars
        \/ /\ charge[c].state = "consumed" /\ next <= budget[b].max.money
           /\ res = "ok"
           /\ budget' = [budget EXCEPT ![b].used.money = next]
           /\ charge' = [charge EXCEPT ![c].state = "settled", ![c].money = actual]
           /\ UNCHANGED <<attached, inherited>>

BudgetAdmin ==
    \/ \E t \in Roots, limits \in RootLimits : CreateRootBudget(t, limits)
    \/ \E p \in Tasks : \E t \in Tasks \ {p}, depth \in Depths :
          \/ InheritShared(p, t, depth)
          \/ \E limits \in Allocations : InheritAllocated(p, t, depth, limits)

BudgetNext ==
    \/ BudgetAdmin
    \/ \E c \in Calls, a \in Amounts, res \in Results :
          ConsumeModelCall(c, a, res) \/ SettleModelCall(c, a, res)

BudgetSpec == BudgetInit /\ [][BudgetNext]_budgetVars

(***************************************************************************)
(* Properties.                                                             *)
(***************************************************************************)

\* What the calls charged to b, and the allocations b paid for, add up to.
Charged(b, d) ==
    Total([c \in Calls |-> IF charge[c].on # b THEN 0
                           ELSE IF d = "money" THEN charge[c].money ELSE 1])
Allocated(b, d) ==
    TotalTasks([t \in Tasks |-> IF budget[t].parent = b THEN budget[t].max[d] ELSE 0])

(* The usage of a budget row is exactly what its calls were charged, at the   *)
(* estimate before settlement and at the actual amount after, plus what it    *)
(* handed to its children, and is within its limits: so a whole tree, however *)
(* deep and however its calls interleave, never records more than its root.   *)
(* A call that cost more than is left stays charged at its estimate: what the *)
(* row says is then less than what was spent.                                 *)
BudgetAccounted ==
    \A b \in Tasks, d \in Dims : budget[b].exists =>
        /\ budget[b].used[d] = Charged(b, d) + Allocated(b, d)
        /\ budget[b].used[d] <= budget[b].max[d]
=============================================================================
