CONSTANTS
    d1 = d1
    d2 = d2
    k1 = k1
    k2 = k2
    i1 = i1
    i2 = i2
    a1 = a1
    t1 = t1
    t2 = t2
    NoOne = NoOne
    NoBudget = NoBudget
    Dispatchers = {d1, d2}
    Challengers = {d1, d2}
    Keys = {k1, k2}
    KeyOf <- OneKey
    Assignments = {a1}
    MaxUses = 2
    Invocations = {i1, i2}
    AssignmentOf <- SameAssignment
    MaxAttempts = 2
    GlobalConcurrency = 1
    Calls = {i1, i2}
    SubscriptionCalls = {i2}
    InProgram = {i1}
    Ceiling = 3
    MaxAmount = 3
    Total <- SumOver
    TotalTasks <- SumOver
    Tasks = {t1, t2}
    TaskOf <- ChildTask
    RootLimits <- SmallLimits
    Allocations <- SmallShares
    Depths = {2}
    MaxLimit = 3
    Estimate = 2
    Costs = {3}
    Serves <- OnlyFirstServesAll
    MaxRequests = 1
    Roots = {t1}
    Opening = {3}
    Balances = {1, 2}
    MaxInterventions = 1
SPECIFICATION Spec
INVARIANT SettlementIsApplied
CHECK_DEADLOCK FALSE
