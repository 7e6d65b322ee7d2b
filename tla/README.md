# A TLA+ model of the organization's durable kernel

These modules model three parts of the code under `src/`: the durable task
engine everything else stands on (`internal/tasks`), the path of a paid model
call (`internal/modelruntime`, `modeldispatch`, `modelidentity`, `costledger`,
`agentbudget`), and the path of a change onto the target branch
(`internal/staging`). TLC checks the models on small instances, and TLAPS proves
the central invariants for every value of the constants.

## 1. The system

`orgd`, `orgctl`, the executive orchestrator and the cell workers are separate
processes that share one PostgreSQL database. They coordinate through the rows
of that database, and through the Git repositories on disk.

| Part | State | Operations that change it | What makes it hard |
|---|---|---|---|
| state machine (`domain.go`, `state_machine.go`) | `tasks.status`, reason code | every other part, through `transitionTask` | no terminal task may come back |
| store (`create.go`, `mutate.go`, `requirement_verification.go`) | tasks, requirements, dependencies | create, add dependency or requirement, evidence, verdict, finalize, block, unblock, release hold, cancel | any order of calls of owners, operators and verifier |
| queue (`queue.go`, `specific_claim.go`, `ancestry.go`) | attempts, leases | claim, start, heartbeat, result | workers that are slow, dead or late; ancestors blocked during a claim |
| reconciler (`reconcile.go`) | all of these | expire leases, recover outbox claims, promote or block tasks | runs in several processes, in batches, against everybody else |
| recovery (`redrive.go`) | dead letters | redrive | repeated and chained recoveries |
| outbox (`outbox.go`) | `outbox_events` | append, claim, ack, nack, recover, prune | consumers that crash or answer late |
| authority (`modeldispatch`, `modelidentity`) | principal, keys, assignments, challenges | register, rotate, retire, revoke, expire, use | revoked between two checks of one dispatch |
| invocation store (`modelruntime/postgres`) | invocations, dispatch attempts | create, claim, pre-send, answer, fail, cancel, reconcile | a claim that expires under its holder |
| cost ledger (`costledger`) | wallet, its ledger | provision, set, reserve, commit, release, mark pending | at most once, per invocation, across retries |
| agent budget (`agentbudget`) | a tree of budgets | create, inherit, consume, settle | a share given away while calls are charged |
| dispatch service (`dispatch_service.go`, `costgate`) | none of its own | one long call over the four above and the provider | lost answers, crashes, a deferred release |
| staging store (`staging/postgres`) | workspaces, promotions, reviews, gates | create, activate, seal, fail, clean up, check, request, review, apply, cancel | gates that change after a promotion was requested |
| staging service and reconciler (`staging`, `gitexec`) | worktrees, artifacts, the target ref | the same calls, each several transactions and Git commands | a ref and a row cannot change together |

Every operation of the task store is one transaction at READ COMMITTED (`withTx`) that first
locks the row it decides about (`lockTask`, `FOR UPDATE`), and `transitionTask`
also compares the row's version. An operation on one task is therefore one
atomic action. Three operations are not covered by a single row lock, and they
have modules in which each statement is a step of its own:

* `AddDependency` decides about the whole graph and locks two rows;
* `Claim` selects from a snapshot, locks candidates and then ancestors;
* `Reconcile` works through a batch, and what it selects depends on an order.

The operations of the other stores are transactions that lock the wallet, the
budget row, the invocation (an advisory lock) or the workspace and its task
first. They are atomic actions too. What happens between two of them is the
subject of `Dispatch` and `Staging`, where a call is a process.

The other packages (executive, messaging, authorization, decision graph, memory,
search, ...) are listed in `PROJECT.json` with the reason each of them is not
modelled yet. Section 8 gives the order in which they follow.

## 2. Modules

| Module | Models |
|---|---|
| `TaskStates` | statuses, `allowedTransitions`, the status classes of the guards, reason codes |
| `DependencyGraph` | the recursive cycle query of `AddDependency`, as a least closed set |
| `TaskEngine` | every operation of the task store, atomically |
| `ReconcilerPass` | `TaskEngine` with the readiness pass as it runs: select a batch, work through it, select again |
| `AddDependencyRace` | `AddDependency` statement by statement, with row locks and deadlock aborts |
| `ClaimAncestors` | `Claim` and `ClaimSpecific` row lock by row lock, against owners |
| `Outbox` | the outbox |
| `CostLedger` | the wallet of a provider and its ledger; `LedgerSpec` is what it promises |
| `AgentBudget` | the budget tree, next to the wallet; `BudgetSpec` |
| `ExecutionAuthority` | principal, identity keys and dispatcher assignments |
| `ModelInvocation` | invocations and dispatch attempts on top of the authority; `InvocationSpec` |
| `Dispatch` | `DispatchService.Dispatch` run by several processes over all of these |
| `StagingStore` | workspaces, promotions, reviews and gates; `StoreSpec` |
| `Staging` | callers of `staging.Service`, the reconciler, worktrees, artifacts and the ref, over `StagingStore` |
| `DependencyGraphProofs` | theorems about the cycle query |
| `TaskEngineProofs` | theorems: types, leases and dependencies of `TaskEngine` |
| `TaskHistoryProofs` | theorems: attempts, ends, recoveries and holds of a task over time |
| `RowLockProofs` | theorems about `ClaimAncestors`, `AddDependencyRace` and `Outbox` |
| `CostProofs` | theorems about `CostLedger` and `AgentBudget` |
| `DispatchProofs` | theorems about `ModelInvocation`; `Dispatch` implements its components |
| `DispatchCallProofs` | theorems about `Dispatch`: types, one call, no debit without an answer |
| `StagingProofs` | theorems about `StagingStore` and `Staging` |
| `MC*` | constants for TLC |

### TaskEngine

The variables are columns: `status`, `reason`, `deps`, `req`, `attemptCount`,
`attempt`, `lease`, `deadLetters`, `successor`. Attempts and leases are indexed
by the attempt's ordinal. Two variables stand for time:

* `ttl[t]` is what is left of the active lease. `LeaseTick` lowers it and
  `Heartbeat` sets it again. It is overdue at 0.
* `due[t]` says `available_at <= now`. A retry makes it false, and `BecomesDue`
  makes it true at some later moment.

Each task's time passes on its own, so every order of expiries is explored and
no delay is assumed. The length of a backoff does not matter to any property.

A lease token is random and is checked against the lease row of one attempt, so
a call with a token is a call with that attempt's ordinal. The ordinal ranges
over all attempts, which includes calls of workers that lost their lease long
ago. `worker_id` is not modelled separately: a token's holder is its worker.

Actions have the names of the store's methods. `Claim` is the per-task body
shared by `Store.Claim` and `Store.ClaimSpecific`. The answers of the assignee
catalog and of the capacity check come from outside and are nondeterministic.
Calls that return an error change nothing and are not steps.

Left out of the state: titles and texts, priorities, evidence bodies, event and
audit rows, versions (under the row lock the comparison always succeeds), the
organization a task belongs to, and requirements that are not required.
`Required` are the requirements a task can be created with; others come by
`AddRequirement`. The
bound `maxAncestorDepth` (64) on the ancestors a claim looks at is left out: the
trees of the instances are shallower, and no theorem about `TaskEngine` depends
on them.

### ReconcilerPass

`queue` is the order of `available_at` among due tasks, and `selected` are the
rows the running pass holds locked. `SelectBatch` is the query with its `LIMIT`,
and `ExamineNext` is the body of its loop for one row, including the rows the
loop leaves unchanged. Operations on a locked row wait. Operations on other rows
interleave. The pass commits row by row in the model; other operations see a
row's new state only once its lock is gone, as in the code, but may see the
first rows of a pass before its last.

### AddDependencyRace and ClaimAncestors

A transaction has a program counter, a row lock has a holder (`FOR UPDATE`) or
sharers (`FOR SHARE`), writes are visible to others from the commit on, and a
statement reads what was committed when it runs. PostgreSQL itself is external
to the repository: `AbortDeadlock` ends a transaction that is part of a cycle of
waits, and `SKIP LOCKED` passes over a row that is held.

In `ClaimAncestors` an owner is a `BlockTask`, `UnblockTask` or `CancelTask`
transaction. The order in which a claim takes its candidates is left open, which
covers every priority. Ancestors are what the recursive query over `causation_id`
finds. The query stops at `maxAncestorDepth` (64), so ancestors further up do not
block; `DepthAssumption` says there are none, and the theorems rest on it too.
A claim may fail at any query or check (`FailClaim`) and rolls everything back.
`AddDependency` may be refused at any check (`Refuse`). Both are steps a
transaction may take, and neither is a way out the liveness properties count on.

### Outbox

`attempts[e]` names the current claim, so a token is an ordinal again. `live`
says the claim has not expired, `age` has the two thresholds `PruneOutbox` knows
(24 hours, 30 days), and `delivered` records which claims' consumers have handed
the event on. Consumers are external: they hand an event on before they
acknowledge it, possibly late, possibly never.

### CostLedger and AgentBudget

`wallet` is the row of `provider_wallets`. `entry[c]` stands for the rows of
`provider_wallet_events` of call `c`; unique indexes allow one reservation and
one terminal row each. An embedding call is a call like any other. An operation
has a result parameter (`"ok"`, `"mismatch"`, ...), so that `Dispatch` branches
as its caller does. CHECK constraints of the migrations are guards: an update
that would break one aborts its transaction.

`budget[t]` is the row task `t` owns, `attached[t]` the row it is charged to, and
`charge[c]` the rows of `agent_budget_events` of call `c`. Two dimensions are
kept: `money`, which is trued up after the call, and `calls`, which is not. Sums
are constants (`Total`, `TotalTasks`) with the three facts the proofs need as
assumptions; `MCDispatch` gives them their definition and TLC evaluates the
assumptions on it.

### ExecutionAuthority, ModelInvocation and Dispatch

`inv[i]` is the row of an invocation, `att[i][n]` the status of attempt `n`. A
claim token is random and belongs to one attempt, so it is the ordinal.
`ClaimExpires` stands for the claim's deadline and for the time limit of a sent
call; both are only ever looked at by `Claimable` and `Reconcile`.

In `Dispatch`, `proc[d]` is where a process is in `Dispatch`, with its invocation
and its attempt. Steps are the calls it makes. Every call of a store has three
outcomes: done, failed without effect, and done with the acknowledgement lost
(`StoreCall`). `Crash` ends a process anywhere and skips the deferred release;
an ordinary error return does not. The provider is external: it gets the call or
not, answers or not (`calls`, `answered`). `SetUp` and `Request` build the rows a
dispatch needs, in any order; `Intervene` is what an operator may do meanwhile.

Left out: rendering, egress evaluation (allow, deny or error, chosen freely),
signatures, telemetry, and the branches that only end rows older than the
policies they should be pinned to.

### StagingStore and Staging

An attempt of a task is named by the workspace it may have, and a commit by the
workspace whose candidate it is. `requirement` has one required row for each of
the three gates. The task engine changes the same rows (`StartAttempt`,
`EndAttempt`, `Block`, `Finalize`, `RecordRequirementVerification`), so those
transactions are actions here too, cut down to what staging sees of them: the
status `ready` stands for every status from which an attempt can still start.

`Staging` adds the disk: `history` is everything the target ref has pointed at,
`tree` the worktrees, `stored` the artifacts. `proc[c]` is a call in progress and
`rec` the pass of the reconciler with the rows it has listed. A caller may stop
after any step; the file system may lose a worktree; somebody else may push.
`git update-ref` with its expected old value is the one atomic step on the ref.
What a pass has listed may be stale when it gets to it, as in the code.

The queries of the reconciler are ordered and limited. `order` is the order of
`updated_at` among the rows `ListStaleWorkspaces` asks for (`Touch` moves a row
that was written to the end), and `Batch` the limit. `Others` are workspaces of
which only the place in that order matters. A worktree is `partial` while a
stopped `git worktree add` has left a directory that is no worktree yet. A
pass ends early when a query fails (`AbortPass`), and passes over an item whose
inspection fails (`SkipItem`); `MaxFaults` bounds the failures that are not
caused by the state.

## 3. Runs

| Run | Instance | Shows |
|---|---|---|
| `task_graph` | 3 tasks, every edge, 1 attempt, blocks by operators and with the hold's code | leases and attempts agree (`LeaseCoherent`), nothing starts before its dependencies (`StartsAfterDependencies`), the graph stays acyclic, a task that gets a turn has an attempt for it (`TurnHasAttempt`), dead letters and their successors are consistent and bounded, terminal tasks stay terminal, held tasks stay held (`HoldIsABarrier`) |
| `reconciler_progress` | 2 tasks, one the parent of the other, one possible edge, 2 attempts, 1 requirement, batch 2 | attempts are never rewritten (`AttemptsContiguous`, `ClosedAttemptIsFinal`), completed tasks have their requirements satisfied (`CompletedIsSatisfied`), and overdue leases, retries, promotions and failed dependencies are all dealt with in the end |
| `reconciler_starved` | the same, batch 1 | a violation, see section 4 |
| `edges_sharing_a_task` | 3 tasks, 2 concurrent calls | calls that share a task are serialised, no cycle is committed, every call returns |
| `edges_disjoint` | 4 tasks, 2 concurrent calls | a violation, see section 4 |
| `claims` | a chain of 3 tasks, 2 single claims, 1 claim of up to 2 tasks, 1 owner | no claim commits under a blocked ancestor (`NoClaimUnderBlockedAncestor`), statuses change by the transition table alone, single claims and owners do not deadlock among themselves (`ClaimsNeverDeadlock`), every transaction ends, deadlocked or not |
| `outbox` | 2 events, 3 claims each | claims are bounded, fenced and always end; pruning loses nothing fresh |
| `dispatch` | 2 dispatchers, 1 request out of a metered and a flat-rate invocation, 2 attempts, a root budget and a child | one call per invocation (`OneCallPerInvocation`), attempts and invocation agree, wallet and budgets account for what is open and charged, no debit without an answer (`NoPhantomDebit`), every claim is resolved (`InFlightResolves`) |
| `dispatch_released` | the same | a violation, see section 4 |
| `dispatch_settlement` | the same | a violation, see section 4 |
| `staging` | 1 workspace, another one in the order, batch 1, 1 promotion, 2 callers, 1 push, 1 fault | approved promotions rest on their gates (`ApprovedIsBacked`), no candidate is on the target without a record that leads there (`TargetMatchesRecords`), no promotion drops a commit (`NothingPromotedIsLost`), a half-built or lost workspace the batch reaches is resolved (`GhostWorkspaceResolves`) |
| `staging_interrupted` | 1 workspace, 1 promotion, 1 caller | a violation, see section 4 |

### Why the bounds are enough

* Two attempts are one retry and one last attempt: both sides of
  `attempt_count >= max_attempts`. A lease of one tick has a heartbeat before
  and after its last moment.
* Tasks meet through dependencies, ancestors, redrives and the batch, and each of
  those has an instance with several tasks. Three tasks hold an indirect cycle, a
  dependency that fails behind another one, and a task recovered while its
  dependents wait.
* The cycle in `edges_disjoint` needs four tasks, because two calls that share a
  task are serialised. So three tasks show that sharing is safe and four show
  that it is needed.
* `claims`: three levels show that an ancestor that is not a parent counts. One
  claim of two tasks beside two single ones is enough for a circle of waits: it
  holds a row as a candidate and asks for an ancestor another claim holds.
* `dispatch`: the second dispatcher is the one that overtakes or is overtaken, and
  the second attempt is the one after a reconciliation. One request at a time is
  enough, because invocations meet only in the wallet and the budgets, where the
  proofs cover any number. The estimate is 2 and the cost 3, with budgets of 1
  and 2 and a wallet that may be lowered to 1 or 2: every refusal and a
  settlement above the limit happen.
* `staging`: two callers are two applications of one promotion, or one and a
  cleanup. The push gives the ref somewhere else to be. With a batch of one,
  the other row of the order takes the only place of a pass or leaves it. Two
  workspaces on one target are covered by the proofs, which hold for any number.
* `task_graph` and `edges_disjoint` use symmetry of the tasks. They check no
  liveness property. Runs with liveness use no symmetry.
* `CHECK_DEADLOCK FALSE` stands where the system may really stop: all tasks
  ended, all transactions done, all events pruned. `AddDependencyRace` can always
  begin a call, so deadlock is checked there.

### Fairness

* `ReconcilerPass` and `Outbox`: weak fairness of the reconciler and of time.
  `orgd` runs `Reconcile` on a ticker (`App.runTaskReconciler`) that survives
  errors, and the orchestrator and `orgctl` run it too. Nothing is assumed of workers, owners, consumers or operators. A worker
  that dies is a worker that takes no step.
* `AddDependencyRace`: strong fairness of each call's statements (`Proceed`),
  because a waiting statement is queued in the database and gets the row in its
  turn. A refusal is not among them: a call that waited for ever for a row could
  otherwise be said to return because it may be refused.
* `ClaimAncestors`: weak fairness of each transaction's statements and of the
  deadlock detection of the database, not of errors. Every transaction runs
  once, so a row that is asked for becomes free for good.
* `Dispatch`: weak fairness of time (`Expire`) and of the reconciler
  (`ReconcileAttempt`), for each invocation. `executive.Worker` and the driver
  call `Reconcile` in a loop. Nothing is assumed of dispatchers, so
  `InFlightResolves` holds when all of them have crashed.
* `Staging`: weak fairness of the reconciler, which `App.runStagingReconciler`
  runs on a ticker, and strong fairness of listing each workspace that is within
  the first `Batch` of the order again and again, which is what the passage of
  time amounts to. Faults end (`MaxFaults`): a pass that always ran into its
  timeout would recover nothing. Nothing is assumed of callers.

## 4. Findings

**Two concurrent `AddDependency` calls can commit a cycle** (`edges_disjoint`).
With `b -> a` and `d -> c` committed, one call adds `a -> d` and another adds
`c -> b`. They lock disjoint rows, neither cycle query sees the other's
uncommitted edge, and both commit. All four tasks then wait for each other and
the reconciler cannot tell. `INTEGRATION.md` of branch 04 (line 17) calls
`task_dependencies` an acyclic graph. A lock per organization, or SERIALIZABLE
isolation of this one transaction, would restore the property.

**A full batch of waiting tasks can starve the task they wait for**
(`reconciler_starved`). The readiness query orders by `available_at`, and rows the
pass leaves unchanged keep their place. A task that fails and retries gets a
later `available_at` than the tasks that wait for it. With as many of these as
the batch holds (100 by default), every pass selects them, changes nothing, and
never sees the retry. Tasks blocked as `dependency_terminal` fill the batch in the
same way, and they never leave it by themselves. `Store.Claim` guards against this very effect for tasks
under a blocked ancestor (the comment at `queue.go:32`). `INTEGRATION.md` line 70
says the reconciler promotes eligible `retry_wait` tasks.

**The reservation of an answered call can be released** (`dispatch_released`). A
provider answers with an error, and storing that (`RejectProviderResponse`, or
later `FailAfterResponse`) fails, for instance because its context ran out.
`Dispatch` returns, and its deferred release books the call as free although
the provider may bill it. A cancellation noticed in the answer ends the same way.
The comments at `dispatch_service.go:736` and `:858` say that the reservation of
a call the provider is known to have processed must be left in place. The
neighbouring branches clear the release first; these do not.

**The true cost of a call is not always booked** (`dispatch_settlement`). A call
costs more than its estimate, and its budget has no room for the difference. The
CHECK `used_usd_nanos <= max_usd_nanos` aborts `SettleModelCall`, and the call
stays charged at its estimate. The comment at `agentbudget/postgres/store.go:266`
says that such a settlement is still applied, since the spend is real. So
`BudgetAccounted`, which says that the rows of a tree never record more than its
root allows, says nothing about what the calls cost.

**A promotion on the target can stay `approved` for ever** (`staging_interrupted`).
A caller moves the ref and stops before it records so, and the task is finalized
or blocked meanwhile. `GetPromotionApplyContext` wants the task in
`awaiting_verification`, so a retry fails, and `ListRecoverablePromotions` passes
the error on, so every later pass of the reconciler ends there too, before it
gets to other promotions and cleanups. `INTEGRATION.md` of branch 05 (line 179)
says that a retry or the reconciler sees the target at the candidate and records
`applied` once.

Observed, without a run of their own:

* A promotion interrupted after `update-ref` is recorded as conflicted, not as
  applied, if the ref has moved on before the next pass (`staging/reconcile.go:98`).
* `ListStaleWorkspaces` returns the rows that were updated longest ago, and an
  active workspace with its directory keeps its place. As many of them as the
  batch holds keep all later rows out of every pass. `GhostWorkspaceResolves`
  promises nothing for those.
* A directory that `git worktree add` left half-written cannot be inspected, and
  its row stays as it is. `GhostWorkspaceResolves` excepts it.
* A task blocked by hand with the reason code of a coordination hold, and
  released, may be ready without an attempt left. `TurnHasAttempt` excepts this
  step.

Observed, not a violation of anything the repository promises: claims with a
batch size above 1 can deadlock when one of them holds a parent as a candidate
and shares the other's parent. PostgreSQL aborts one of them, and
`EveryTransactionEnds` shows that the rest go on.

## 5. Theorems

All proofs are in the modules named `*Proofs`. They hold for every value of the
constants, under the named assumptions of the module that declares them: sets
are finite where something is counted, model values that mean "none" are not
members, bounds are positive, and sums are sums.

### Task engine

* `AddEdgeKeepsAcyclic`, `NewTaskKeepsAcyclic`. The cycle query is exact.
  `Reachable` is an intersection of closed sets, so the argument is by closed
  sets: the nodes that reach nothing new form a set that the added edge leaves
  closed.
* `TypeCorrect`: `Spec => []TypeOK`.
* `LeasesAreCoherent`, `AttemptsAreContiguous`: `Spec => []LeaseCoherent` and
  `Spec => []AttemptsContiguous`. Neither property is inductive alone: that a new
  claim finds no second active lease needs the attempts, and that a closed
  attempt stays closed needs the leases. Their conjunction, `LeaseInv`, is
  inductive under `TypeOK`. The actions fall into five kinds of step (leases
  untouched, opened, started, closed, revoked), each with a lemma of its own.
* `DependenciesAreRespected`, `DependenciesStayAcyclic`:
  `Spec => []StartsAfterDependencies` and `Spec => []DependenciesAcyclic`. The
  inductive invariant `GraphInv` adds that an absent task has no dependencies and
  that nothing depends on it. A status change is safe if it starts a task only
  when all its dependencies are completed and never leaves `completed`.

`DependenciesAcyclic` is a theorem about operations that do not overlap. The
first finding shows what happens when they do.

The theorems of `TaskHistoryProofs` rest on one lemma, `NextRow`: every step
leaves all tasks but one untouched, and creates that one, leaves its status
alone, moves it along the transition table, claims it, or sends it to the dead
letters. What an action is called no longer matters after it.

* `TurnsHaveAttempts`: `Spec => TurnHasAttempt`, for any reason codes callers may
  block with. The invariant it needs is small: a task not yet created has no
  attempts, and an attempt is counted by the claim alone.
* `CompletedTasksAreSatisfied`, `DeadLettersAreCoherent`:
  `Spec => []CompletedIsSatisfied` and `Spec => []DeadLettersCoherent`.
* `EndedTasksStayEnded`: `Spec => TerminalIsFinal`.
* `RecoveriesAreBounded`: `Spec => []RecoveryChainBounded`. A redrive adds one
  task to the end of one chain, and the tasks before it are the old ones and the
  task redriven, so the cardinality grows by one at most; `Redrive` has compared
  it with the limit.
* `ClosedAttemptsStayClosed`: `Spec => ClosedAttemptIsFinal`. A step touches one
  attempt's lease, and only one that is active, or the next unused one.
* `HoldsAreBarriers`: `Spec => HoldIsABarrier`.

### Row locks

* `NoClaimBeginsUnderABlock` and `StatusesChangeLegally`:
  `Spec => NoClaimUnderBlockedAncestor` and `Spec => OnlyLegalTransitions` of
  `ClaimAncestors`, for any forest of tasks, any claims and owners and any batch
  size. The inductive invariant `ClaimInv` says what a transaction may rely on at
  each statement (`ClaimKnows`, `OwnerKnows`): the candidates of a claim are held
  and still ready, the ancestors it has seen are shared, and a lease it has
  written lies under shared ancestors none of which blocks. `OthersKnow` is the
  heart: a commit changes only rows its transaction holds, so it cannot disturb
  what another one knows of the rows that one holds or shares.
* `SingleClaimsNeverDeadlock`: `Spec => []ClaimsNeverDeadlock`: transactions of
  one task each, claims or owners, form no circle of waits among themselves,
  whatever batches run beside them. An owner waits with nothing held, so nobody
  waits for it meanwhile; a single claim waits only for an ancestor of its
  candidate, and ancestors do not run in circles. With batches in the circle it
  can close (section 4).
* `OverlappingEdgesAreSerialised`: `Spec => []OverlappingEdgesSerialised` of
  `AddDependencyRace`. The invariant `EdgeInv` says that both rows of an edge are
  held from before the cycle query to the commit.
* `OneDecisionKeepsAcyclic`: as long as no two callers are between cycle query
  and commit at once, the committed graph is acyclic.
  `OnlyDisjointEdgesCloseCycles` needs less, because the row locks exclude the
  other overlaps: it is enough that no two calls with four different tasks are
  there at once. So the overlap the first finding shows is the only way to a
  cycle, and a lock that excludes it is enough.
* `EventAttemptsAccounted`, `EventsPublishedByLatestClaim`,
  `PruningLosesNothingFresh`: the three invariants of `Outbox`. They are proved
  together with the types: `ClaimOutbox` does not compare `attempt_count` with
  `max_attempts`, so that a claim stays within them needs that a pending event
  has an attempt left.

The three specifications share no state; their names are kept apart
(`EdgeSpec`, `OutboxSpec`) so that one module can extend them all.

### Model calls

* `WalletAccountsForReservations`, `ProgramStaysWithinCeiling`,
  `SettlementIsFinal` (of `LedgerSpec`). The invariant `LedgerInv` is typing,
  `ReservedIsOpen` and the ceiling together: a debit stays above zero because the
  reserved column covers it.
* `BudgetsAccountForCalls` (of `BudgetSpec`). `BudgetInv` adds that a charge
  names a row that exists and that a child's parent does.
* `AttemptsMirror`, `EndedInvocationIsFinal`, `ConcurrencyStaysLimited` (of
  `InvocationSpec`). Several operations of the store look at one of the two rows
  only; that the attempts in use are the first ones and that only the last one
  may be in flight makes this enough.
* `DispatchImplementsStore`, `DispatchImplementsLedger`,
  `DispatchImplementsBudget`: the whole system implements each component's
  specification, by the identity on its variables. A step of a dispatcher is a
  step of at most one of them. `DispatchKeepsTheBooks` carries the components'
  invariants over.
* `ProviderCalledAtMostOnce`. The inductive invariant `CallInv` says which
  program counters, attempt statuses and counts of calls go together; the heart
  is that `send_started` is written once, and that the process that wrote it is
  the only one to call.
* `DebitedOnlyWhenAnswered`, from an invariant of the same kind.
* `DispatchTypeCorrect`: `Spec => []TypeOK` of the composition. The ranges of the
  accounts come from the components' invariants through the refinements.

### Staging

* `ApprovalRestsOnItsGates` (of `StoreSpec`). `StoreInv` adds that promotions
  belong to workspaces that exist, and that reviews are by somebody else.
* `StagingImplementsStore`: callers, reconciler and crashes do to the rows only
  what `StoreSpec` allows. `StagingApprovalRestsOnItsGates` follows.
* `TargetAndRecordsAgree`, `PromotionsExtendTheTarget`: `Spec => []` of
  `TargetMatchesRecords` and of `NothingPromotedIsLost`. The inductive invariant
  adds what a caller and the reconciler know at each program counter
  (`CallerKnows`, `ReconcilerKnows`): what they read before and still hold true
  when they use it. `update-ref` compares, so the comparison before it may be
  stale.

### Checked by TLC only

* The liveness properties (`EveryCallReturns`, `EveryTransactionEnds`,
  `EveryClaimEnds`, the four of `ReconcilerPass`, `InFlightResolves`,
  `GhostWorkspaceResolves`): they need fairness and
  `ENABLED`, which are out of the prover's reach.
* `ReconcilerPass`, whose properties are all of that kind.
* `CommittedAcyclic` without the hypotheses above is false, so there is nothing
  to prove.

A leaf names `Zenon` where first-order reasoning is enough, which keeps the load
on the SMT translation small, and asks for more time where the context is large
(`SMTT`).

## 6. Hazards

`PROJECT.json` lists, at the line where it bites, each thing that can go wrong
here and that a test would hardly reach, with the properties that would notice.
Those without a property have a note. The most interesting open ones are the
lock order of the reconciler (lease, then task) against heartbeats (task, then
lease), the single transaction that holds all of a reconciler pass, and a parent
that is made to depend on its own child.

## 7. Not modelled

Retry delays (times are abstract), event and audit rows (insert-only, in the
same transaction as the change they describe), read queries, validation of
inputs, and the packages named in section 1. Of those, the executive decides
when a held child is released, which graphs are built and which invocations are
requested. Until it is modelled, `TaskEngine` and `Dispatch` let any caller do
anything at any time, which is more than the callers do.

Of model calls: which route, price and egress decision a call gets is a function
of configuration, and its answer is an input here. The branches that end
invocations from before the identity and egress policies are left out.

Of staging: contents of files, patches and manifests, and the limits on their
size. That an artifact is intact when it is read is a choice of the model.

Most of the repository by lines is not modelled: it is pipelines, adapters,
evaluation fixtures and command-line code, whose state is rows written once.

## 8. Plan

1. Row-level reconciler: lease and task locks in both orders, passes that abort.
2. `AgentMessaging`: the inbox, as a refinement of the queue it shares with the
   outbox.
3. `Authorization`: approvals, single use, expiry.
4. `DecisionGraph` and `Completion`: runs, nodes, terminal decisions; the
   verifier as a pure operator against a reference definition.
5. `CellWorker` and the circuit breaker: a worker that restarts around `Dispatch`.
6. `Executive` composed with `TaskEngine`: coordinated children, recovery.
7. `StagingStore` composed with `TaskEngine`, instead of the five transactions
   that stand for it.
8. Proofs: `ClaimAncestors` as a refinement of an atomic claim.
