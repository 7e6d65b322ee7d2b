--------------------------- MODULE ClaimAncestors ---------------------------
(***************************************************************************)
(* The locks behind a claim.  Claim reads its candidates from a snapshot,  *)
(* locks those it can FOR UPDATE SKIP LOCKED, and decides each one after   *)
(* locking its ancestors FOR SHARE, in order of id.  Owners block, unblock *)
(* and cancel ancestors meanwhile, each under FOR UPDATE on one row.       *)
(* Nothing a transaction writes is seen by others before it commits.       *)
(* ClaimSpecific is the same protocol with a batch of one; claims of both  *)
(* kinds run side by side.                                                 *)
(***************************************************************************)
EXTENDS TaskStates, DependencyGraph, FiniteSets, FiniteSetsExt

CONSTANTS
  None,
  Parent,      \* causation parent of each task, or None
  Id,          \* tasks.id
  NonScoping,  \* tasks of a class that does not scope its descendants
  Claims,      \* transactions of Claim or ClaimSpecific
  Owners,      \* transactions of BlockTask, UnblockTask and CancelTask
  BatchSize,   \* ClaimRequest.BatchSize of each claim
  InitStatus   \* statuses a task may be in at the start

(* The parent by causation, as edges. *)
Causation == [t \in Tasks |-> {Parent[t]} \ {None}]

(* A task is caused by one that exists already, so the chain has an end;   *)
(* the code calls a cycle corrupt.                                         *)
ASSUME ParentAssumption ==
  Parent \in [Tasks -> Tasks \cup {None}] /\ None \notin Tasks /\ Acyclic(Causation)

maxAncestorDepth == 64

(* The code stops following a chain at that depth ("real trees are three   *)
(* or four levels deep"): what lies beyond it does not block.              *)
ASSUME DepthAssumption == \A t \in Tasks : Cardinality(Reachable(Causation, t)) <= maxAncestorDepth
ASSUME TasksAssumption == IsFiniteSet(Tasks)
ASSUME IdAssumption == Id \in [Tasks -> Nat]
ASSUME TransactionsAssumption == Claims \cap Owners = {} /\ None \notin Claims \cup Owners
ASSUME BatchSizeAssumption == BatchSize \in [Claims -> Nat \ {0}]
ASSUME InitStatusAssumption == InitStatus \in [Tasks -> SUBSET NonTerminal]

Transactions == Claims \cup Owners

VARIABLES
  status,   \* tasks.status, committed
  holder,   \* transaction holding FOR UPDATE on each row
  sharers,  \* transactions holding FOR SHARE on each row
  pc,       \* where each transaction is
  todo,     \* candidates of a claim not decided yet; the target of an owner
  current,  \* candidate a claim is deciding
  wanted,   \* its ancestors not locked yet
  written   \* statuses written and not committed: a set of <<task, status>>

vars == <<status, holder, sharers, pc, todo, current, wanted, written>>

Init ==
  /\ status \in {f \in [Tasks -> NonTerminal] : \A t \in Tasks : f[t] \in InitStatus[t]}
  /\ holder = [t \in Tasks |-> None]
  /\ sharers = [t \in Tasks |-> {}]
  /\ pc = [x \in Transactions |-> "begin"]
  /\ todo = [x \in Transactions |-> {}]
  /\ current = [x \in Claims |-> None]
  /\ wanted = [x \in Claims |-> {}]
  /\ written = [x \in Transactions |-> {}]

(* What the recursive query over causation_id computes. *)
Ancestors == [t \in Tasks |-> Reachable(Causation, t)]

(* The row as transaction x reads it: its own writes, else the committed.  *)
Read(x, t) ==
  IF \E w \in written[x] : w[1] = t THEN (CHOOSE w \in written[x] : w[1] = t)[2] ELSE status[t]

blockingAncestor(x, t) ==
  \E a \in Ancestors[t] \ NonScoping : Read(x, a) \in BlocksDescendantClaim

MayLock(x, t) == holder[t] \in {None, x} /\ sharers[t] \subseteq {x}
MayShare(x, t) == holder[t] \in {None, x}

EndTransaction(x) ==
  /\ holder' = [t \in Tasks |-> IF holder[t] = x THEN None ELSE holder[t]]
  /\ sharers' = [t \in Tasks |-> sharers[t] \ {x}]
  /\ pc' = [pc EXCEPT ![x] = "end"]
  /\ todo' = [todo EXCEPT ![x] = {}]
  /\ written' = [written EXCEPT ![x] = {}]
  /\ IF x \in Claims
       THEN current' = [current EXCEPT ![x] = None] /\ wanted' = [wanted EXCEPT ![x] = {}]
       ELSE UNCHANGED <<current, wanted>>

Commit(x) ==
  /\ status' = [t \in Tasks |-> Read(x, t)]
  /\ EndTransaction(x)

Abort(x) == EndTransaction(x) /\ UNCHANGED status

-----------------------------------------------------------------------------
(* Claim.  The query reads its snapshot, then locks row by row. *)

SelectCandidates(x) ==
  /\ pc[x] = "begin"
  /\ todo' = [todo EXCEPT ![x] = {t \in Tasks : status[t] = "ready" /\ ~blockingAncestor(x, t)}]
  /\ pc' = [pc EXCEPT ![x] = "lock"]
  /\ UNCHANGED <<status, holder, sharers, current, wanted, written>>

(* Mutant: the candidates of the snapshot are taken without locking them. *)
TakeSnapshot(x) ==
  /\ pc[x] = "lock"
  /\ pc' = [pc EXCEPT ![x] = "decide"]
  /\ UNCHANGED <<status, holder, sharers, todo, current, wanted, written>>

(* Mutant: no LIMIT. *)
LockEveryCandidate(x) ==
  /\ pc[x] = "lock"
  /\ LET free == {t \in todo[x] : status[t] = "ready" /\ MayLock(x, t)}
     IN /\ holder' = [t \in Tasks |-> IF t \in free THEN x ELSE holder[t]]
        /\ todo' = [todo EXCEPT ![x] = free]
  /\ pc' = [pc EXCEPT ![x] = "decide"]
  /\ UNCHANGED <<status, sharers, current, wanted, written>>

LockCandidates(x) ==
  /\ pc[x] = "lock"
  /\ LET free == {t \in todo[x] : status[t] = "ready" /\ MayLock(x, t)}
     IN \E batch \in kSubset(Min({BatchSize[x], Cardinality(free)}), free) :
          /\ holder' = [t \in Tasks |-> IF t \in batch THEN x ELSE holder[t]]
          /\ todo' = [todo EXCEPT ![x] = batch]
  /\ pc' = [pc EXCEPT ![x] = "decide"]
  /\ UNCHANGED <<status, sharers, current, wanted, written>>

TakeCandidate(x) ==
  /\ pc[x] = "decide" /\ current[x] = None
  /\ \E t \in todo[x] :
       /\ current' = [current EXCEPT ![x] = t]
       /\ wanted' = [wanted EXCEPT ![x] = Ancestors[t]]
  /\ UNCHANGED <<status, holder, sharers, pc, todo, written>>

NextWanted(x) == CHOOSE a \in wanted[x] : \A b \in wanted[x] : Id[a] <= Id[b]

(* Mutant: the ancestors are read without FOR SHARE. *)
ReadAncestor(x) ==
  /\ wanted[x] # {}
  /\ wanted' = [wanted EXCEPT ![x] = @ \ {NextWanted(x)}]
  /\ UNCHANGED <<status, holder, sharers, pc, todo, current, written>>

ShareAncestor(x) ==
  /\ wanted[x] # {} /\ MayShare(x, NextWanted(x))
  /\ sharers' = [sharers EXCEPT ![NextWanted(x)] = @ \cup {x}]
  /\ wanted' = [wanted EXCEPT ![x] = @ \ {NextWanted(x)}]
  /\ UNCHANGED <<status, holder, pc, todo, current, written>>

(* Mutant: a skipped candidate is tried again. *)
RetrySkipped(x) ==
  /\ current[x] # None /\ wanted[x] = {}
  /\ IF blockingAncestor(x, current[x])
       THEN UNCHANGED <<written, todo>>
       ELSE /\ \E to \in {"leased", "blocked"} : written' = [written EXCEPT ![x] = @ \cup {<<current[x], to>>}]
            /\ todo' = [todo EXCEPT ![x] = @ \ {current[x]}]
  /\ current' = [current EXCEPT ![x] = None]
  /\ UNCHANGED <<status, holder, sharers, pc, wanted>>

(* Skip the candidate, claim it, or block it because its assignee or the   *)
(* capacity is not available.                                              *)
DecideCandidate(x) ==
  /\ current[x] # None /\ wanted[x] = {}
  /\ IF blockingAncestor(x, current[x])
       THEN UNCHANGED written
       ELSE \E to \in {"leased", "blocked"} : written' = [written EXCEPT ![x] = @ \cup {<<current[x], to>>}]
  /\ todo' = [todo EXCEPT ![x] = @ \ {current[x]}]
  /\ current' = [current EXCEPT ![x] = None]
  /\ UNCHANGED <<status, holder, sharers, pc, wanted>>

(* A query or one of the two checks may return an error, and all is rolled *)
(* back.  A claim that waits for a row has no answer yet.                  *)
FailClaim(x) ==
  /\ pc[x] \in {"lock", "decide"}
  /\ wanted[x] # {} => MayShare(x, NextWanted(x))
  /\ Abort(x)

CommitClaim(x) ==
  /\ pc[x] = "decide" /\ current[x] = None /\ todo[x] = {}
  /\ Commit(x)

-----------------------------------------------------------------------------
(* BlockTask, CancelTask and UnblockTask of a task without dependencies. *)

ChooseTarget(x) ==
  /\ pc[x] = "begin"
  /\ \E t \in Tasks : todo' = [todo EXCEPT ![x] = {t}]
  /\ pc' = [pc EXCEPT ![x] = "lock"]
  /\ UNCHANGED <<status, holder, sharers, current, wanted, written>>

LockTarget(x) ==
  /\ pc[x] = "lock"
  /\ \E t \in todo[x] : MayLock(x, t) /\ holder' = [holder EXCEPT ![t] = x]
  /\ pc' = [pc EXCEPT ![x] = "write"]
  /\ UNCHANGED <<status, sharers, todo, current, wanted, written>>

WriteTarget(x) ==
  /\ pc[x] = "write"
  /\ \E t \in todo[x], to \in {"blocked", "cancelled", "ready"} :
       /\ CanTransition(status[t], to)
       /\ to = "ready" => status[t] = "blocked"
       /\ written' = [written EXCEPT ![x] = {<<t, to>>}]
  /\ pc' = [pc EXCEPT ![x] = "commit"]
  /\ UNCHANGED <<status, holder, sharers, todo, current, wanted>>

(* The target's status does not admit the operation. *)
RefuseTarget(x) == pc[x] = "write" /\ Abort(x)

CommitTarget(x) == pc[x] = "commit" /\ Commit(x)

-----------------------------------------------------------------------------
WaitsFor == [x \in Transactions |->
  IF x \in Claims
    THEN IF wanted[x] = {} THEN {} ELSE {holder[NextWanted(x)]} \ {None, x}
    ELSE IF pc[x] # "lock" THEN {} ELSE (UNION {{holder[t]} \cup sharers[t] : t \in todo[x]}) \ {None, x}]

Waits == INSTANCE DependencyGraph WITH Tasks <- Transactions

Deadlocked(x) == WaitsFor[x] # {} /\ x \in Waits!Reachable(WaitsFor, x)

(* PostgreSQL aborts a transaction that is part of a cycle of waits. *)
AbortDeadlock(x) == Deadlocked(x) /\ Abort(x)

Claim(x) ==
  \/ SelectCandidates(x) \/ LockCandidates(x) \/ TakeCandidate(x)
  \/ ShareAncestor(x) \/ DecideCandidate(x) \/ CommitClaim(x)

Operate(x) ==
  \/ ChooseTarget(x) \/ LockTarget(x) \/ WriteTarget(x) \/ RefuseTarget(x) \/ CommitTarget(x)

Step(x) == AbortDeadlock(x) \/ IF x \in Claims THEN Claim(x) ELSE Operate(x)

Next == (\E x \in Transactions : Step(x)) \/ \E x \in Claims : FailClaim(x)

(* A transaction that can go on does, and a deadlock is noticed.  Errors   *)
(* may happen; no transaction may count on one to come to its end.         *)
Spec == Init /\ [][Next]_vars /\ \A x \in Transactions : WF_vars(Step(x))

-----------------------------------------------------------------------------
(* Every variable has its shape, locks are compatible, and a transaction   *)
(* that ended holds none.                                                  *)
TypeOK ==
  /\ status \in [Tasks -> Status]
  /\ holder \in [Tasks -> Transactions \cup {None}]
  /\ sharers \in [Tasks -> SUBSET Claims]
  /\ pc \in [Transactions -> {"begin", "lock", "decide", "write", "commit", "end"}]
  /\ todo \in [Transactions -> SUBSET Tasks]
  /\ current \in [Claims -> Tasks \cup {None}]
  /\ wanted \in [Claims -> SUBSET Tasks]
  /\ written \in [Transactions -> SUBSET (Tasks \X Status)]
  /\ \A t \in Tasks : holder[t] # None => sharers[t] \subseteq {holder[t]} /\ pc[holder[t]] # "end"

(* No claim begins after a blocking transition has committed: when a claim *)
(* of a task commits, no ancestor that scopes it is blocked or ended, also *)
(* if the ancestor was blocked after the claim's snapshot was taken.       *)
NoClaimUnderBlockedAncestor ==
  [][\A t \in Tasks :
       status[t] # "leased" /\ status'[t] = "leased"
         => \A a \in Ancestors[t] \ NonScoping : status[a] \notin BlocksDescendantClaim]_vars

(* A task that two claims saw ready is leased by one of them at most, and  *)
(* nobody's committed decision is overwritten by a stale one: a status     *)
(* changes only by the transition table.                                   *)
OnlyLegalTransitions ==
  [][\A t \in Tasks : status'[t] # status[t] => CanTransition(status[t], status'[t])]_vars

(* Owners, ClaimSpecific, and claims with a batch of one. *)
Single == {x \in Transactions : x \in Claims => BatchSize[x] = 1}

SingleWaitsFor == [x \in Transactions |-> IF x \in Single THEN WaitsFor[x] \cap Single ELSE {}]

(* Claims of one task at a time never deadlock with each other or with     *)
(* owners: every cycle of waits goes through a claim of several tasks.     *)
ClaimsNeverDeadlock == \A x \in Transactions : x \notin Waits!Reachable(SingleWaitsFor, x)

(* Every claim and every operation comes to an end.  Claims of several     *)
(* tasks do deadlock, each holding a candidate that is an ancestor of the  *)
(* other's; the database's abort is what lets the rest go on.              *)
EveryTransactionEnds == \A x \in Transactions : <>(pc[x] = "end")
=============================================================================
