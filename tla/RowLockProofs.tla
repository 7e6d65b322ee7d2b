--------------------------- MODULE RowLockProofs ---------------------------
(***************************************************************************)
(* Safety of the protocols that rest on row locks.                         *)
(***************************************************************************)
EXTENDS ClaimAncestors, AddDependencyRace, Outbox, DependencyGraphProofs, FiniteSetTheorems

-----------------------------------------------------------------------------
(* Claims and owners. *)

(* Transaction x holds no lock and has written nothing. *)
Quiet(x) ==
  /\ \A t \in Tasks : holder[t] # x /\ x \notin sharers[t]
  /\ written[x] = {}

(* What a claim may rely on: its candidates are locked and still ready,    *)
(* the ancestors it has seen are shared, and a lease it wrote lies under   *)
(* shared ancestors none of which is blocked or ended.                     *)
ClaimKnows(x) ==
  /\ pc[x] \in {"begin", "lock", "decide", "end"}
  /\ pc[x] # "decide" => Quiet(x) /\ current[x] = None /\ wanted[x] = {}
  /\ pc[x] = "decide" => \A t \in todo[x] : holder[t] = x /\ status[t] = "ready"
  /\ current[x] = None => wanted[x] = {}
  /\ current[x] # None =>
       /\ current[x] \in todo[x] /\ wanted[x] \subseteq Ancestors[current[x]]
       /\ \A a \in Ancestors[current[x]] \ wanted[x] : x \in sharers[a]
  /\ \A w \in written[x] :
       /\ holder[w[1]] = x /\ status[w[1]] = "ready" /\ w[2] \in {"leased", "blocked"}
       /\ w[2] = "leased" =>
            \A a \in Ancestors[w[1]] \ NonScoping : x \in sharers[a] /\ status[a] \notin BlocksDescendantClaim

(* What an owner may rely on: its target is locked from the read of the    *)
(* status on, so the transition it checked is still legal at the commit.   *)
OwnerKnows(x) ==
  /\ pc[x] \in {"begin", "lock", "write", "commit", "end"}
  /\ pc[x] \in {"begin", "lock", "end"} => Quiet(x)
  /\ pc[x] = "lock" => \A s, t \in todo[x] : s = t
  /\ pc[x] \in {"write", "commit"} => \A t \in todo[x] : holder[t] = x
  /\ \A w \in written[x] : holder[w[1]] = x /\ CanTransition(status[w[1]], w[2]) /\ w[2] # "leased"

Knows(x) == (x \in Claims => ClaimKnows(x)) /\ (x \in Owners => OwnerKnows(x))

(* A claim with a batch of one holds one row at most. *)
OneCandidate ==
  \A x \in Claims : BatchSize[x] = 1 => \A s, t \in Tasks : holder[s] = x /\ holder[t] = x => s = t

(* The inductive invariant. *)
ClaimInv == TypeOK /\ OneCandidate /\ \A x \in Transactions : Knows(x)

(* A step of x touches no other transaction and no row x does not hold. *)
Local(x) ==
  /\ \A y \in Transactions \ {x} :
       /\ pc'[y] = pc[y] /\ todo'[y] = todo[y] /\ written'[y] = written[y]
       /\ \A t \in Tasks : (holder'[t] = y <=> holder[t] = y) /\ (y \in sharers'[t] <=> y \in sharers[t])
  /\ \A y \in Claims \ {x} : current'[y] = current[y] /\ wanted'[y] = wanted[y]
  /\ \A t \in Tasks : status'[t] = status[t] \/ holder[t] = x

(* Before anything is locked the invariant holds. *)
LEMMA ClaimInitInv == Init => ClaimInv
<1> SUFFICES ASSUME Init PROVE ClaimInv
  BY Zenon
<1>1. TypeOK
  BY Zenon DEF Init, TypeOK, Status
<1>2. OneCandidate
  BY TransactionsAssumption, Zenon DEF Init, OneCandidate
<1>3. ASSUME NEW x \in Transactions PROVE Knows(x)
  BY TransactionsAssumption, Zenon DEF Init, Knows, ClaimKnows, OwnerKnows, Quiet, Transactions
<1> QED
  BY <1>1, <1>2, <1>3, Zenon DEF ClaimInv

(* Ancestors are tasks, and causation has no cycle. *)
LEMMA AncestorsAre ==
  ASSUME NEW t \in Tasks
  PROVE  /\ Ancestors[t] \subseteq Tasks /\ t \notin Ancestors[t]
         /\ \A a \in Ancestors[t] : Ancestors[a] \subseteq Ancestors[t]
<1>1. Causation \in Graphs
  BY ParentAssumption, Zenon DEF Causation, Graphs
<1>2. \A u \in Tasks : Ancestors[u] = Reachable(Causation, u)
  BY Zenon DEF Ancestors
<1>3. Ancestors[t] \subseteq Tasks
  BY <1>1, <1>2, ReachableIsClosed, Zenon
<1>4. t \notin Ancestors[t]
  BY <1>2, ParentAssumption, Zenon DEF Acyclic
<1>5. ASSUME NEW a \in Ancestors[t] PROVE Ancestors[a] \subseteq Ancestors[t]
  BY <1>1, <1>2, <1>3, ReachableIsTransitive
<1> QED
  BY <1>3, <1>4, <1>5, Zenon

(* What a transaction knows outlives the steps of the others: its locks    *)
(* keep them from the rows it relies on.                                   *)
LEMMA OthersKnow ==
  ASSUME ClaimInv, NEW x \in Transactions, Local(x), NEW y \in Transactions, y # x
  PROVE  Knows(y)'
<1>1. /\ pc'[y] = pc[y] /\ todo'[y] = todo[y] /\ written'[y] = written[y]
      /\ \A t \in Tasks : (holder'[t] = y <=> holder[t] = y) /\ (y \in sharers'[t] <=> y \in sharers[t])
  BY Zenon DEF Local
<1>2. ASSUME NEW t \in Tasks, holder[t] = y \/ y \in sharers[t] PROVE status'[t] = status[t]
  BY <1>2, TransactionsAssumption DEF Local, ClaimInv, TypeOK, Transactions
<1>3. Quiet(y) => Quiet(y)'
  BY <1>1, Zenon DEF Quiet
<1>4. \A w \in written[y] : w[1] \in Tasks
  BY DEF ClaimInv, TypeOK
<1>5. ASSUME y \in Owners PROVE OwnerKnows(y)'
  <2>1. OwnerKnows(y) /\ todo[y] \subseteq Tasks
    BY <1>5, Zenon DEF ClaimInv, Knows, TypeOK
  <2> QED
    BY <1>1, <1>2, <1>3, <1>4, <2>1, Zenon DEF OwnerKnows
<1>6. ASSUME y \in Claims PROVE ClaimKnows(y)'
  <2>1. ClaimKnows(y) /\ todo[y] \subseteq Tasks /\ current[y] \in Tasks \cup {None}
    BY <1>6, Zenon DEF ClaimInv, Knows, TypeOK
  <2>2. current'[y] = current[y] /\ wanted'[y] = wanted[y]
    BY <1>6, Zenon DEF Local
  <2>3. \A t \in Tasks : Ancestors[t] \subseteq Tasks
    BY AncestorsAre, Zenon
  <2>4. pc'[y] = "decide" => \A t \in todo'[y] : holder'[t] = y /\ status'[t] = "ready"
    BY <1>1, <1>2, <2>1, Zenon DEF ClaimKnows
  <2>5. current[y] # None => \A a \in Ancestors[current[y]] \ wanted[y] : y \in sharers'[a]
    BY <1>1, <2>1, <2>3, Zenon DEF ClaimKnows
  <2>6. ASSUME NEW w \in written[y]
        PROVE  /\ holder'[w[1]] = y /\ status'[w[1]] = "ready" /\ w[2] \in {"leased", "blocked"}
               /\ w[2] = "leased" =>
                    \A a \in Ancestors[w[1]] \ NonScoping : y \in sharers'[a] /\ status'[a] \notin BlocksDescendantClaim
    <3>1. holder[w[1]] = y /\ status[w[1]] = "ready" /\ w[2] \in {"leased", "blocked"} /\ w[1] \in Tasks
      BY <1>4, <2>1, Zenon DEF ClaimKnows
    <3>2. ASSUME w[2] = "leased", NEW a \in Ancestors[w[1]] \ NonScoping
          PROVE  y \in sharers'[a] /\ status'[a] \notin BlocksDescendantClaim
      <4>1. a \in Tasks /\ y \in sharers[a] /\ status[a] \notin BlocksDescendantClaim
        BY <2>1, <2>3, <3>1, <3>2, Zenon DEF ClaimKnows
      <4> QED
        BY <1>1, <1>2, <4>1, Zenon
    <3> QED
      BY <1>1, <1>2, <3>1, <3>2, Zenon
  <2> QED
    BY <1>1, <1>3, <2>1, <2>2, <2>4, <2>5, <2>6, Zenon DEF ClaimKnows
<1> QED
  BY <1>5, <1>6, Zenon DEF Knows

(* A step of x that respects the others leaves only x to be looked at. *)
LEMMA StepKeeps ==
  ASSUME ClaimInv, NEW x \in Transactions, Local(x), TypeOK', OneCandidate', Knows(x)'
  PROVE  ClaimInv'
BY OthersKnow, Zenon DEF ClaimInv, Transactions

(* Reading a row returns the reader's own write or the committed status. *)
LEMMA ReadIs ==
  ASSUME NEW x \in Transactions, NEW t \in Tasks
  PROVE  \/ Read(x, t) = status[t] /\ \A w \in written[x] : w[1] # t
         \/ \E w \in written[x] : w[1] = t /\ Read(x, t) = w[2]
<1>1. CASE \E w \in written[x] : w[1] = t
  <2> DEFINE v == CHOOSE w \in written[x] : w[1] = t
  <2>1. v \in written[x] /\ v[1] = t
    BY <1>1, Zenon
  <2>2. Read(x, t) = v[2]
    BY <1>1, Zenon DEF Read
  <2> QED
    BY <2>1, <2>2, Zenon
<1>2. CASE ~\E w \in written[x] : w[1] = t
  BY <1>2, Zenon DEF Read
<1> QED
  BY <1>1, <1>2, Zenon

(* A transaction that has ended gave back all it held. *)
LEMMA EndStep ==
  ASSUME ClaimInv, NEW x \in Transactions, EndTransaction(x),
         status' \in [Tasks -> Status], \A t \in Tasks : status'[t] = status[t] \/ holder[t] = x
  PROVE  ClaimInv'
<1>1. TypeOK
  BY Zenon DEF ClaimInv
<1>2. x # None
  BY TransactionsAssumption, Zenon DEF Transactions
<1>3. /\ holder' = [t \in Tasks |-> IF holder[t] = x THEN None ELSE holder[t]]
      /\ sharers' = [t \in Tasks |-> sharers[t] \ {x}]
      /\ pc' = [pc EXCEPT ![x] = "end"] /\ todo' = [todo EXCEPT ![x] = {}]
      /\ written' = [written EXCEPT ![x] = {}]
      /\ current' \in [Claims -> Tasks \cup {None}] /\ wanted' \in [Claims -> SUBSET Tasks]
      /\ \A y \in Claims \ {x} : current'[y] = current[y] /\ wanted'[y] = wanted[y]
      /\ x \in Claims => current'[x] = None /\ wanted'[x] = {}
  <2>1. CASE x \in Claims
    BY <1>1, <2>1 DEF EndTransaction, TypeOK
  <2>2. CASE x \notin Claims
    BY <1>1, <2>2, Zenon DEF EndTransaction, TypeOK
  <2> QED
    BY <2>1, <2>2, Zenon
<1>4. TypeOK'
  BY <1>1, <1>2, <1>3, Zenon DEF TypeOK
<1>5. Local(x)
  <2>1. ASSUME NEW y \in Transactions \ {x}
        PROVE  /\ pc'[y] = pc[y] /\ todo'[y] = todo[y] /\ written'[y] = written[y]
               /\ \A t \in Tasks : (holder'[t] = y <=> holder[t] = y) /\ (y \in sharers'[t] <=> y \in sharers[t])
    <3>1. y # None
      BY TransactionsAssumption, Zenon DEF Transactions
    <3> QED
      BY <1>1, <1>3, <2>1, <3>1, Zenon DEF TypeOK
  <2> QED
    BY <1>3, <2>1, Zenon DEF Local
<1>6. Quiet(x)' /\ pc'[x] = "end" /\ todo'[x] = {}
  BY <1>1, <1>2, <1>3, Zenon DEF Quiet, TypeOK
<1>7. Knows(x)'
  BY <1>3, <1>6, Zenon DEF Knows, ClaimKnows, OwnerKnows, Quiet
<1>8. OneCandidate'
  BY <1>1, <1>2, <1>3, TransactionsAssumption DEF OneCandidate, ClaimInv, Transactions
<1> QED
  BY <1>4, <1>5, <1>7, <1>8, StepKeeps, Zenon

(* What is read, and so committed, is a status, and a row x does not hold  *)
(* is read as it is.                                                       *)
LEMMA ReadStatus ==
  ASSUME ClaimInv, NEW x \in Transactions, NEW t \in Tasks
  PROVE  Read(x, t) \in Status /\ (Read(x, t) = status[t] \/ holder[t] = x)
<1>1. written[x] \subseteq Tasks \X Status /\ status[t] \in Status
  BY Zenon DEF ClaimInv, TypeOK
<1>2. \A w \in written[x] : holder[w[1]] = x
  BY DEF ClaimInv, Knows, ClaimKnows, OwnerKnows, Transactions
<1> QED
  BY <1>1, <1>2, ReadIs

(* Commits and aborts preserve the invariant. *)
LEMMA CommitStep ==
  ASSUME ClaimInv, NEW x \in Transactions, Commit(x) \/ Abort(x)
  PROVE  ClaimInv'
<1>1. CASE Commit(x)
  <2>1. status' = [t \in Tasks |-> Read(x, t)] /\ EndTransaction(x)
    BY <1>1, Zenon DEF Commit
  <2>2. status' \in [Tasks -> Status] /\ \A t \in Tasks : status'[t] = status[t] \/ holder[t] = x
    BY <2>1, ReadStatus, Zenon
  <2> QED
    BY <2>1, <2>2, EndStep, Zenon
<1>2. CASE Abort(x)
  <2>1. status' = status /\ EndTransaction(x)
    BY <1>2, Zenon DEF Abort
  <2>2. status' \in [Tasks -> Status]
    BY <2>1, Zenon DEF ClaimInv, TypeOK
  <2> QED
    BY <2>1, <2>2, EndStep, Zenon
<1> QED
  BY <1>1, <1>2, Zenon

(* The operations of owners preserve the invariant: FOR UPDATE is granted  *)
(* only on a row nobody else holds or shares.                              *)
LEMMA OwnerStep ==
  ASSUME ClaimInv, NEW x \in Owners, Operate(x)
  PROVE  ClaimInv'
<1>1. TypeOK /\ OwnerKnows(x) /\ x \in Transactions /\ x \notin Claims /\ x # None
  BY TransactionsAssumption, Zenon DEF ClaimInv, Knows, Transactions
<1>2. todo[x] \subseteq Tasks /\ pc[x] \in {"begin", "lock", "write", "commit", "end"}
  BY <1>1, Zenon DEF TypeOK, OwnerKnows
<1>3. CASE ChooseTarget(x)
  <2>1. PICK t \in Tasks : todo' = [todo EXCEPT ![x] = {t}]
    BY <1>3, Zenon DEF ChooseTarget
  <2>2. pc[x] = "begin" /\ pc' = [pc EXCEPT ![x] = "lock"] /\ UNCHANGED <<status, holder, sharers, current, wanted, written>>
    BY <1>3, Zenon DEF ChooseTarget
  <2>3. TypeOK'
    BY <1>1, <2>1, <2>2 DEF TypeOK
  <2>4. Local(x)
    BY <1>1, <2>1, <2>2, Zenon DEF Local, TypeOK
  <2>5. Quiet(x)' /\ pc'[x] = "lock" /\ todo'[x] = {t}
    BY <1>1, <2>1, <2>2, Zenon DEF OwnerKnows, Quiet, TypeOK
  <2>6. Knows(x)'
    BY <1>1, <2>5, Zenon DEF Knows, OwnerKnows, Quiet
  <2>7. OneCandidate'
    BY <2>2, Zenon DEF ClaimInv, OneCandidate
  <2> QED
    BY <1>1, <2>3, <2>4, <2>6, <2>7, StepKeeps, Zenon
<1>4. CASE LockTarget(x)
  <2>1. PICK t \in todo[x] : MayLock(x, t) /\ holder' = [holder EXCEPT ![t] = x]
    BY <1>4, Zenon DEF LockTarget
  <2>2. pc[x] = "lock" /\ pc' = [pc EXCEPT ![x] = "write"] /\ UNCHANGED <<status, sharers, todo, current, wanted, written>>
    BY <1>4, Zenon DEF LockTarget
  <2>3. /\ t \in Tasks /\ holder[t] = None /\ sharers[t] = {} /\ written[x] = {}
        /\ \A u \in Tasks : holder[u] # x
        /\ \A s \in todo[x] : s = t
    BY <1>1, <1>2, <2>1, <2>2 DEF MayLock, OwnerKnows, Quiet, TypeOK
  <2>4. TypeOK'
    BY <1>1, <2>1, <2>2, <2>3, Zenon DEF TypeOK
  <2>5. Local(x)
    <3>1. ASSUME NEW y \in Transactions \ {x}, NEW u \in Tasks PROVE holder'[u] = y <=> holder[u] = y
      <4>1. y # None
        BY TransactionsAssumption, Zenon DEF Transactions
      <4> QED
        BY <1>1, <2>1, <2>3, <3>1, <4>1, Zenon DEF TypeOK
    <3> QED
      BY <1>1, <2>2, <3>1, Zenon DEF Local, TypeOK
  <2>6. pc'[x] = "write" /\ todo'[x] = todo[x] /\ written'[x] = {} /\ holder'[t] = x
    BY <1>1, <2>1, <2>2, <2>3, Zenon DEF TypeOK
  <2>7. Knows(x)'
    BY <1>1, <2>3, <2>6, Zenon DEF Knows, OwnerKnows
  <2>8. OneCandidate'
    BY <1>1, <2>1, <2>3 DEF ClaimInv, OneCandidate, TypeOK
  <2> QED
    BY <1>1, <2>4, <2>5, <2>7, <2>8, StepKeeps, Zenon
<1>5. CASE WriteTarget(x)
  <2>1. PICK t \in todo[x], to \in {"blocked", "cancelled", "ready"} :
          CanTransition(status[t], to) /\ written' = [written EXCEPT ![x] = {<<t, to>>}]
    BY <1>5, Zenon DEF WriteTarget
  <2>2. pc[x] = "write" /\ pc' = [pc EXCEPT ![x] = "commit"] /\ UNCHANGED <<status, holder, sharers, todo, current, wanted>>
    BY <1>5, Zenon DEF WriteTarget
  <2>3. t \in Tasks /\ to \in Status /\ \A u \in todo[x] : holder[u] = x
    BY <1>1, <1>2, <2>2, Zenon DEF OwnerKnows, Status, NonTerminal, Terminal
  <2>4. TypeOK'
    BY <1>1, <2>1, <2>2, <2>3 DEF TypeOK
  <2>5. Local(x)
    BY <1>1, <2>1, <2>2, Zenon DEF Local, TypeOK
  <2>6. pc'[x] = "commit" /\ written'[x] = {<<t, to>>}
    BY <1>1, <2>1, <2>2, Zenon DEF TypeOK
  <2>7. Knows(x)'
    BY <1>1, <2>1, <2>2, <2>3, <2>6 DEF Knows, OwnerKnows
  <2>8. OneCandidate'
    BY <2>2, Zenon DEF ClaimInv, OneCandidate
  <2> QED
    BY <1>1, <2>4, <2>5, <2>7, <2>8, StepKeeps, Zenon
<1>6. CASE RefuseTarget(x) \/ CommitTarget(x)
  BY <1>1, <1>6, CommitStep, Zenon DEF RefuseTarget, CommitTarget
<1> QED
  BY <1>3, <1>4, <1>5, <1>6, Zenon DEF Operate

(* The next ancestor to lock is one of those not locked yet: a set of ids  *)
(* has a smallest one.                                                     *)
LEMMA NextWantedIs ==
  ASSUME NEW x \in Claims, wanted[x] \subseteq Tasks, wanted[x] # {}
  PROVE  NextWanted(x) \in wanted[x]
<1> DEFINE R == {ss \in Nat \X Nat : ss[1] < ss[2]}
           ids == {Id[a] : a \in wanted[x]}
<1>1. IsWellFoundedOn(R, Nat)
  BY NatLessThanWellFounded, Zenon DEF OpToRel
<1>2. ids \subseteq Nat /\ ids # {}
  BY IdAssumption, Zenon
<1>0. \A i, j \in Nat : i < j => <<i, j>> \in R
  BY Zenon
<1> HIDE DEF R, ids
<1>3. PICK m \in ids : \A k \in ids : ~ (<<k, m>> \in R)
  BY <1>1, <1>2, WFMin, Zenon
<1>4. ASSUME NEW k \in ids PROVE m <= k
  <2>1. k \in Nat /\ m \in Nat
    BY <1>2, <1>3, <1>4, Zenon
  <2>2. ~(k < m)
    BY <1>0, <1>3, <1>4, <2>1, Zenon
  <2> QED
    BY <2>1, <2>2
<1> USE DEF ids
<1>5. \E a \in wanted[x] : \A b \in wanted[x] : Id[a] <= Id[b]
  BY <1>3, <1>4, Zenon
<1> QED
  BY <1>5, Zenon DEF NextWanted

(* A batch of one has one candidate at most. *)
LEMMA BatchOfOne ==
  ASSUME NEW free \in SUBSET Tasks, NEW batch \in kSubset(Min({1, Cardinality(free)}), free)
  PROVE  \A s, t \in batch : s = t
<1>1. IsFiniteSet(free) /\ IsFiniteSet(batch) /\ batch \subseteq free
  BY TasksAssumption, FS_Subset, Zenon DEF kSubset
<1>2. Cardinality(free) \in Nat /\ Cardinality(batch) \in Nat
  BY <1>1, FS_CardinalityType, Zenon
<1>3. Cardinality(batch) = Min({1, Cardinality(free)})
  BY Zenon DEF kSubset
<1>4. \E m \in {1, Cardinality(free)} : \A k \in {1, Cardinality(free)} : m =< k
  BY <1>2
<1>5. Min({1, Cardinality(free)}) \in {1, Cardinality(free)} /\ Min({1, Cardinality(free)}) =< 1
  BY <1>4, Zenon DEF Min
<1>6. Cardinality(batch) = 0 \/ Cardinality(batch) = 1
  BY <1>2, <1>3, <1>5
<1> QED
  BY <1>1, <1>6, FS_EmptySet, FS_Singleton

(* Taking the batch: every candidate taken was ready, held by nobody and   *)
(* shared by nobody.                                                       *)
LEMMA LockCandidatesStep ==
  ASSUME ClaimInv, NEW x \in Claims, LockCandidates(x)
  PROVE  ClaimInv'
<1>1. TypeOK /\ ClaimKnows(x) /\ x \in Transactions /\ x \notin Owners /\ x # None
  BY TransactionsAssumption, Zenon DEF ClaimInv, Knows, Transactions
<1> DEFINE free == {t \in todo[x] : status[t] = "ready" /\ MayLock(x, t)}
<1>2. PICK batch \in kSubset(Min({BatchSize[x], Cardinality(free)}), free) :
        /\ holder' = [t \in Tasks |-> IF t \in batch THEN x ELSE holder[t]]
        /\ todo' = [todo EXCEPT ![x] = batch]
  BY Zenon DEF LockCandidates
<1>3. pc[x] = "lock" /\ pc' = [pc EXCEPT ![x] = "decide"] /\ UNCHANGED <<status, sharers, current, wanted, written>>
  BY Zenon DEF LockCandidates
<1>4. free \subseteq Tasks /\ batch \subseteq free
  BY <1>1, Zenon DEF TypeOK, kSubset
<1>5. /\ \A u \in Tasks : holder[u] # x /\ x \notin sharers[u]
      /\ written[x] = {} /\ current[x] = None /\ wanted[x] = {}
  BY <1>1, <1>3, Zenon DEF ClaimKnows, Quiet
<1>6. \A t \in batch : t \in Tasks /\ status[t] = "ready" /\ holder[t] = None /\ sharers[t] = {}
  BY <1>4, <1>5, Zenon DEF MayLock
<1>7. BatchSize[x] = 1 => \A s, t \in batch : s = t
  BY <1>4, BatchOfOne, Zenon
<1> HIDE DEF free
<1>8. TypeOK'
  <2>1. holder' \in [Tasks -> Transactions \cup {None}] /\ todo' \in [Transactions -> SUBSET Tasks]
    BY <1>1, <1>2, <1>6, Zenon DEF TypeOK
  <2>2. pc' \in [Transactions -> {"begin", "lock", "decide", "write", "commit", "end"}]
    BY <1>1, <1>3, Zenon DEF TypeOK
  <2>3. ASSUME NEW t \in Tasks, holder'[t] # None PROVE sharers'[t] \subseteq {holder'[t]} /\ pc'[holder'[t]] # "end"
    <3>1. CASE t \in batch
      BY <1>1, <1>2, <1>3, <1>6, <3>1, Zenon DEF TypeOK
    <3>2. CASE t \notin batch
      BY <1>1, <1>2, <1>3, <1>5, <2>3, <3>2, Zenon DEF TypeOK
    <3> QED
      BY <3>1, <3>2, Zenon
  <2> QED
    BY <1>1, <1>3, <2>1, <2>2, <2>3, Zenon DEF TypeOK
<1>9. Local(x)
  <2>1. ASSUME NEW y \in Transactions \ {x}, NEW t \in Tasks PROVE holder'[t] = y <=> holder[t] = y
    BY <1>2, <1>6, <2>1, TransactionsAssumption, Zenon DEF Transactions
  <2> QED
    BY <1>1, <1>2, <1>3, <2>1, Zenon DEF Local, TypeOK
<1>10. pc'[x] = "decide" /\ todo'[x] = batch /\ \A t \in batch : holder'[t] = x
  BY <1>1, <1>2, <1>3, <1>6, Zenon DEF TypeOK
<1>11. Knows(x)'
  BY <1>1, <1>3, <1>5, <1>6, <1>10, Zenon DEF Knows, ClaimKnows
<1>12. OneCandidate'
  <2>1. ASSUME NEW y \in Claims, BatchSize[y] = 1, NEW s \in Tasks, NEW t \in Tasks, holder'[s] = y, holder'[t] = y
        PROVE  s = t
    <3>1. CASE y = x
      BY <1>2, <1>5, <1>7, <2>1, <3>1, Zenon
    <3>2. CASE y # x
      <4>1. holder[s] = y /\ holder[t] = y
        BY <1>2, <2>1, <3>2, Zenon
      <4> QED
        BY <2>1, <4>1, Zenon DEF ClaimInv, OneCandidate
    <3> QED
      BY <3>1, <3>2, Zenon
  <2> QED
    BY <2>1, Zenon DEF OneCandidate
<1> QED
  BY <1>1, <1>8, <1>9, <1>11, <1>12, StepKeeps, Zenon

(* The ancestors of a candidate are shared one by one, each while nobody   *)
(* else holds it.                                                          *)
LEMMA ShareAncestorStep ==
  ASSUME ClaimInv, NEW x \in Claims, ShareAncestor(x)
  PROVE  ClaimInv'
<1>1. TypeOK /\ ClaimKnows(x) /\ x \in Transactions /\ x \notin Owners
  BY TransactionsAssumption, Zenon DEF ClaimInv, Knows, Transactions
<1> DEFINE a == NextWanted(x)
<1>2. wanted[x] \subseteq Tasks /\ wanted[x] # {}
  BY <1>1, Zenon DEF ShareAncestor, TypeOK
<1>3. a \in wanted[x] /\ a \in Tasks /\ holder[a] \in {None, x}
  BY <1>2, NextWantedIs, Zenon DEF ShareAncestor, MayShare
<1>4. /\ sharers' = [sharers EXCEPT ![a] = @ \cup {x}] /\ wanted' = [wanted EXCEPT ![x] = @ \ {a}]
      /\ UNCHANGED <<status, holder, pc, todo, current, written>>
  BY Zenon DEF ShareAncestor
<1> HIDE DEF a
<1>5. TypeOK'
  <2>1. sharers' \in [Tasks -> SUBSET Claims] /\ wanted' \in [Claims -> SUBSET Tasks]
    BY <1>1, <1>3, <1>4 DEF TypeOK
  <2>2. ASSUME NEW t \in Tasks, holder[t] # None PROVE sharers'[t] \subseteq {holder[t]}
    BY <1>1, <1>3, <1>4, <2>2, Zenon DEF TypeOK
  <2> QED
    BY <1>1, <1>4, <2>1, <2>2, Zenon DEF TypeOK
<1>6. \A t \in Tasks : sharers[t] \subseteq sharers'[t] /\ sharers'[t] \subseteq sharers[t] \cup {x} /\ x \in sharers'[a]
  BY <1>1, <1>3, <1>4 DEF TypeOK
<1>7. wanted'[x] = wanted[x] \ {a} /\ \A y \in Claims \ {x} : wanted'[y] = wanted[y]
  BY <1>1, <1>4, Zenon DEF TypeOK
<1>8. Local(x)
  BY <1>4, <1>6, <1>7, Zenon DEF Local
<1>9. /\ pc[x] = "decide" /\ current[x] \in Tasks /\ Ancestors[current[x]] \subseteq Tasks
      /\ \A w \in written[x] : w[1] \in Tasks /\ Ancestors[w[1]] \subseteq Tasks
  <2>1. pc[x] = "decide" /\ current[x] \in Tasks /\ \A w \in written[x] : w[1] \in Tasks
    BY <1>1, <1>2, SMTT(30) DEF TypeOK, ClaimKnows
  <2> QED
    BY <2>1, AncestorsAre, Zenon
<1>10. ClaimKnows(x)'
  <2>1. \A b \in Ancestors[current[x]] \ wanted'[x] : x \in sharers'[b]
    BY <1>1, <1>6, <1>7, <1>9, ParentAssumption, Zenon DEF ClaimKnows
  <2>2. \A w \in written[x] : w[2] = "leased" => \A b \in Ancestors[w[1]] \ NonScoping : x \in sharers'[b]
    BY <1>1, <1>6, <1>9, Zenon DEF ClaimKnows
  <2> QED
    BY <1>1, <1>4, <1>7, <1>9, <2>1, <2>2, ParentAssumption, Zenon DEF ClaimKnows
<1>11. Knows(x)' /\ OneCandidate'
  BY <1>1, <1>4, <1>10, Zenon DEF Knows, ClaimInv, OneCandidate
<1> QED
  BY <1>1, <1>5, <1>8, <1>11, StepKeeps, Zenon

(* A decision rests on shared ancestors: as the claim reads them, and so   *)
(* as they are committed, none is blocked or ended.                        *)
LEMMA DecideCandidateStep ==
  ASSUME ClaimInv, NEW x \in Claims, DecideCandidate(x)
  PROVE  ClaimInv'
<1>1. TypeOK /\ ClaimKnows(x) /\ x \in Transactions /\ x \notin Owners
  BY TransactionsAssumption, Zenon DEF ClaimInv, Knows, Transactions
<1> DEFINE t == current[x]
<1>2. /\ t # None /\ wanted[x] = {} /\ UNCHANGED <<status, holder, sharers, pc, wanted>>
      /\ todo' = [todo EXCEPT ![x] = @ \ {t}] /\ current' = [current EXCEPT ![x] = None]
  BY Zenon DEF DecideCandidate
<1>3. t \in Tasks /\ pc[x] = "decide" /\ holder[t] = x /\ status[t] = "ready"
  BY <1>1, <1>2, Zenon DEF ClaimKnows, TypeOK
<1>4. Ancestors[t] \subseteq Tasks /\ \A a \in Ancestors[t] : x \in sharers[a]
  BY <1>1, <1>2, <1>3, AncestorsAre, Zenon DEF ClaimKnows
<1>5. \/ written' = written
      \/ /\ ~blockingAncestor(x, t)
         /\ \E to \in {"leased", "blocked"} : written' = [written EXCEPT ![x] = @ \cup {<<t, to>>}]
  BY Zenon DEF DecideCandidate
<1>6. ASSUME ~blockingAncestor(x, t), NEW a \in Ancestors[t] \ NonScoping PROVE status[a] \notin BlocksDescendantClaim
  <2>1. a \in Tasks /\ Read(x, a) \notin BlocksDescendantClaim
    BY <1>4, <1>6, Zenon DEF blockingAncestor
  <2>2. \A w \in written[x] : status[w[1]] = "ready"
    BY <1>1, Zenon DEF ClaimKnows
  <2>3. "ready" \notin BlocksDescendantClaim
    BY Zenon DEF BlocksDescendantClaim
  <2> QED
    BY <1>1, <2>1, <2>2, <2>3, ReadIs
<1>7. /\ written' \in [Transactions -> SUBSET (Tasks \X Status)]
      /\ \A y \in Transactions \ {x} : written'[y] = written[y]
      /\ \A w \in written'[x] : w \in written[x] \/ (~blockingAncestor(x, t) /\ w[1] = t /\ w[2] \in {"leased", "blocked"})
  <2>1. "leased" \in Status /\ "blocked" \in Status
    BY Zenon DEF Status, NonTerminal
  <2> HIDE DEF t
  <2> QED
    BY <1>1, <1>3, <1>5, <2>1 DEF TypeOK
<1>8. TypeOK'
  BY <1>1, <1>2, <1>7, Zenon DEF TypeOK
<1>9. Local(x)
  BY <1>1, <1>2, <1>7, Zenon DEF Local, TypeOK
<1>10. todo'[x] \subseteq todo[x] /\ current'[x] = None
  BY <1>1, <1>2, Zenon DEF TypeOK
<1>11. ASSUME NEW w \in written'[x]
       PROVE  /\ holder[w[1]] = x /\ status[w[1]] = "ready" /\ w[2] \in {"leased", "blocked"}
              /\ w[2] = "leased" =>
                   \A a \in Ancestors[w[1]] \ NonScoping : x \in sharers[a] /\ status[a] \notin BlocksDescendantClaim
  <2>1. CASE w \in written[x]
    BY <1>1, <2>1, Zenon DEF ClaimKnows
  <2>2. CASE ~blockingAncestor(x, t) /\ w[1] = t /\ w[2] \in {"leased", "blocked"}
    BY <1>3, <1>4, <1>6, <2>2, Zenon
  <2> QED
    BY <1>7, <1>11, <2>1, <2>2, Zenon
<1>12. Knows(x)' /\ OneCandidate'
  <2>1. OneCandidate'
    BY <1>2, Zenon DEF ClaimInv, OneCandidate
  <2> HIDE DEF t
  <2>2. ClaimKnows(x)'
    BY <1>1, <1>2, <1>3, <1>10, <1>11, Zenon DEF ClaimKnows
  <2> QED
    BY <1>1, <2>1, <2>2, Zenon DEF Knows
<1> QED
  BY <1>1, <1>8, <1>9, <1>12, StepKeeps, Zenon

(* The steps of Claim preserve the invariant. *)
LEMMA ClaimStep ==
  ASSUME ClaimInv, NEW x \in Claims, Claim(x)
  PROVE  ClaimInv'
<1>1. TypeOK /\ ClaimKnows(x) /\ x \in Transactions /\ x \notin Owners
  BY TransactionsAssumption, Zenon DEF ClaimInv, Knows, Transactions
<1>2. CASE SelectCandidates(x)
  <2>1. /\ pc[x] = "begin" /\ pc' = [pc EXCEPT ![x] = "lock"]
        /\ UNCHANGED <<status, holder, sharers, current, wanted, written>>
        /\ \E C \in SUBSET Tasks : todo' = [todo EXCEPT ![x] = C]
    BY <1>2, Zenon DEF SelectCandidates
  <2>2. TypeOK'
    BY <1>1, <2>1 DEF TypeOK
  <2>3. Local(x)
    BY <1>1, <2>1, Zenon DEF Local, TypeOK
  <2>4. pc'[x] = "lock" /\ Quiet(x)' /\ current'[x] = None /\ wanted'[x] = {}
    BY <1>1, <2>1 DEF ClaimKnows, Quiet, TypeOK
  <2>5. Knows(x)' /\ OneCandidate'
    BY <1>1, <2>1, <2>4 DEF Knows, ClaimKnows, Quiet, ClaimInv, OneCandidate
  <2> QED
    BY <1>1, <2>2, <2>3, <2>5, StepKeeps, Zenon
<1>3. CASE TakeCandidate(x)
  <2>1. PICK t \in todo[x] : current' = [current EXCEPT ![x] = t] /\ wanted' = [wanted EXCEPT ![x] = Ancestors[t]]
    BY <1>3, Zenon DEF TakeCandidate
  <2>2. pc[x] = "decide" /\ current[x] = None /\ UNCHANGED <<status, holder, sharers, pc, todo, written>>
    BY <1>3, Zenon DEF TakeCandidate
  <2>3. t \in Tasks /\ Ancestors[t] \subseteq Tasks
    BY <1>1, <2>1, AncestorsAre, Zenon DEF TypeOK
  <2>4. TypeOK'
    BY <1>1, <2>1, <2>2, <2>3, Zenon DEF TypeOK
  <2>5. Local(x)
    BY <1>1, <2>1, <2>2, Zenon DEF Local, TypeOK
  <2>6. current'[x] = t /\ wanted'[x] = Ancestors[t]
    BY <1>1, <2>1, Zenon DEF TypeOK
  <2>7. Knows(x)' /\ OneCandidate'
    <3>1. ClaimKnows(x)'
      BY <1>1, <2>1, <2>2, <2>3, <2>6, ParentAssumption, Zenon DEF ClaimKnows
    <3> QED
      BY <1>1, <2>2, <3>1, Zenon DEF Knows, ClaimInv, OneCandidate
  <2> QED
    BY <1>1, <2>4, <2>5, <2>7, StepKeeps, Zenon
<1>4. CASE CommitClaim(x)
  BY <1>1, <1>4, CommitStep, Zenon DEF CommitClaim
<1> QED
  BY <1>2, <1>3, <1>4, LockCandidatesStep, ShareAncestorStep, DecideCandidateStep, Zenon DEF Claim

(* Every step preserves the invariant, and commits nothing but what its    *)
(* transaction reads.                                                      *)
LEMMA ClaimNext ==
  ASSUME ClaimInv, [Next]_vars
  PROVE  /\ ClaimInv'
         /\ \/ status' = status
            \/ \E x \in Transactions : status' = [t \in Tasks |-> Read(x, t)]
<1>1. CASE UNCHANGED vars
  BY <1>1 DEF vars, ClaimInv, TypeOK, OneCandidate, Knows, ClaimKnows, OwnerKnows, Quiet
<1>2. ASSUME NEW x \in Transactions, Step(x)
      PROVE  ClaimInv' /\ (status' = status \/ status' = [t \in Tasks |-> Read(x, t)])
  <2>1. CASE AbortDeadlock(x)
    BY <2>1, CommitStep, Zenon DEF AbortDeadlock, Abort
  <2>2. CASE x \in Claims /\ Claim(x)
    <3>1. status' = status \/ status' = [t \in Tasks |-> Read(x, t)]
      BY <2>2, Zenon DEF Claim, SelectCandidates, LockCandidates, TakeCandidate, ShareAncestor, DecideCandidate,
         CommitClaim, Commit
    <3> QED
      BY <2>2, <3>1, ClaimStep, Zenon
  <2>3. CASE x \in Owners /\ Operate(x)
    <3>1. status' = status \/ status' = [t \in Tasks |-> Read(x, t)]
      BY <2>3, Zenon DEF Operate, ChooseTarget, LockTarget, WriteTarget, RefuseTarget, CommitTarget, Commit, Abort
    <3> QED
      BY <2>3, <3>1, OwnerStep, Zenon
  <2> QED
    BY <1>2, <2>1, <2>2, <2>3, Zenon DEF Step, Transactions
<1>3. ASSUME NEW x \in Claims, FailClaim(x)
      PROVE  ClaimInv' /\ status' = status
  BY <1>3, CommitStep, Zenon DEF FailClaim, Abort, Transactions
<1> QED
  BY <1>1, <1>2, <1>3, Zenon DEF Next, vars

(* So ClaimInv holds throughout, whatever the tree, the batch size and the *)
(* transactions.                                                           *)
LEMMA ClaimInvHolds == Spec => []ClaimInv
<1>1. ClaimInv /\ [Next]_vars => ClaimInv'
  BY ClaimNext, Zenon
<1>2. Spec => Init /\ [][Next]_vars
  BY PTL DEF Spec
<1> QED
  BY <1>1, <1>2, ClaimInitInv, PTL

(* When a claim commits, no scoping ancestor of what it leased is blocked  *)
(* or ended, however the blocking transactions interleave with the         *)
(* snapshot, the locks and the decisions of the claim (ancestry.go).       *)
THEOREM NoClaimBeginsUnderABlock == Spec => NoClaimUnderBlockedAncestor
<1> DEFINE Respects == \A t \in Tasks :
             status[t] # "leased" /\ status'[t] = "leased"
               => \A a \in Ancestors[t] \ NonScoping : status[a] \notin BlocksDescendantClaim
<1>1. ASSUME ClaimInv, [Next]_vars PROVE Respects
  <2>1. SUFFICES ASSUME NEW t \in Tasks, status[t] # "leased", status'[t] = "leased"
                 PROVE  \A a \in Ancestors[t] \ NonScoping : status[a] \notin BlocksDescendantClaim
    BY Zenon
  <2>2. PICK x \in Transactions : status' = [u \in Tasks |-> Read(x, u)]
    BY <1>1, <2>1, ClaimNext, Zenon
  <2>3. PICK w \in written[x] : w[1] = t /\ w[2] = "leased"
    BY <2>1, <2>2, ReadIs
  <2>4. x \in Claims /\ ClaimKnows(x)
    BY <1>1, <2>3, Zenon DEF ClaimInv, Knows, OwnerKnows, Transactions
  <2> QED
    BY <2>3, <2>4, Zenon DEF ClaimKnows
<1>2. ClaimInv /\ [Next]_vars => [Respects]_vars
  BY <1>1, Zenon
<1>3. Spec => [][Next]_vars
  BY PTL DEF Spec
<1> QED
  BY <1>2, <1>3, ClaimInvHolds, PTL DEF NoClaimUnderBlockedAncestor

(* A status changes only along the transition table: no decision is taken  *)
(* from a status that has changed since (queue.go, mutate.go).             *)
THEOREM StatusesChangeLegally == Spec => OnlyLegalTransitions
<1> DEFINE Legal == \A t \in Tasks : status'[t] # status[t] => CanTransition(status[t], status'[t])
<1>1. ASSUME ClaimInv, [Next]_vars PROVE Legal
  <2>1. SUFFICES ASSUME NEW t \in Tasks, status'[t] # status[t]
                 PROVE  CanTransition(status[t], status'[t])
    BY Zenon
  <2>2. PICK x \in Transactions : status' = [u \in Tasks |-> Read(x, u)]
    BY <1>1, <2>1, ClaimNext, Zenon
  <2>3. PICK w \in written[x] : w[1] = t /\ status'[t] = w[2]
    BY <2>1, <2>2, ReadIs, Zenon
  <2>4. CASE x \in Owners
    BY <1>1, <2>3, <2>4, Zenon DEF ClaimInv, Knows, OwnerKnows
  <2>5. CASE x \in Claims
    <3>1. status[t] = "ready" /\ w[2] \in {"leased", "blocked"}
      BY <1>1, <2>3, <2>5 DEF ClaimInv, Knows, ClaimKnows
    <3>2. CanTransition("ready", "leased") /\ CanTransition("ready", "blocked")
      BY Zenon DEF CanTransition, allowedTransitions, NonTerminal
    <3> QED
      BY <2>3, <3>1, <3>2, Zenon
  <2> QED
    BY <2>4, <2>5, Zenon DEF Transactions
<1>2. ClaimInv /\ [Next]_vars => [Legal]_vars
  BY <1>1, Zenon
<1>3. Spec => [][Next]_vars
  BY PTL DEF Spec
<1> QED
  BY <1>2, <1>3, ClaimInvHolds, PTL DEF OnlyLegalTransitions

(* Nobody waits for a transaction that holds and shares nothing. *)
LEMMA NobodyWaitsForQuiet ==
  ASSUME ClaimInv, NEW x \in Transactions, Quiet(x), NEW y \in Transactions
  PROVE  WaitsFor[y] \subseteq Transactions \ {x}
<1>1. TypeOK
  BY Zenon DEF ClaimInv
<1>2. CASE y \in Claims
  <2>1. WaitsFor[y] = IF wanted[y] = {} THEN {} ELSE {holder[NextWanted(y)]} \ {None, y}
    BY <1>2, Zenon DEF WaitsFor
  <2>2. wanted[y] \subseteq Tasks
    BY <1>1, <1>2, Zenon DEF TypeOK
  <2>3. wanted[y] # {} => NextWanted(y) \in Tasks
    BY <1>2, <2>2, NextWantedIs, Zenon
  <2> QED
    BY <1>1, <2>1, <2>3 DEF TypeOK, Quiet
<1>3. CASE y \notin Claims
  <2>1. WaitsFor[y] \subseteq (UNION {{holder[t]} \cup sharers[t] : t \in todo[y]}) \ {None, y}
    BY <1>3, Zenon DEF WaitsFor
  <2>2. \A t \in todo[y] : {holder[t]} \cup sharers[t] \subseteq (Transactions \cup {None}) \ {x}
    <3>1. todo[y] \subseteq Tasks
      BY <1>1, Zenon DEF TypeOK
    <3>2. x # None
      BY TransactionsAssumption, Zenon DEF Transactions
    <3> QED
      BY <1>1, <3>1, <3>2 DEF TypeOK, Quiet, Transactions
  <2>3. ASSUME NEW z \in WaitsFor[y] PROVE z \in Transactions \ {x}
    <3>1. PICK t \in todo[y] : z \in {holder[t]} \cup sharers[t] /\ z # None
      BY <2>1, <2>3, Zenon
    <3> QED
      BY <2>2, <3>1, Zenon
  <2> QED
    BY <2>3, Zenon
<1> QED
  BY <1>2, <1>3, Zenon

(* A transaction that waits for nobody is part of no cycle of waits. *)
LEMMA IdleIsNotDeadlocked ==
  ASSUME NEW x \in Transactions, SingleWaitsFor[x] = {}
  PROVE  x \notin Waits!Reachable(SingleWaitsFor, x)
<1>1. {} \in SUBSET Transactions /\ SingleWaitsFor[x] \subseteq {} /\ Waits!ClosedUnder(SingleWaitsFor, {})
  BY Zenon DEF Waits!ClosedUnder
<1> QED
  BY <1>1, Zenon DEF Waits!Reachable

(* Claims of one task at a time wait along the causation tree, upwards,    *)
(* and owners wait before they hold anything: no cycle of waits forms,     *)
(* whatever the tree and however many claims and owners there are.         *)
THEOREM SingleClaimsNeverDeadlock ==
  Spec => []ClaimsNeverDeadlock
<1>0. /\ \A x \in Transactions : SingleWaitsFor[x] \subseteq WaitsFor[x] \cap Single
      /\ \A x \in Transactions \ Single : SingleWaitsFor[x] = {}
      /\ Single \subseteq Transactions
      /\ \A x \in Single \cap Claims : BatchSize[x] = 1
  BY Zenon DEF SingleWaitsFor, Single
<1>1. ASSUME ClaimInv, NEW x \in Owners PROVE x \notin Waits!Reachable(SingleWaitsFor, x)
  <2>1. x \in Transactions /\ x \notin Claims /\ OwnerKnows(x)
    BY <1>1, TransactionsAssumption, Zenon DEF ClaimInv, Knows, Transactions
  <2>2. CASE pc[x] # "lock"
    <3>1. WaitsFor[x] = {}
      BY <2>1, <2>2, Zenon DEF WaitsFor
    <3> QED
      BY <1>0, <2>1, <3>1, IdleIsNotDeadlocked, Zenon
  <2>3. CASE pc[x] = "lock"
    <3>1. Quiet(x)
      BY <2>1, <2>3, Zenon DEF OwnerKnows
    <3>2. \A y \in Transactions : SingleWaitsFor[y] \subseteq Transactions \ {x}
      BY <1>0, <1>1, <2>1, <3>1, NobodyWaitsForQuiet, Zenon
    <3>3. Waits!ClosedUnder(SingleWaitsFor, Transactions \ {x})
      BY <3>2, Zenon DEF Waits!ClosedUnder
    <3> QED
      BY <2>1, <3>2, <3>3, Zenon DEF Waits!Reachable
  <2> QED
    BY <2>2, <2>3, Zenon
<1>2. ASSUME ClaimInv, NEW x \in Claims PROVE x \notin Waits!Reachable(SingleWaitsFor, x)
  <2>1. x \in Transactions /\ ClaimKnows(x) /\ TypeOK /\ \A y \in Claims : y \in Transactions /\ ClaimKnows(y)
    BY <1>2, Zenon DEF ClaimInv, Knows, Transactions
  <2>2. CASE wanted[x] = {} \/ x \notin Single
    <3>1. SingleWaitsFor[x] = {}
      BY <1>0, <1>2, <2>1, <2>2, Zenon DEF WaitsFor
    <3> QED
      BY <2>1, <3>1, IdleIsNotDeadlocked, Zenon
  <2>3. CASE wanted[x] # {} /\ x \in Single
    (* a claim that waits waits for the holder of an ancestor of the one row it holds *)
    <3>1. ASSUME NEW y \in Claims, wanted[y] # {}
          PROVE  /\ current[y] \in Tasks /\ holder[current[y]] = y
                 /\ NextWanted(y) \in Ancestors[current[y]]
                 /\ WaitsFor[y] = {holder[NextWanted(y)]} \ {None, y}
      <4>1. current[y] \in Tasks /\ pc[y] = "decide" /\ wanted[y] \subseteq Tasks
        BY <2>1, <3>1 DEF ClaimKnows, TypeOK
      <4>2. NextWanted(y) \in wanted[y]
        BY <3>1, <4>1, NextWantedIs, Zenon
      <4>3. current[y] \in todo[y] /\ wanted[y] \subseteq Ancestors[current[y]]
        BY <2>1, <3>1, <4>1, ParentAssumption, Zenon DEF ClaimKnows
      <4>4. WaitsFor[y] = {holder[NextWanted(y)]} \ {None, y}
        BY <2>1, <3>1, Zenon DEF WaitsFor
      <4> QED
        BY <2>1, <4>1, <4>2, <4>3, <4>4, SMTT(30) DEF ClaimKnows
    <3> DEFINE top == current[x]
               S == {y \in Single : \E a \in Ancestors[top] : holder[a] = y}
    <3>2. top \in Tasks /\ holder[top] = x
      BY <2>3, <3>1, Zenon
    <3>3. /\ Ancestors[top] \subseteq Tasks /\ top \notin Ancestors[top]
          /\ \A a \in Ancestors[top] : Ancestors[a] \subseteq Ancestors[top]
      BY <3>2, AncestorsAre, Zenon
    <3>4. ASSUME NEW y \in Single \cap Claims, NEW s \in Tasks, NEW t \in Tasks, holder[s] = y, holder[t] = y
          PROVE  s = t
      <4>1. BatchSize[y] = 1 /\ y \in Claims
        BY <1>0, Zenon
      <4> QED
        BY <1>2, <3>4, <4>1, Zenon DEF ClaimInv, OneCandidate
    <3>5. x \notin S
      BY <1>2, <2>3, <3>2, <3>3, <3>4, Zenon
    <3>6. SingleWaitsFor[x] \subseteq S
      <4>1. NextWanted(x) \in Ancestors[top] /\ WaitsFor[x] = {holder[NextWanted(x)]} \ {None, x}
        BY <2>3, <3>1, Zenon
      <4>2. SingleWaitsFor[x] \subseteq WaitsFor[x] \cap Single
        BY <1>0, <2>1, Zenon
      <4> QED
        BY <4>1, <4>2, Zenon
    <3>7. ASSUME NEW y \in S PROVE SingleWaitsFor[y] \subseteq S
      <4>0. y \in Single /\ y \in Transactions /\ SingleWaitsFor[y] \subseteq WaitsFor[y] \cap Single
        BY <1>0, <3>7, Zenon
      <4>1. PICK a \in Ancestors[top] : holder[a] = y
        BY <3>7, Zenon
      <4>2. CASE y \in Claims /\ wanted[y] = {}
        BY <2>1, <4>0, <4>2, Zenon DEF WaitsFor
      <4>3. CASE y \in Claims /\ wanted[y] # {}
        <5>1. /\ current[y] \in Tasks /\ holder[current[y]] = y
              /\ NextWanted(y) \in Ancestors[current[y]]
              /\ WaitsFor[y] = {holder[NextWanted(y)]} \ {None, y}
          BY <3>1, <4>3, Zenon
        <5>2. current[y] = a
          BY <3>3, <3>4, <4>0, <4>1, <4>3, <5>1, Zenon
        <5>3. NextWanted(y) \in Ancestors[top]
          BY <3>3, <4>1, <5>1, <5>2, Zenon
        <5> QED
          BY <4>0, <5>1, <5>3, Zenon
      <4>4. CASE y \notin Claims
        <5>1. y \in Owners /\ OwnerKnows(y)
          BY <1>2, <4>0, <4>4, Zenon DEF ClaimInv, Knows, Transactions
        <5>2. ~Quiet(y)
          BY <3>3, <4>1, Zenon DEF Quiet
        <5> QED
          BY <4>0, <4>4, <5>1, <5>2, Zenon DEF WaitsFor, OwnerKnows
      <4> QED
        BY <4>2, <4>3, <4>4, Zenon
    <3>8. S \in SUBSET Transactions /\ Waits!ClosedUnder(SingleWaitsFor, S)
      BY <1>0, <3>7, Zenon DEF Waits!ClosedUnder
    <3> HIDE DEF S
    <3> QED
      BY <3>6, <3>8, <3>5, Zenon DEF Waits!Reachable
  <2> QED
    BY <2>2, <2>3, Zenon
<1>3. ClaimInv => ClaimsNeverDeadlock
  BY <1>1, <1>2, Zenon DEF ClaimsNeverDeadlock, Transactions
<1> QED
  BY <1>3, ClaimInvHolds, PTL

-----------------------------------------------------------------------------
(* AddDependency, statement by statement. *)

USE CallersAssumption

(* Both rows of an edge are locked from before the cycle query to the      *)
(* commit, the task's own row first.                                       *)
EdgeInv ==
  /\ EdgeTypeOK
  /\ \A x \in Callers :
       /\ statement[x] # "idle" => Task(x) # DependsOn(x)
       /\ statement[x] \in {"lockDependency", "checkCycle", "insert"} => rowHolder[Task(x)] = x
       /\ statement[x] \in {"checkCycle", "insert"} => rowHolder[DependsOn(x)] = x

(* No two callers are between their cycle query and their commit. *)
OneDecides == \A x, y \in Callers : statement[x] = "insert" /\ statement[y] = "insert" => x = y

(* A caller about to insert has an edge that closes no cycle. *)
EdgesChecked ==
  \A x \in Callers :
    statement[x] = "insert" => ~WouldCycle(deps, Task(x), DependsOn(x))

(* The empty table, nobody in a transaction. *)
LEMMA EdgeInitInv ==
  EdgeInit => EdgeInv /\ Acyclic(deps) /\ EdgesChecked
<1> SUFFICES ASSUME EdgeInit PROVE EdgeInv /\ Acyclic(deps) /\ EdgesChecked
  BY Zenon
<1>1. EdgeInv
  BY DEF EdgeInit, EdgeInv, EdgeTypeOK, Statements, Task, DependsOn
<1>2. \A t \in Tasks : deps[t] = {}
  BY Zenon DEF EdgeInit
<1>3. Acyclic(deps)
  <2>1. \A t \in Tasks : Reachable(deps, t) = {}
    <3>1. ClosedUnder(deps, {})
      BY Zenon DEF ClosedUnder
    <3> QED
      BY <1>2, <3>1, Zenon DEF Reachable
  <2> QED
    BY <2>1, Zenon DEF Acyclic
<1>4. EdgesChecked
  BY Zenon DEF EdgesChecked, EdgeInit
<1> QED
  BY <1>1, <1>3, <1>4, Zenon

(* What a step of one caller leaves alone. *)
LEMMA EdgeStep ==
  ASSUME EdgeInv, NEW x \in Callers, Begin(x) \/ AddDependency(x)
  PROVE  /\ EdgeInv'
         /\ \A y \in Callers \ {x} : statement'[y] = statement[y] /\ edge'[y] = edge[y]
         /\ \/ deps' = deps /\ (statement'[x] = "insert" => CheckCycle(x))
            \/ InsertAndCommit(x)
<1>1. /\ EdgeTypeOK /\ x # NoCaller
      /\ statement[x] # "idle" => Task(x) # DependsOn(x)
  BY Zenon DEF EdgeInv
<1>2. CASE Begin(x)
  <2>1. PICK t \in Tasks, d \in Tasks : t # d /\ edge' = [edge EXCEPT ![x] = <<t, d>>]
    BY <1>2, Zenon DEF Begin
  <2>2. statement[x] = "idle" /\ statement' = [statement EXCEPT ![x] = "lockTask"] /\ deps' = deps /\ rowHolder' = rowHolder
    BY <1>2, Zenon DEF Begin
  <2>3. /\ statement'[x] = "lockTask" /\ edge'[x] = <<t, d>>
        /\ \A y \in Callers \ {x} : statement'[y] = statement[y] /\ edge'[y] = edge[y]
    BY <1>1, <2>1, <2>2, Zenon DEF EdgeTypeOK
  <2>4. \A u \in Tasks : rowHolder[u] # x
    BY <1>1, <2>2, Zenon DEF EdgeTypeOK
  <2>5. EdgeTypeOK'
    BY <1>1, <2>1, <2>2, <2>3, <2>4, Zenon DEF EdgeTypeOK, Statements, Task, DependsOn
  <2>6. EdgeInv'
    BY <2>1, <2>2, <2>3, <2>5 DEF EdgeInv, Task, DependsOn
  <2> QED
    BY <2>2, <2>3, <2>6, Zenon
<1>3. ASSUME NEW t \in Tasks, NEW next \in {"lockDependency", "checkCycle"}, lockTask(x, t, next),
             \/ statement[x] = "lockTask" /\ t = Task(x) /\ next = "lockDependency"
             \/ statement[x] = "lockDependency" /\ t = DependsOn(x) /\ next = "checkCycle"
      PROVE  EdgeInv' /\ \A y \in Callers \ {x} : statement'[y] = statement[y] /\ edge'[y] = edge[y]
  <2>1. /\ rowHolder[t] = NoCaller /\ rowHolder' = [rowHolder EXCEPT ![t] = x]
        /\ statement' = [statement EXCEPT ![x] = next] /\ deps' = deps /\ edge' = edge
    BY <1>3, Zenon DEF lockTask
  <2>2. statement'[x] = next /\ \A y \in Callers \ {x} : statement'[y] = statement[y]
    BY <1>1, <2>1, Zenon DEF EdgeTypeOK
  <2>3. rowHolder'[t] = x /\ \A u \in Tasks : rowHolder[u] # NoCaller => rowHolder'[u] = rowHolder[u]
    BY <1>1, <2>1, Zenon DEF EdgeTypeOK
  <2>4. EdgeTypeOK'
    BY <1>1, <1>3, <2>1, <2>2, Zenon DEF EdgeTypeOK, Statements, Task, DependsOn
  <2>5. \A y \in Callers : Task(y) \in Tasks /\ DependsOn(y) \in Tasks /\ y # NoCaller
    BY <1>1, Zenon DEF EdgeTypeOK, Task, DependsOn
  <2>6. EdgeInv'
    BY <1>3, <2>1, <2>2, <2>3, <2>4, <2>5, SMTT(30) DEF EdgeInv, Task, DependsOn
  <2> QED
    BY <2>1, <2>2, <2>6, Zenon
<1>4. ASSUME EndCall(x), deps' \in [Tasks -> SUBSET Tasks]
      PROVE  /\ EdgeInv' /\ statement'[x] = "idle"
             /\ \A y \in Callers \ {x} : statement'[y] = statement[y] /\ edge'[y] = edge[y]
  <2>1. /\ rowHolder' = [t \in Tasks |-> IF rowHolder[t] = x THEN NoCaller ELSE rowHolder[t]]
        /\ statement' = [statement EXCEPT ![x] = "idle"] /\ edge' = edge
    BY <1>4, Zenon DEF EndCall
  <2>2. statement'[x] = "idle" /\ \A y \in Callers \ {x} : statement'[y] = statement[y]
    BY <1>1, <2>1, Zenon DEF EdgeTypeOK
  <2>3. EdgeTypeOK'
    BY <1>1, <1>4, <2>1, <2>2, Zenon DEF EdgeTypeOK, Statements, Task, DependsOn
  <2>4. \A y \in Callers : Task(y) \in Tasks /\ DependsOn(y) \in Tasks
    BY <1>1, Zenon DEF EdgeTypeOK, Task, DependsOn
  <2>5. EdgeInv'
    BY <2>1, <2>2, <2>3, <2>4, Zenon DEF EdgeInv, Task, DependsOn
  <2> QED
    BY <2>1, <2>2, <2>5, Zenon
<1>5. CASE LockTask(x) \/ LockDependency(x)
  <2>1. Task(x) \in Tasks /\ DependsOn(x) \in Tasks
    BY <1>1, Zenon DEF EdgeTypeOK, Task, DependsOn
  <2>2. EdgeInv' /\ \A y \in Callers \ {x} : statement'[y] = statement[y] /\ edge'[y] = edge[y]
    BY <1>3, <1>5, <2>1, Zenon DEF LockTask, LockDependency
  <2>3. deps' = deps /\ statement'[x] # "insert"
    BY <1>1, <1>5, Zenon DEF LockTask, LockDependency, lockTask, EdgeTypeOK
  <2> QED
    BY <2>2, <2>3, Zenon
<1>6. CASE Refuse(x) \/ AbortCall(x)
  <2>1. EndCall(x) /\ deps' = deps /\ deps' \in [Tasks -> SUBSET Tasks]
    BY <1>1, <1>6, Zenon DEF Refuse, AbortCall, EdgeTypeOK
  <2> QED
    BY <1>4, <2>1, Zenon
<1>7. CASE CheckCycle(x)
  <2>1. deps' = deps /\ deps' \in [Tasks -> SUBSET Tasks]
    BY <1>1, <1>7, Zenon DEF CheckCycle, EdgeTypeOK
  <2>2. CASE EndCall(x)
    BY <1>4, <1>7, <2>1, <2>2, Zenon
  <2>3. CASE statement' = [statement EXCEPT ![x] = "insert"] /\ rowHolder' = rowHolder /\ edge' = edge
    <3>1. statement[x] = "checkCycle" /\ statement'[x] = "insert" /\ \A y \in Callers \ {x} : statement'[y] = statement[y]
      BY <1>1, <1>7, <2>3, Zenon DEF CheckCycle, EdgeTypeOK
    <3>2. EdgeTypeOK'
      BY <1>1, <2>1, <2>3, <3>1, Zenon DEF EdgeTypeOK, Statements, Task, DependsOn
    <3>3. EdgeInv'
      BY <2>3, <3>1, <3>2, Zenon DEF EdgeInv, Task, DependsOn
    <3> QED
      BY <1>7, <2>1, <2>3, <3>1, <3>3, Zenon
  <2> QED
    BY <1>7, <2>2, <2>3, Zenon DEF CheckCycle
<1>8. CASE InsertAndCommit(x)
  <2>1. Task(x) \in Tasks /\ DependsOn(x) \in Tasks
    BY <1>1, Zenon DEF EdgeTypeOK, Task, DependsOn
  <2>2. EndCall(x) /\ deps' \in [Tasks -> SUBSET Tasks]
    BY <1>1, <1>8, <2>1, Zenon DEF InsertAndCommit, EdgeTypeOK, AddEdge
  <2> QED
    BY <1>4, <1>8, <2>2, Zenon
<1> QED
  BY <1>2, <1>5, <1>6, <1>7, <1>8, Zenon DEF AddDependency, Proceed

(* The locks on both rows of an edge hold throughout. *)
LEMMA EdgeInvHolds ==
  EdgeSpec => []EdgeInv
<1>1. EdgeSpec => EdgeInit /\ [][EdgeNext]_edgeVars
  BY PTL DEF EdgeSpec
<1>2. EdgeInit => EdgeInv
  BY EdgeInitInv, Zenon
<1>3. ASSUME EdgeInv, [EdgeNext]_edgeVars
      PROVE  EdgeInv'
  <2>1. CASE UNCHANGED edgeVars
    BY <1>3, <2>1, Zenon DEF edgeVars, EdgeInv, EdgeTypeOK, Task, DependsOn
  <2>2. ASSUME NEW x \in Callers, Begin(x) \/ AddDependency(x)
        PROVE  EdgeInv'
    BY <1>3, <2>2, EdgeStep, Zenon
  <2> QED
    BY <1>3, <2>1, <2>2, Zenon DEF EdgeNext
<1> QED
  BY <1>1, <1>2, <1>3, PTL

(* Two callers that have both locked the two rows of their edge have no    *)
(* task in common.                                                         *)
LEMMA LockedEdgesAreDisjoint ==
  ASSUME EdgeInv
  PROVE  OverlappingEdgesSerialised
  BY Zenon DEF EdgeInv, OverlappingEdgesSerialised

(* While at most one caller is between its cycle query and its commit, the *)
(* query's answer is still right when the edge is inserted.                *)
LEMMA AcyclicStep ==
  ASSUME EdgeInv, OneDecides, Acyclic(deps), EdgesChecked,
         NEW x \in Callers, Begin(x) \/ AddDependency(x)
  PROVE  Acyclic(deps') /\ EdgesChecked'
<1>1. /\ \A y \in Callers \ {x} : statement'[y] = statement[y] /\ edge'[y] = edge[y]
      /\ \/ deps' = deps /\ (statement'[x] = "insert" => CheckCycle(x))
         \/ InsertAndCommit(x)
  BY EdgeStep, Zenon
<1>2. CASE deps' = deps /\ (statement'[x] = "insert" => CheckCycle(x))
  <2>1. ASSUME NEW y \in Callers, statement'[y] = "insert"
        PROVE  ~WouldCycle(deps, edge'[y][1], edge'[y][2])
    <3>1. CASE y # x
      BY <1>1, <2>1, <3>1, Zenon DEF EdgesChecked, Task, DependsOn
    <3>2. CASE y = x
      <4>1. CheckCycle(x)
        BY <1>2, <2>1, <3>2, Zenon
      <4>2. ~WouldCycle(deps, Task(x), DependsOn(x)) /\ edge' = edge
        BY <2>1, <3>2, <4>1, Zenon DEF CheckCycle, EndCall, EdgeInv, EdgeTypeOK
      <4> QED
        BY <3>2, <4>2, Zenon DEF WouldCycle, WouldCycle, Reachable, Reachable, ClosedUnder, ClosedUnder,
             Task, DependsOn
    <3> QED
      BY <3>1, <3>2, Zenon
  <2>2. EdgesChecked'
    BY <1>2, <2>1, Zenon DEF EdgesChecked, Task, DependsOn
  <2> QED
    BY <1>2, <2>2, Zenon
<1>3. CASE InsertAndCommit(x)
  <2>1. /\ statement[x] = "insert" /\ statement'[x] = "idle"
        /\ deps' = AddEdge(deps, Task(x), DependsOn(x))
    BY <1>3, Zenon DEF InsertAndCommit, EndCall, EdgeInv, EdgeTypeOK
  <2>2. /\ deps \in Graphs /\ Task(x) \in Tasks /\ DependsOn(x) \in Tasks
        /\ Task(x) # DependsOn(x)
    BY <2>1, Zenon DEF EdgeInv, EdgeTypeOK, Graphs, Task, DependsOn
  <2>3. ~WouldCycle(deps, Task(x), DependsOn(x))
    BY <2>1, Zenon DEF EdgesChecked
  <2>4. deps' = AddEdge(deps, Task(x), DependsOn(x))
    BY <2>1, Zenon DEF AddEdge, AddEdge
  <2>5. Acyclic(deps')
    BY <2>2, <2>3, <2>4, AddEdgeKeepsAcyclic, Zenon
  <2>6. \A y \in Callers : statement'[y] # "insert"
    BY <1>1, <2>1, Zenon DEF OneDecides
  <2> QED
    BY <2>5, <2>6, Zenon DEF EdgesChecked
<1> QED
  BY <1>1, <1>2, <1>3, Zenon

(* As long as no two AddDependency calls are between their cycle query and *)
(* their commit at once, the committed graph stays acyclic: this overlap   *)
(* is the only way the statements of mutate.go can commit a cycle.         *)
THEOREM OneDecisionKeepsAcyclic ==
  EdgeSpec /\ []OneDecides => []CommittedAcyclic
<1>1. EdgeSpec => EdgeInit /\ [][EdgeNext]_edgeVars
  BY PTL DEF EdgeSpec
<1>2. EdgeInit => Acyclic(deps) /\ EdgesChecked
  BY EdgeInitInv, Zenon
<1>3. ASSUME EdgeInv, OneDecides, Acyclic(deps) /\ EdgesChecked, [EdgeNext]_edgeVars
      PROVE  (Acyclic(deps) /\ EdgesChecked)'
  <2>1. CASE UNCHANGED edgeVars
    BY <1>3, <2>1, Zenon DEF edgeVars, EdgesChecked, Task, DependsOn
  <2>2. ASSUME NEW x \in Callers, Begin(x) \/ AddDependency(x)
        PROVE  Acyclic(deps') /\ EdgesChecked'
    BY <1>3, <2>2, AcyclicStep, Zenon
  <2> QED
    BY <1>3, <2>1, <2>2, Zenon DEF EdgeNext
<1>4. Acyclic(deps) /\ EdgesChecked => CommittedAcyclic
  BY Zenon DEF CommittedAcyclic, Acyclic, Acyclic, Reachable, Reachable, ClosedUnder, ClosedUnder
<1> QED
  BY <1>1, <1>2, <1>3, <1>4, EdgeInvHolds, PTL

(* AddDependency's two row locks serialise every two edges that share a   *)
(* task, whichever of the two rows each caller locks first.                *)
THEOREM OverlappingEdgesAreSerialised ==
  EdgeSpec => []OverlappingEdgesSerialised
  BY EdgeInvHolds, LockedEdgesAreDisjoint, PTL

(* Two callers with no task in common are not both about to insert. *)
DisjointEdgesApart ==
  \A x, y \in Callers :
    x # y /\ statement[x] = "insert" /\ statement[y] = "insert"
      => {Task(x), DependsOn(x)} \cap {Task(y), DependsOn(y)} # {}

(* Only edges with no task in common can race past the cycle query: if no  *)
(* two such calls are between query and commit at once, the row locks of   *)
(* mutate.go do the rest and the committed graph stays acyclic, whatever   *)
(* other calls overlap and however many tasks there are.                   *)
THEOREM OnlyDisjointEdgesCloseCycles ==
  EdgeSpec /\ []DisjointEdgesApart => []CommittedAcyclic
<1>1. ASSUME EdgeInv, DisjointEdgesApart
      PROVE  OneDecides
  <2> SUFFICES ASSUME NEW x \in Callers, NEW y \in Callers, statement[x] = "insert", statement[y] = "insert", x # y
               PROVE  FALSE
    BY Zenon DEF OneDecides
  <2>1. {Task(x), DependsOn(x)} \cap {Task(y), DependsOn(y)} = {}
    BY <1>1, LockedEdgesAreDisjoint, Zenon DEF OverlappingEdgesSerialised
  <2> QED
    BY <1>1, <2>1, Zenon DEF DisjointEdgesApart
<1> QED
  BY <1>1, EdgeInvHolds, OneDecisionKeepsAcyclic, PTL

-----------------------------------------------------------------------------
(* The outbox: an event's row is locked by every operation on it. *)

USE MaxAttemptsAssumption

(* What is known of one event.  Its type alone is not inductive: a claim   *)
(* does not compare attempt_count with max_attempts, so that it stays      *)
(* within them needs that a pending event has an attempt left; and what    *)
(* pruning loses depends on who published and why an event died.           *)
OutboxInv ==
  /\ OutboxTypeOK /\ AttemptsAccounted /\ PublishedByLatestClaim /\ NothingFreshIsLost
  /\ \A e \in Events : eventStatus[e] = "absent" => attempts[e] = 0

(* The empty table satisfies it. *)
LEMMA OutboxInitInv ==
  OutboxInit => OutboxInv
  BY DEF OutboxInit, OutboxInv, OutboxTypeOK, AttemptsAccounted, PublishedByLatestClaim,
       NothingFreshIsLost

(* A claim, a failed claim and its recovery keep the attempts accounted    *)
(* for: an event goes back to pending only with an attempt left.           *)
LEMMA EventClaimStep ==
  ASSUME OutboxInv, NEW e \in Events,
         \/ appendTaskEvent(e) \/ ClaimOutbox(e) \/ recoverOutbox(e)
         \/ \E n \in Ordinals : NackOutbox(e, n)
  PROVE  OutboxInv'
<1>1. /\ attempts[e] \in 0..MaxAttempts /\ MaxAttempts \in Nat /\ MaxAttempts > 0
      /\ delivered[e] \subseteq Ordinals
      /\ eventStatus[e] = "pending" => attempts[e] < MaxAttempts
      /\ eventStatus[e] = "claimed" => attempts[e] > 0
      /\ eventStatus[e] # "claimed" => ~live[e]
  BY Zenon DEF OutboxInv, OutboxTypeOK, AttemptsAccounted
<1>2. CASE appendTaskEvent(e)
  <2>1. attempts[e] < MaxAttempts
    BY <1>2, Zenon DEF appendTaskEvent, OutboxInv
  <2> QED
    BY <1>1, <1>2, <2>1, Zenon DEF appendTaskEvent, OutboxInv, OutboxTypeOK, AttemptsAccounted,
         PublishedByLatestClaim, NothingFreshIsLost
<1>3. CASE ClaimOutbox(e)
  BY <1>1, <1>3, SMTT(30) DEF ClaimOutbox, OutboxInv, OutboxTypeOK, AttemptsAccounted,
       PublishedByLatestClaim, NothingFreshIsLost
<1>4. CASE recoverOutbox(e)
  BY <1>1, <1>4, SMTT(30) DEF recoverOutbox, Returned, OutboxInv, OutboxTypeOK, AttemptsAccounted,
       PublishedByLatestClaim, NothingFreshIsLost
<1>5. ASSUME NEW n \in Ordinals, NackOutbox(e, n) PROVE OutboxInv'
  <2>1. /\ eventStatus[e] = "claimed" /\ eventStatus' = [eventStatus EXCEPT ![e] = Returned(e)]
        /\ live' = [live EXCEPT ![e] = FALSE] /\ due' \in [Events -> BOOLEAN]
        /\ UNCHANGED <<attempts, age, delivered>>
    BY <1>5, Zenon DEF NackOutbox, verifyOutboxClaim, OutboxInv, OutboxTypeOK
  <2>2. \/ Returned(e) = "dead" /\ attempts[e] = MaxAttempts
        \/ Returned(e) = "pending" /\ attempts[e] < MaxAttempts
    BY <1>1 DEF Returned
  <2> QED
    BY <1>1, <2>1, <2>2, Zenon DEF OutboxInv, OutboxTypeOK, AttemptsAccounted, PublishedByLatestClaim,
         NothingFreshIsLost
<1> QED
  BY <1>2, <1>3, <1>4, <1>5, Zenon

(* An acknowledgement publishes the event under the claim that is current, *)
(* and pruning takes what was published, died or aged.                     *)
LEMMA EventEndStep ==
  ASSUME OutboxInv, NEW e \in Events,
         PruneOutbox(e) \/ \E n \in Ordinals : AckOutbox(e, n)
  PROVE  OutboxInv'
<1>1. /\ eventStatus[e] = "claimed" => attempts[e] > 0
      /\ eventStatus[e] = "dead" => attempts[e] = MaxAttempts
      /\ eventStatus[e] = "published" => delivered[e] # {}
      /\ eventStatus[e] # "claimed" => ~live[e]
  BY Zenon DEF OutboxInv, AttemptsAccounted, PublishedByLatestClaim, OutboxTypeOK
<1>2. CASE PruneOutbox(e)
  <2>1. delivered[e] = {} => attempts[e] = MaxAttempts \/ age[e] = "month"
    BY <1>1, <1>2, Zenon DEF PruneOutbox, PruneAges
  <2> QED
    BY <1>1, <1>2, <2>1, Zenon DEF PruneOutbox, OutboxInv, OutboxTypeOK, AttemptsAccounted,
         PublishedByLatestClaim, NothingFreshIsLost
<1>3. ASSUME NEW n \in Ordinals, AckOutbox(e, n) PROVE OutboxInv'
  BY <1>1, <1>3, Zenon DEF AckOutbox, verifyOutboxClaim, OutboxInv, OutboxTypeOK, AttemptsAccounted,
       PublishedByLatestClaim, NothingFreshIsLost
<1> QED
  BY <1>2, <1>3, Zenon

(* Deliveries, late ones included, and the passing of time take nothing    *)
(* away.                                                                   *)
LEMMA EventPassiveStep ==
  ASSUME OutboxInv, NEW e \in Events,
         \/ ClaimExpires(e) \/ BecomesDue(e) \/ GrowsOlder(e)
         \/ \E n \in Ordinals : Deliver(e, n)
  PROVE  OutboxInv'
<1>1. CASE ClaimExpires(e) \/ BecomesDue(e)
  BY <1>1, Zenon DEF ClaimExpires, BecomesDue, OutboxInv, OutboxTypeOK, AttemptsAccounted,
       PublishedByLatestClaim, NothingFreshIsLost
<1>2. CASE GrowsOlder(e)
  BY <1>2, Zenon DEF GrowsOlder, OutboxInv, OutboxTypeOK, AttemptsAccounted, PublishedByLatestClaim,
       NothingFreshIsLost
<1>3. ASSUME NEW n \in Ordinals, Deliver(e, n) PROVE OutboxInv'
  BY <1>3, Zenon DEF Deliver, OutboxInv, OutboxTypeOK, AttemptsAccounted, PublishedByLatestClaim,
       NothingFreshIsLost
<1> QED
  BY <1>1, <1>2, <1>3, Zenon

(* Every step of the outbox preserves the invariant. *)
LEMMA OutboxStep ==
  OutboxInv /\ [OutboxNext]_outboxVars => OutboxInv'
<1>1. CASE UNCHANGED outboxVars
  BY <1>1, Zenon DEF outboxVars, OutboxInv, OutboxTypeOK, AttemptsAccounted, PublishedByLatestClaim,
       NothingFreshIsLost
<1> QED
  BY <1>1, EventClaimStep, EventEndStep, EventPassiveStep, Zenon DEF OutboxNext

(* The invariant holds for any number of events, consumers and attempts.   *)
LEMMA OutboxInvHolds ==
  OutboxSpec => []OutboxInv
<1>1. OutboxSpec => OutboxInit /\ [][OutboxNext]_outboxVars
  BY PTL DEF OutboxSpec
<1> QED
  BY <1>1, OutboxInitInv, OutboxStep, PTL

(* attempt_count never passes max_attempts although ClaimOutbox does not   *)
(* compare them: whatever sends an event back to pending leaves it an      *)
(* attempt, and a dead event has used all of them (outbox.go).             *)
THEOREM EventAttemptsAccounted ==
  OutboxSpec => []AttemptsAccounted
<1>1. OutboxInv => AttemptsAccounted
  BY Zenon DEF OutboxInv
<1> QED
  BY <1>1, OutboxInvHolds, PTL

(* AckOutbox publishes an event only for the holder of its latest claim,   *)
(* however late the acknowledgements of earlier consumers arrive.          *)
THEOREM EventsPublishedByLatestClaim ==
  OutboxSpec => []PublishedByLatestClaim
<1>1. OutboxInv => PublishedByLatestClaim
  BY Zenon DEF OutboxInv
<1> QED
  BY <1>1, OutboxInvHolds, PTL

(* PruneOutbox loses no event that was neither handed on nor given up nor  *)
(* a month old.                                                            *)
THEOREM PruningLosesNothingFresh ==
  OutboxSpec => []NothingFreshIsLost
<1>1. OutboxInv => NothingFreshIsLost
  BY Zenon DEF OutboxInv
<1> QED
  BY <1>1, OutboxInvHolds, PTL
=============================================================================
