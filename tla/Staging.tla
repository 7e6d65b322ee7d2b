------------------------------- MODULE Staging -------------------------------
(***************************************************************************)
(* Staging as a whole: callers of staging.Service, the reconciler of orgd, *)
(* the rows of StagingStore, the worktrees and artifacts on disk, and the  *)
(* target ref of the repository.  An operation of the service is a         *)
(* sequence of steps, each one transaction, one Git command or one read;   *)
(* a caller may stop after any of them (an error returned, a timeout, a    *)
(* crash), and the next call starts from whatever is left.                 *)
(*                                                                         *)
(* A commit is named by the workspace whose candidate it is; the others    *)
(* are Root, where the ref starts, and commits pushed by someone else.     *)
(***************************************************************************)
EXTENDS StagingStore, Sequences, FiniteSets

CONSTANTS
  Root,     \* the commit the ref points at initially
  Foreign,  \* commits someone else may push, once each
  Callers,  \* processes that call the service
  Builders, \* those that also create, seal and clean up workspaces
  Others,   \* further workspaces, of which only their place in the order matters
  Batch,    \* rows a statement of the reconciler takes
  MaxFaults \* errors and timeouts the reconciler may meet

ASSUME OthersAssumption == Others \cap (Workspaces \cup Promotions) = {}
ASSUME CallersAssumption == Builders \subseteq Callers /\ Batch \in Nat \ {0} /\ MaxFaults \in Nat
ASSUME CommitsAssumption ==
  /\ Commits = {Root} \cup Workspaces \cup Foreign
  /\ Root \notin Workspaces \cup Foreign /\ Workspaces \cap Foreign = {} /\ None \notin Commits

VARIABLES
  history,  \* what the target ref has pointed at, in order
  tree,     \* worktree of each workspace, as Git sees it
  stored,   \* workspaces whose manifest and patch are in the artifact store
  proc,     \* where each caller is
  rec,      \* where the reconciler is
  order,    \* rows the reconciler asks for, by updated_at
  faults    \* errors it has met

diskVars == <<history, tree, stored>>
vars == <<storeVars, diskVars, proc, rec, order, faults>>

ReadTarget == history[Len(history)]

(* No directory; one that git worktree add left half-written and that Git  *)
(* cannot read; clean at the base; changed; clean at the candidate, or     *)
(* changed after the candidate was committed.                              *)
Trees == {"none", "partial", "base", "edited", "candidate", "soiled"}

Idle == [pc |-> "idle", on |-> None, version |-> 0, base |-> None]
Quiet == [pc |-> "idle", todo |-> {}, on |-> None, found |-> "none"]

Building == {"provision", "worktree", "activate", "commit", "put", "seal", "remove", "complete"}
Promoting == {"promote", "update_ref", "applied", "conflicted"}
Passes == {"idle", "stale", "inspected", "known", "listing", "promotions", "read", "cleanup"}
Rows == [of: Workspaces, status: WorkspaceStatus, version: Nat]

TypeOK ==
  /\ StoreTypeOK
  /\ history \in Seq(Commits) /\ history # <<>>
  /\ tree \in [Workspaces -> Trees]
  /\ stored \subseteq Workspaces
  /\ proc \in [Callers -> [pc: {"idle"} \cup Building \cup Promoting, on: Workspaces \cup Promotions \cup {None},
                          version: Nat, base: Commits \cup {None}]]
  /\ rec \in [pc: Passes, todo: SUBSET (Rows \cup Workspaces \cup Promotions),
              on: Rows \cup Promotions \cup {None}, found: Trees \cup Promoting]
  /\ order \in Seq(Workspaces \cup Promotions \cup Others) /\ faults \in 0..MaxFaults

Init ==
  /\ StoreInit
  /\ history = <<Root>>
  /\ tree = [w \in Workspaces |-> "none"]
  /\ stored = {}
  /\ proc = [c \in Callers |-> Idle]
  /\ rec = Quiet
  /\ order \in {s \in [1..Cardinality(Others) -> Others] : \A o \in Others : \E i \in DOMAIN s : s[i] = o}
  /\ faults = 0

-----------------------------------------------------------------------------
(* Callers *)

At(c, pc) == proc[c].pc = pc
On(c) == proc[c].on
Begin(c, pc, on, version, base) ==
  /\ At(c, "idle")
  /\ proc' = [proc EXCEPT ![c] = [pc |-> pc, on |-> on, version |-> version, base |-> base]]
Goto(c, pc) == proc' = [proc EXCEPT ![c].pc = pc]
Return(c) == proc' = [proc EXCEPT ![c] = Idle]

(* CreateWorkspace: the lease is verified and the base compared with the   *)
(* target, the row inserted, the worktree added, the row activated.        *)
CheckBase(c, w) ==
  /\ LeaseActive(w)
  /\ Begin(c, "provision", w, 0, ReadTarget)
  /\ UNCHANGED <<storeVars, diskVars, rec>>

Provision(c) ==
  /\ At(c, "provision")
  /\ CreateProvisioning(On(c), proc[c].base)
  /\ proc' = [proc EXCEPT ![c] = [pc |-> "worktree", on |-> @.on, version |-> 2, base |-> @.base]]
  /\ UNCHANGED <<diskVars, rec>>

AddWorktree(c) ==
  /\ At(c, "worktree") /\ tree[On(c)] = "none"
  /\ tree' = [tree EXCEPT ![On(c)] = "base"]
  /\ Goto(c, "activate")
  /\ UNCHANGED <<storeVars, history, stored, rec>>

(* Git fails, before, while or after the directory is written; the row is  *)
(* failed, unless it no longer can be or the caller dies with Git.         *)
AddWorktreeFails(c) ==
  LET w == On(c) IN
  /\ At(c, "worktree")
  /\ \/ tree' = tree
     \/ tree[w] = "none" /\ \E left \in {"partial", "base"} : tree' = [tree EXCEPT ![w] = left]
  /\ FailWorkspace(w) \/ UNCHANGED storeVars
  /\ Return(c)
  /\ UNCHANGED <<history, stored, rec>>

Activate(c) ==
  /\ At(c, "activate")
  /\ ActivateWorkspace(On(c), proc[c].version)
  /\ Return(c)
  /\ UNCHANGED <<diskVars, rec>>

(* SealWorkspace: Git commits the candidate and points the workspace's ref *)
(* at it, manifest and patch are stored, the row is sealed.                *)
BeginSeal(c, w) ==
  /\ workspace[w].status = "active" /\ LeaseActive(w)
  /\ Begin(c, "commit", w, workspace[w].version, None)
  /\ UNCHANGED <<storeVars, diskVars, rec>>

SealWorktree(c) ==
  /\ At(c, "commit") /\ tree[On(c)] \in {"edited", "candidate"}
  /\ tree' = [tree EXCEPT ![On(c)] = "candidate"]
  /\ Goto(c, "put")
  /\ UNCHANGED <<storeVars, history, stored, rec>>

PutArtifacts(c) ==
  /\ At(c, "put")
  /\ stored' = stored \cup {On(c)}
  /\ Goto(c, "seal")
  /\ UNCHANGED <<storeVars, history, tree, rec>>

Seal(c) ==
  /\ At(c, "seal")
  /\ SealWorkspace(On(c), proc[c].version)
  /\ Return(c)
  /\ UNCHANGED <<diskVars, rec>>

(* CleanupWorkspace *)
StartCleanup(c, w) ==
  /\ BeginCleanup(w)
  /\ Begin(c, "remove", w, 0, None)
  /\ UNCHANGED <<diskVars, rec>>

RemoveWorktree(c) ==
  /\ At(c, "remove") /\ tree[On(c)] # "partial"
  /\ tree' = [tree EXCEPT ![On(c)] = "none"]
  /\ Goto(c, "complete")
  /\ UNCHANGED <<storeVars, history, stored, rec>>

FinishCleanup(c) ==
  /\ At(c, "complete")
  /\ CompleteCleanup(On(c))
  /\ Return(c)
  /\ UNCHANGED <<diskVars, rec>>

(* ApplyPromotion.  The rows, the artifacts and the worktree are verified; *)
(* PromoteRef reads the ref and swaps it; the outcome is recorded.         *)
VerifyPromotion(c, p) ==
  /\ GetPromotionApplyContext(p)
  /\ promotion[p].of \in stored /\ tree[promotion[p].of] = "candidate"
  /\ Begin(c, "promote", p, 0, None)
  /\ UNCHANGED <<storeVars, diskVars, rec>>

BaseOf(p) == workspace[promotion[p].of].base
CandidateOf(p) == promotion[p].of

(* Where the comparison of the ref with candidate and base leads. *)
Compare(p) ==
  CASE ReadTarget = CandidateOf(p) -> "applied"
    [] ReadTarget = BaseOf(p) -> "update_ref"
    [] OTHER -> "conflicted"

PromoteRef(c) ==
  /\ At(c, "promote")
  /\ Goto(c, Compare(On(c)))
  /\ UNCHANGED <<storeVars, diskVars, rec>>

(* Mutant: update-ref is given no old value. *)
ForceRef(c) ==
  /\ At(c, "update_ref")
  /\ history' = Append(history, CandidateOf(On(c)))
  /\ Goto(c, "applied")
  /\ UNCHANGED <<storeVars, tree, stored, rec>>

(* Mutant: what update-ref answers is not looked at. *)
TrustSwap(c) ==
  /\ At(c, "update_ref")
  /\ history' = IF ReadTarget = BaseOf(On(c)) THEN Append(history, CandidateOf(On(c))) ELSE history
  /\ Goto(c, "applied")
  /\ UNCHANGED <<storeVars, tree, stored, rec>>

(* git update-ref swaps the ref if it is still at the base; when it is     *)
(* not, the ref is read again.                                             *)
UpdateRef(c) ==
  /\ At(c, "update_ref")
  /\ IF ReadTarget = BaseOf(On(c))
       THEN history' = Append(history, CandidateOf(On(c))) /\ Goto(c, "applied")
       ELSE UNCHANGED history /\ Goto(c, Compare(On(c)))
  /\ UNCHANGED <<storeVars, tree, stored, rec>>

RecordOutcome(c) ==
  /\ proc[c].pc \in {"applied", "conflicted"}
  /\ transitionPromotion(On(c), proc[c].pc)
  /\ Return(c)
  /\ UNCHANGED <<diskVars, rec>>

(* The call ends here, with an error or without a word. *)
Stop(c) ==
  /\ ~At(c, "idle")
  /\ Return(c)
  /\ UNCHANGED <<storeVars, diskVars, rec>>

(* The operations that are one transaction, whoever calls them. *)
Call ==
  /\ \/ \E w \in Workspaces : AbandonWorkspace(w)
     \/ \E w \in Workspaces, outcome \in Outcomes : RecordCheck(w, outcome)
     \/ \E w \in Workspaces, p \in Promotions : RequestPromotion(w, p)
     \/ \E p \in Promotions, role \in Roles, decision \in {"approve", "reject"} : SubmitReview(p, role, decision)
     \/ \E p \in Promotions : transitionPromotion(p, "cancelled")
  /\ UNCHANGED <<diskVars, proc, rec>>

-----------------------------------------------------------------------------
(* The reconciler: one pass is one call of Reconcile.  What a pass has     *)
(* listed may have changed by the time it is looked at, and what it has    *)
(* seen of the disk by the time it is acted on.                            *)

Aged == {w \in Workspaces : workspace[w].status \in {"provisioning", "active"}}
Approved == {p \in Promotions : promotion[p].status = "approved"}

(* ORDER BY updated_at LIMIT n *)
First(rows, n) ==
  {x \in rows : \E i \in 1..Len(order) :
     order[i] = x /\ Cardinality({j \in 1..i : order[j] \in rows}) <= n}

(* A row that is updated goes to the end of the order, or out of it.  No   *)
(* transaction updates two of them.                                        *)
Touch ==
  LET touched == {w \in Workspaces : workspace'[w] # workspace[w]}
                   \cup {p \in Promotions : promotion'[p] # promotion[p]}
      rest == SelectSeq(order, LAMBDA x : x \notin touched)
      due == touched \cap (Aged \cup Approved)'
  IN  \/ due = {} /\ order' = rest
      \/ \E x \in due : order' = Append(rest, x)

(* The row of another workspace is updated, or leaves the statuses the     *)
(* reconciler asks for and a new one comes in its place.                   *)
OtherWorkspace(o) ==
  /\ order' = Append(SelectSeq(order, LAMBDA x : x # o), o)
  /\ UNCHANGED <<storeVars, diskVars, proc, rec, faults>>

Listed(n) == First(Aged \cup Others, n) \cap Workspaces

(* The rows untouched for StaleAfter are the first of the order, up to     *)
(* some n; at most Batch of them are listed.                               *)
ListStaleWorkspaces(n) ==
  /\ rec.pc = "idle"
  /\ rec' = [Quiet EXCEPT !.pc = "stale",
               !.todo = {[of |-> w, status |-> workspace[w].status, version |-> workspace[w].version] :
                           w \in Listed(n)}]
  /\ UNCHANGED <<storeVars, diskVars, proc>>

(* A directory Git cannot read is passed over. *)
InspectWorktree(item) ==
  /\ rec.pc = "stale" /\ item \in rec.todo
  /\ rec' = IF tree[item.of] = "partial"
              THEN [rec EXCEPT !.todo = @ \ {item}]
              ELSE [pc |-> "inspected", todo |-> rec.todo \ {item}, on |-> item, found |-> tree[item.of]]
  /\ UNCHANGED <<storeVars, diskVars, proc>>

(* A transaction of the reconciler whose failure is ignored. *)
Attempt(enabled, transaction) == IF enabled THEN transaction ELSE UNCHANGED storeVars

(* Mutant: a row found without its worktree is left for the next pass. *)
LeaveMissing ==
  LET w == rec.on.of IN
  /\ rec.pc = "inspected"
  /\ CASE rec.on.status = "provisioning" /\ rec.found = "base" ->
            Attempt(workspace[w].status = "provisioning" /\ workspace[w].version = rec.on.version,
                    ActivateWorkspace(w, rec.on.version))
       [] OTHER -> UNCHANGED storeVars
  /\ rec' = [rec EXCEPT !.pc = "stale", !.on = None, !.found = "none"]
  /\ UNCHANGED <<diskVars, proc>>

ResolveStale ==
  LET w == rec.on.of IN
  /\ rec.pc = "inspected"
  /\ CASE rec.on.status = "provisioning" /\ rec.found = "base" ->
            Attempt(workspace[w].status = "provisioning" /\ workspace[w].version = rec.on.version,
                    ActivateWorkspace(w, rec.on.version))
       [] rec.on.status = "active" /\ rec.found # "none" -> UNCHANGED storeVars
       [] OTHER -> Attempt("failed" \in WorkspaceTransition[workspace[w].status], FailWorkspace(w))
  /\ rec' = [rec EXCEPT !.pc = "stale", !.on = None, !.found = "none"]
  /\ UNCHANGED <<diskVars, proc>>

ListWorkspaceKeys ==
  /\ rec.pc = "stale" /\ rec.todo = {}
  /\ rec' = [Quiet EXCEPT !.pc = "known", !.todo = {w \in Workspaces : workspace[w].status # "absent"}]
  /\ UNCHANGED <<storeVars, diskVars, proc>>

(* Directories of workspaces that were not known are moved away, up to     *)
(* Batch of them; one that cannot be moved stays.                          *)
Quarantine ==
  /\ rec.pc = "known"
  /\ \E moved \in SUBSET (Workspaces \ rec.todo) :
       /\ Cardinality(moved) <= Batch
       /\ tree' = [w \in Workspaces |-> IF w \in moved THEN "none" ELSE tree[w]]
  /\ rec' = [Quiet EXCEPT !.pc = "listing"]
  /\ UNCHANGED <<storeVars, history, stored, proc>>

(* An approved promotion whose context cannot be read ends the pass. *)
ListRecoverablePromotions ==
  LET listed == First(Approved, Batch) IN
  /\ rec.pc = "listing"
  /\ rec' = IF \A p \in listed : GetPromotionApplyContext(p)
              THEN [Quiet EXCEPT !.pc = "promotions", !.todo = listed] ELSE Quiet
  /\ UNCHANGED <<storeVars, diskVars, proc>>

ReadTargetOf(p) ==
  /\ rec.pc = "promotions" /\ p \in rec.todo
  /\ rec' = [pc |-> "read", todo |-> rec.todo \ {p}, on |-> p, found |-> Compare(p)]
  /\ UNCHANGED <<storeVars, diskVars, proc>>

(* At the base there is nothing to record: the promotion can be applied. *)
SettlePromotion ==
  /\ rec.pc = "read"
  /\ Attempt(rec.found # "update_ref" /\ rec.found \in PromotionTransition[promotion[rec.on].status],
             transitionPromotion(rec.on, rec.found))
  /\ rec' = [rec EXCEPT !.pc = "promotions", !.on = None, !.found = "none"]
  /\ UNCHANGED <<diskVars, proc>>

(* The newest Batch of the pending ones; which these are is left open. *)
ListCleanupPending ==
  /\ rec.pc = "promotions" /\ rec.todo = {}
  /\ \E listed \in SUBSET {w \in Workspaces : workspace[w].status = "cleanup_pending"} :
       /\ Cardinality(listed) <= Batch
       /\ rec' = [Quiet EXCEPT !.pc = "cleanup", !.todo = listed]
  /\ UNCHANGED <<storeVars, diskVars, proc>>

(* Looking and recording are one step: a worktree that a slow caller adds  *)
(* in between might as well be added afterwards.                           *)
RecoverCleanup(w) ==
  /\ rec.pc = "cleanup" /\ w \in rec.todo
  /\ Attempt(tree[w] = "none" /\ workspace[w].status = "cleanup_pending", CompleteCleanup(w))
  /\ rec' = [rec EXCEPT !.todo = @ \ {w}]
  /\ UNCHANGED <<diskVars, proc>>

EndPass ==
  /\ rec.pc = "cleanup" /\ rec.todo = {}
  /\ rec' = Quiet
  /\ UNCHANGED <<storeVars, diskVars, proc>>

(* The pass times out, meets an error that ends it, or orgd goes down. *)
AbortPass ==
  /\ rec.pc # "idle"
  /\ rec' = Quiet
  /\ UNCHANGED <<storeVars, diskVars, proc>>

(* An error met on one item passes it over: its worktree cannot be         *)
(* inspected, its repository is unknown or configured otherwise, the       *)
(* target cannot be read.                                                  *)
SkipItem(item) ==
  /\ rec.pc \in {"stale", "promotions", "cleanup"} /\ item \in rec.todo
  /\ rec' = [rec EXCEPT !.todo = @ \ {item}]
  /\ UNCHANGED <<storeVars, diskVars, proc>>

Fault ==
  /\ AbortPass \/ \E item \in rec.todo : SkipItem(item)
  /\ faults < MaxFaults
  /\ faults' = faults + 1

-----------------------------------------------------------------------------
(* Around it *)

(* The attempt's worker changes files; a worktree is lost; someone pushes. *)
EditFiles(w) ==
  /\ tree[w] \in {"base", "candidate"}
  /\ tree' = [tree EXCEPT ![w] = IF @ = "base" THEN "edited" ELSE "soiled"]
  /\ UNCHANGED <<storeVars, history, stored, proc, rec>>

LoseWorktree(w) ==
  /\ tree[w] # "none"
  /\ tree' = [tree EXCEPT ![w] = "none"]
  /\ UNCHANGED <<storeVars, history, stored, proc, rec>>

Push(f) ==
  /\ \A i \in 1..Len(history) : history[i] # f
  /\ history' = Append(history, f)
  /\ UNCHANGED <<storeVars, tree, stored, proc, rec>>

TaskEngine ==
  /\ \/ \E w \in Workspaces : StartAttempt(w)
     \/ \E t \in Tasks : TaskStep(t)
  /\ UNCHANGED <<diskVars, proc, rec>>

CallerStep(c) ==
  \/ c \in Builders /\ \E w \in Workspaces : CheckBase(c, w) \/ BeginSeal(c, w) \/ StartCleanup(c, w)
  \/ \E p \in Promotions : VerifyPromotion(c, p)
  \/ Provision(c) \/ AddWorktree(c) \/ AddWorktreeFails(c) \/ Activate(c)
  \/ SealWorktree(c) \/ PutArtifacts(c) \/ Seal(c)
  \/ RemoveWorktree(c) \/ FinishCleanup(c)
  \/ PromoteRef(c) \/ UpdateRef(c) \/ RecordOutcome(c)
  \/ Stop(c)

Reconcile ==
  \/ \E n \in 0..Batch : ListStaleWorkspaces(n)
  \/ \E item \in rec.todo : InspectWorktree(item)
  \/ \E p \in Promotions : ReadTargetOf(p)
  \/ \E w \in Workspaces : RecoverCleanup(w)
  \/ ResolveStale \/ ListWorkspaceKeys \/ Quarantine \/ ListRecoverablePromotions
  \/ SettlePromotion \/ ListCleanupPending \/ EndPass

Step ==
  \/ \E c \in Callers : CallerStep(c)
  \/ Call
  \/ Reconcile
  \/ \E w \in Workspaces : EditFiles(w) \/ LoseWorktree(w)
  \/ \E f \in Foreign : Push(f)
  \/ TaskEngine

Next ==
  \/ (Fault \/ (Step /\ UNCHANGED faults)) /\ Touch
  \/ \E o \in Others : OtherWorkspace(o)

Spec == Init /\ [][Next]_vars

(* orgd starts a pass at every tick and a pass goes on to its end, but for *)
(* its faults.  A row that is among the first Batch at pass after pass,    *)
(* untouched, grows older than StaleAfter: some pass lists it.             *)
FairSpec ==
  /\ Spec
  /\ WF_vars(Reconcile /\ Touch /\ UNCHANGED faults)
  /\ \A w \in Workspaces :
       SF_vars((\E n \in 0..Batch : w \in Listed(n) /\ ListStaleWorkspaces(n)) /\ Touch /\ UNCHANGED faults)

-----------------------------------------------------------------------------
Reached(commit) == \E i \in 1..Len(history) : history[i] = commit

(* What the target ref has held and what the rows say, whatever was        *)
(* interrupted: a candidate gets onto the target only through a promotion  *)
(* whose gates were all satisfied, which an independent review approved    *)
(* and whose artifacts are stored; and no promotion is recorded as applied *)
(* whose candidate the target never held.  (One whose candidate it held    *)
(* may be recorded otherwise: cancelled, or in conflict with a later push.)*)
TargetMatchesRecords ==
  /\ \A w \in Workspaces : Reached(w) =>
       w \in stored /\ \E p \in Promotions : promotion[p].of = w /\ Backed(p)
  /\ \A p \in Promotions : promotion[p].status = "applied" => Reached(CandidateOf(p))

(* A promotion replaces exactly the commit its candidate was built on, so  *)
(* two promotions from one base, or a promotion racing a push, cannot drop *)
(* each other's work from the target.                                      *)
NothingPromotedIsLost ==
  \A i \in 1..Len(history) - 1 :
    history[i + 1] \in Workspaces => workspace[history[i + 1]].base = history[i]

(* If update-ref succeeded and the row still says approved, a retry or the *)
(* reconciler sees the target at the candidate and records it: the row     *)
(* does not stay approved while the target stays at the candidate.  This   *)
(* is what INTEGRATION.md says of an interrupted ApplyPromotion.  It fails *)
(* when the task leaves verification before the row is recorded.           *)
InterruptedApplyRecovered ==
  \A p \in Promotions :
    (promotion[p].status = "approved" /\ ReadTarget = CandidateOf(p))
      ~> (promotion[p].status # "approved" \/ ReadTarget # CandidateOf(p))

(* A workspace half-created, or active without a directory, that is within *)
(* the reconciler's reach.                                                 *)
Ghost(w) ==
  /\ workspace[w].status = "provisioning" \/ (workspace[w].status = "active" /\ tree[w] = "none")
  /\ w \in Listed(Batch)

(* Such a workspace does not stay: whoever stopped, lost the directory or  *)
(* moved it to quarantine, the row is activated or failed, other rows      *)
(* being updated meanwhile or not, unless Git leaves a directory it cannot *)
(* read.  Within reach is a row with fewer than Batch rows before it, and  *)
(* it stays so: rows are updated to the end of the order.                  *)
GhostWorkspaceResolves ==
  \A w \in Workspaces, s \in {"provisioning", "active"} :
    (workspace[w].status = s /\ Ghost(w)) ~> (workspace[w].status # s \/ tree[w] = "partial")
=============================================================================
