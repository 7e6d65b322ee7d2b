\* Two claims of single tasks, a claim of two tasks and an owner race in a
\* tree of three levels.
SPECIFICATION Spec
CONSTANTS
  grandparent = grandparent
  parent = parent
  child = child
  batch = batch
  None = None
  Tasks = {grandparent, parent, child}
  Parent <- ThreeLevels
  Id <- Ids
  InitStatus <- BusyParents
  NonScoping = {}
  Claims = {x1, x2, batch}
  Owners = {o1}
  BatchSize <- Batches
INVARIANTS
  ClaimsNeverDeadlock
PROPERTIES
  NoClaimUnderBlockedAncestor
  OnlyLegalTransitions
  EveryTransactionEnds
CHECK_DEADLOCK FALSE
