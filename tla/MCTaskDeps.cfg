\* Three tasks in every dependency graph, one attempt each.
SPECIFICATION Spec
CONSTANTS
  t1 = t1
  t2 = t2
  t3 = t3
  Tasks = {t1, t2, t3}
  None = None
  Parent <- NoParents
  NonScoping = {}
  Reqs = {}
  Required = {}
  MaxAttempts = 1
  LeaseTicks = 1
  MaxEpisodes = 1
  BlockReasons = {"operator", "awaiting_child_coordination"}
  Edges <- AllEdges
SYMMETRY PermutedTasks
INVARIANTS
  LeaseCoherent
  StartsAfterDependencies
  DependenciesAcyclic
  DeadLettersCoherent
  RecoveryChainBounded
PROPERTIES
  TerminalIsFinal
  HoldIsABarrier
  TurnHasAttempt
CHECK_DEADLOCK FALSE
