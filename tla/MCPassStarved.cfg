SPECIFICATION PassSpec
CONSTANTS
  t1 = t1
  t2 = t2
  r1 = r1
  None = None
  Tasks = {t1, t2}
  Parent <- OneFamily
  Edges <- OneEdge
  NonScoping = {}
  Reqs = {}
  Required = {}
  MaxAttempts = 2
  LeaseTicks = 1
  MaxEpisodes = 1
  BlockReasons = {}
  Batch = 1
PROPERTY
  RetryIsTakenUp
CHECK_DEADLOCK FALSE
