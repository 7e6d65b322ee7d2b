\* Two events, three claims each.
SPECIFICATION OutboxSpec
CONSTANTS
  Events = {e1, e2}
  MaxAttempts = 3
INVARIANTS
  AttemptsAccounted
  PublishedByLatestClaim
  NothingFreshIsLost
PROPERTIES
  EveryClaimEnds
CHECK_DEADLOCK FALSE
