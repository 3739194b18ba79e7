CONSTANTS
  w1 = w1
  w2 = w2
  w3 = w3
  u1 = u1
  u2 = u2
  u3 = u3
  None = None
  Worker = {w1, w2, w3}
  Initial = {w1, w3}
  Url = {u1, u2, u3}
  Shard <- MCShard
  ShardOrder <- MCShardOrder
  Domain <- MCDomain
  CatOf <- CatOf3
  DomainOf <- DomainOf3
  ShardOf <- TwoOnX
  Backlog <- Backlog3
  BucketSize = 1
  ShallowDepth = 3
  DeepDepth = 1
  MinNodes = 1
  MaxNodes = 2
SPECIFICATION Spec
INVARIANTS NoUrlLost NoUrlTwice CountersMatchResults OpenBreakerFetchesNothing
INVARIANTS FleetSizeKept AtMostOneOutlivesStop
PROPERTY ImplementsWorkPool
CHECK_DEADLOCK FALSE
