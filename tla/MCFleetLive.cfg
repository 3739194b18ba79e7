CONSTANTS
  w1 = w1
  w2 = w2
  w3 = w3
  u1 = u1
  u2 = u2
  u3 = u3
  None = None
  Worker = {w1, w2}
  Initial = {w1, w2}
  Url = {u1, u2}
  Shard <- MCShard
  ShardOrder <- MCShardOrder
  Domain <- MCDomain
  CatOf <- CatOf2
  DomainOf <- DomainOf2
  ShardOf <- OneEach
  Backlog <- Backlog2
  BucketSize = 1
  ShallowDepth = 2
  DeepDepth = 0
  MinNodes = 1
  MaxNodes = 2
SPECIFICATION FairSpec
PROPERTY EveryUrlScraped
CHECK_DEADLOCK FALSE
