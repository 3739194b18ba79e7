CONSTANTS
  u1 = u1
  u2 = u2
  u3 = u3
  u4 = u4
  u5 = u5
  u6 = u6
  u7 = u7
  u8 = u8
  None = None
  Url <- MCUrl
  Category <- MCCategory
  Order <- MCOrder
  Domain <- MCDomain
  CatOf <- MCCatOf
  DomainOf <- MCDomainOf
  Backlog <- MCBacklog
SPECIFICATION FairSpec
INVARIANTS BlockedAtMostOnce RefusedIsNext EachOnce BlocksPaidFor DoneMeansAll
PROPERTIES SwitchesAfterBlock ImplementsWorkPool EveryUrlScraped
CHECK_DEADLOCK FALSE
