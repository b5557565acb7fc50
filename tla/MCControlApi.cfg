CONSTANTS
  A = A
  B = B
  default = default
  p1 = p1
  p2 = p2
  Tables = {"tenants", "providers"}
  Ids <- MCIds
  Seeds <- MCSeeds
  DefaultRow = default
  Tenants = {A, B}
  Readers = {A}
  Listed = {"providers"}
  Limit = 1
  Ttl = 2
  MaxWrites = 2
  Old <- MCOld
SPECIFICATION Spec
INVARIANTS TypeOK CachedIsRecent WalkIsExact OutboxFollowsAudit
