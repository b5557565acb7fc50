CONSTANTS
  t1 = t1
  t2 = t2
  q1 = q1
  q2 = q2
  Tabs = {t1, t2}
  Requests = {q1, q2}
  TabsOf <- MCTabsOf
  Nobody = Nobody
  Orphan = Orphan
  Patience = 1
  Threshold = 2
  MaxCount = 3
SPECIFICATION FairSpec
INVARIANTS TypeOK LockNotLeaked StormBounded
PROPERTY RequestSettles
