CONSTANTS
  k1 = k1
  k2 = k2
  t = t
  u = u
  c1 = c1
  c2 = c2
  f1 = f1
  f2 = f2
  None = None
  Keys = {k1, k2}
  Tags = {t, u}
  TagsOf <- MCTagsOf
  MaxEntries = 1
  MaxCalls = 4
  Calls = {c1, c2}
  MakesCall <- MCMakesCall
  Flights = {f1, f2}
SPECIFICATION Spec
INVARIANTS TypeOK SingleFlight StoreBounded
PROPERTY InvalidationHolds
SYMMETRY MCSymmetry
CHECK_DEADLOCK FALSE
