CONSTANTS
  r1 = r1
  r2 = r2
  a = a
  b = b
  f = f
  Routes = {r1, r2}
  Titles = {a, b}
  Perms = {a, b}
  Statuses = {"ACTIVE", "EXPERIMENTAL", "HIDDEN"}
  Flags = {f}
  Contents <- MCContents
  Shipped <- MCShipped
  Operators = {o1, o2}
  Ids = {i1, i2}
  None = None
  Absent = Absent
  Gone = Gone
  Unreadable = Unreadable
  MaxVersion = 2
SPECIFICATION Spec
SYMMETRY MCSymmetry
INVARIANTS TypeOK VersionNamesPublication PublishedIsWhatShows SyncedCatalogAgrees
