CONSTANTS
  p1 = p1
  p2 = p2
  big = big
  Tabs = {t1, t2}
  Payloads <- MCPayloads
  Oversized <- MCOversized
  Default = Default
  Absent = Absent
  Corrupt = Corrupt
  Prod = TRUE
SPECIFICATION Spec
SYMMETRY MCSymmetry
INVARIANTS
  TypeOK
  RejectedNeverServed
  ServedWasStored
  HydrationProvenanceHonest
  LoadedAgreesWithStorage
