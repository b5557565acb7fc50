CONSTANTS
  h1 = h1
  h2 = h2
  e1 = e1
  e2 = e2
  e3 = e3
  Events = {e1, e2, e3}
  Hashes = {h1, h2}
  NoHash = NoHash
  Window <- MCWindow
  StormThreshold <- MCThreshold
  Persist = 1
  LoopWindow = 2
  LoopCount = 3
SPECIFICATION GuardSpec
INVARIANT GuardTypeOK
PROPERTIES StormsExact LoopsExact
SYMMETRY MCSymmetry
