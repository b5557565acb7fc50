CONSTANTS
  MaxEvents = 5
  MaxSize = 3
  MaxItems = 2
  MaxEnvelope = 3
  Bytes <- MCBytes
SPECIFICATION FairSpec
INVARIANTS TypeOK QueueKeepsNewest CountersBalance
PROPERTY ImplementsChannel QueuedLeaves
