CONSTANTS
  Callers = {c1, c2, c3}
  NoCfg = NoCfg
  Configs <- MCConfigs
SPECIFICATION FairSpec
INVARIANTS
  TypeOK
  ClosedWithinBudget
PROPERTIES
  ImplementsContract
  CooldownEnds
  CallSettles
