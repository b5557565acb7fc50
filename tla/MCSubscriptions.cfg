CONSTANTS
  c1 = c1
  c2 = c2
  t1 = t1
  t2 = t2
  p1 = p1
  p2 = p2
  Tenants = {t1, t2}
  Callers = {c1, c2}
  ProcessOf <- OneProcess
  Times <- MCTimes
  Never = Never
  CancelDates = {1}
  PeriodEnds = {Never}
  Free = free
  PaidPlans = {standard}
  OtherPlans = {}
  NoRecord = NoRecord
  Damaged = Damaged
SPECIFICATION Spec
INVARIANTS TypeOK EntitledWasGranted
PROPERTY ImplementsLedger
SYMMETRY Symmetry
