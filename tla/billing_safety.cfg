SPECIFICATION Spec
CONSTANTS
  Invoices = {i1}
  Requests = {r1, r2}
  Dispatchers = {d1, d2}
  Reconcilers = {c1}
  DispatchBatch = 1
  ReconcileBatch = 1
  MaxFaults = 1
  MaxRedeploys = 1
  None = None
SYMMETRY Symmetry
CHECK_DEADLOCK FALSE

INVARIANTS
  TypeOK
  PaidOnMoney
  OneCollectable
  NeverConflicts
