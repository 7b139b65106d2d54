SPECIFICATION TwoObservers
CONSTANTS
  Payments = {p1}
  Attempts = {a1}
  Txns = {t1, t2}
  Observers = {o1, o2}
  Figures = {"equal", "wrong"}
  MaxAttempts = 2
  NotFoundAuthoritative = FALSE
  MaxRecovery = 1
  None = None
SYMMETRY Symmetry
CHECK_DEADLOCK FALSE
INVARIANTS
  LateSuccessSound
PROPERTIES
  DatabaseGuards
