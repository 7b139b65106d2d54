SPECIFICATION Spec
CONSTANTS
  Payments = {p1}
  Attempts = {a1, a2}
  Txns = {t1}
  Observers = {o1}
  Figures = {"equal", "wrong", "non_iso"}
  MaxAttempts = 2
  NotFoundAuthoritative = TRUE
  MaxRecovery = 1
  None = None
SYMMETRY Symmetry
CHECK_DEADLOCK FALSE
INVARIANTS
  TypeOK
  OneCollection
  SettledOnce
  SettledOnEvidence
PROPERTIES
  KeepsPromise
