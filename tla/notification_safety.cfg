SPECIFICATION Spec
CONSTANTS
  Deliveries = {d1, d2}
  Workers = {w1, w2}
  MaxAttempts = 1
  MaxFaults = 1
  MaxRenewals = 0
  None = None
SYMMETRY Symmetry
CHECK_DEADLOCK FALSE
INVARIANTS
  TypeOK
  SentOnce
  EvidenceAgrees
  CancelStops
  SecretLifetime
