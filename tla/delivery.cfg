SPECIFICATION DeliverySpec
CONSTANTS
  e1 = e1
  e2 = e2
  Events = {e1, e2}
  Verified = {e1}
  Relays = {r1, r2}
  Workers = {w1, w2}
  MaxRetries = 1
  MaxDisturbances = 2
  Idle = Idle
CHECK_DEADLOCK FALSE
INVARIANTS
  TypeOK
  NeverLost
  AckedIsAccounted
  CopiesAreTrusted
  EffectOnce
PROPERTIES
  EventEnds
