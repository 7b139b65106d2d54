SPECIFICATION FairSpec
CONSTANTS
  Deliveries = {d1}
  Workers = {w1, w2}
  MaxAttempts = 2
  MaxFaults = 1
  MaxRenewals = 1
  None = None
CHECK_DEADLOCK FALSE
PROPERTIES
  EveryDeliveryEnds
  SecretIsPurged
