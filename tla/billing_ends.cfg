SPECIFICATION EndsSpec
CONSTANTS
  Invoices = {i1, i2}
  Requests = {r1, r2}
  Dispatchers = {d1}
  Reconcilers = {c1}
  DispatchBatch = 1
  ReconcileBatch = 1
  MaxFaults = 1
  MaxRedeploys = 0
  None = None
CHECK_DEADLOCK FALSE

PROPERTIES
  MoneyIsRecognized
  RequestsAreSent
