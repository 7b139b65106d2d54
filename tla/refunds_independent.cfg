SPECIFICATION TwoRefunds
CONSTANTS
  h1 = h1
  a1 = a1
  x1 = x1
  x2 = x2
  b1 = b1
  c1 = c1
  c2 = c2
  r1 = r1
  r2 = r2
  k1 = k1
  k2 = k2
  q2 = q2
  v2 = v2
  Hooks = {h1, h2}
  Targets = {a1}
  Disputes = {x1, x2}
  Chargebacks = {b1}
  Endpoints = {e1}
  Retriers = {w1}
  MaxUses = 2
  MaxDeliveries = 2
  MaxIntakeFaults = 1
  Captures = {c1, c2}
  Settling = c1
  Refunds = {r1, r2}
  Receipts = {k1, k2}
  Movements = {m1, m2}
  Full = 2
  Amounts = {1, 2}
  MaxReports = 2
  Askers = {q1}
  Workers = {w2}
  MaxRefundFaults = 1
  CaseIds = {q2, q3}
  Relays = {v1, v2}
  Requests = {j1}
  Reconcilers = {j2}
  MaxCaseFaults = 1
  Channels = {n1, n2}
  Lates = {l1, l2}
  MaxParts = 3
CHECK_DEADLOCK FALSE
INVARIANTS
  CapturesCompleteAlone
