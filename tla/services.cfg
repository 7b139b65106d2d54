SPECIFICATION Services
CONSTANTS
  t1 = t1
  f1 = f1
  k1 = k1
  k2 = k2
  b1 = b1
  b2 = b2
  s1 = s1
  s2 = s2
  i1 = i1
  Families = {f1, f2}
  Tokens = {t1, t2, t3}
  Clients = {p1, p2}
  Keys = {k1, k2}
  Contents = {b1, b2}
  Proofs = {s1, s2}
  Issuers = {i1, i2}
  Refs = {n1, n2}
  Consumers = {c1}
  MaxLosses = 1
  Files = {g1, g2}
  UploadKeys = {u1}
  Tickets = {}
  Cleaners = {w1, w2}
  MaxFileFaults = 1
  Links = {l1}
  Redemptions = {r1, r2, r3}
  MaxDownloads = 2
  MaxInFlight = 2
  MaxLinkFaults = 1
  Operators = {o1, o2}
  Writers = {a1}
  MaxContent = 2
  Events = {e1, e2}
  Facts = {x1, x2}
  Companies = {m1}
  Deliverers = {d1}
  LegalHolds = {h1}
  Owners = {z1, z2}
  BatchSize = 2
  Versions = {1, 2, 3}
  Stable = {1, 2}
  Installed = {1}
  Admins = {y1, y2}
  MaxPolicies = 2
CHECK_DEADLOCK FALSE
INVARIANTS
  ServicesTypeOK
  CredentialsSound
  StorageSound
  OwnershipSound
  AuditSound
  ReleasesSound
PROPERTIES
  Settled
