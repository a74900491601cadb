SPECIFICATION Spec
CONSTANTS
  Threads = {t1, t2}
  Keys = {k1, k2}
  Fingerprints = {f1}
  Contexts = {c1}
  Securities = {s1, s2, s3}
  None = None
  ReplayTtl = 2
  MaxRecords = 2
  CacheTtl = 2
  MaxSize = 2
  MaxCall = 1
  MaxTime = 8
  MaxRequests = 4
SYMMETRY Symmetry
CONSTRAINT Bounds
INVARIANTS
  ForgetsByAgeOrNumber
  ServedDataIsRecent
  RecentlyUsedStays
CHECK_DEADLOCK FALSE
