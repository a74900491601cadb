SPECIFICATION Spec
CONSTANTS
  Threads = {t1, t2}
  Drafts = {d1, d2}
  Keys = {k1}
  None = None
  MaxRequests = 5
  MaxRows = 2
SYMMETRY Symmetry
INVARIANTS
  VersionsAreNumbered
  EvidenceFitsResult
  LineageIsTrue
PROPERTIES
  LostOnlyToAStaleCopy
CHECK_DEADLOCK FALSE
