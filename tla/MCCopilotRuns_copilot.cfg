SPECIFICATION Spec
CONSTANTS
  a1 = a1
  Threads = {t1, t2}
  Requests = {q1, q2}
  Actors = {a1, a2, a3}
  Creator <- MadeByA1
  Keys = {k1, k2}
  None = None
  MaxRequests = 4
SYMMETRY Symmetry
INVARIANTS
  VerdictIsOnReviewableOutput
  VerdictIsOnRecord
PROPERTIES
  VerdictFallsToAStaleCopy
CHECK_DEADLOCK FALSE
