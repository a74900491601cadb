SPECIFICATION Spec
CONSTANTS
  g = g
  c = c
  Threads = {t1, t2}
  Evaluations = {g, c}
  Blocked = {g}
  Conflicted = {c}
  Repairs <- RepairsOfG
  Actors = {a1, a2}
  Keys = {k1}
  None = None
  MaxRequests = 4
  MaxEvents = 3
SYMMETRY Symmetry
INVARIANTS
  KeyNamesItsEvent
PROPERTIES
  ImplementsReview
  ForgetsOnlyWhenOvertaken
CHECK_DEADLOCK FALSE
