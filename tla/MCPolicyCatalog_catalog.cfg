SPECIFICATION Spec
CONSTANTS
  Threads = {t1, t2}
  Last = 2
  MakerChecker = TRUE
  Actors = {a1, a2}
  Keys = {k1, k2, k3}
  None = None
  MaxRequests = 4
SYMMETRY Symmetry
INVARIANTS
  ActivationIsChecked
  StatesAreLogged
PROPERTIES
  CommandsAreAtomic
CHECK_DEADLOCK FALSE
