SPECIFICATION Spec
CONSTANTS
  Threads = {t1, t2}
  Targets = {v1, v2}
  Contents = {yes, no}
  Approvals = {yes}
  Keys = {k1, k2}
  None = None
  MaxRequests = 4
SYMMETRY Symmetry
INVARIANTS
  AcknowledgementIsKeyed
  MemoIsCreatedOnce
  RequestsFollowApproval
PROPERTIES
  KeysAreFixed
CHECK_DEADLOCK FALSE
