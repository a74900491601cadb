SPECIFICATION Spec
CONSTANTS
  Processes = {p, q}
  CreateOps = {}
  VersionOps = {v}
  PinnedOps = {v}
  MaxAttempts = 2
  LeaseTime = 1
  BatchSize = 1
  OperatorActs = TRUE
  MaxTime = 2
  MaxFaults = 2
INVARIANTS
  AttemptsStayCounted
  SuccessHasItsEffect
  EffectOnce
CHECK_DEADLOCK FALSE
