SPECIFICATION Spec
CONSTANTS
  Processes = {p}
  CreateOps = {c}
  VersionOps = {v}
  PinnedOps = {v}
  MaxAttempts = 2
  LeaseTime = 1
  BatchSize = 1
  OperatorActs = FALSE
  MaxTime = 3
  MaxFaults = 3
INVARIANTS
  OwnerHoldsTheRow
  RetryBudget
  EffectOnce
PROPERTIES
  DriftHasACause
  KeepsThePromise
CHECK_DEADLOCK FALSE
