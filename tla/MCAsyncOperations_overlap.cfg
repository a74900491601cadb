SPECIFICATION Spec
CONSTANTS
  Processes = {p, q}
  CreateOps = {c}
  VersionOps = {}
  PinnedOps = {}
  MaxAttempts = 2
  LeaseTime = 1
  BatchSize = 2
  OperatorActs = FALSE
  MaxTime = 2
  MaxFaults = 1
INVARIANTS
  OneProposalPerKey
CHECK_DEADLOCK FALSE
