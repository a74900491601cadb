SPECIFICATION FairSpec
CONSTANTS
  Processes = {p}
  CreateOps = {c}
  VersionOps = {v}
  PinnedOps = {}
  MaxAttempts = 2
  LeaseTime = 1
  BatchSize = 1
  OperatorActs = FALSE
  MaxTime = 2
  MaxFaults = 2
PROPERTIES
  AcceptedEndsOrDrifts
  RestartResumes
CHECK_DEADLOCK FALSE
