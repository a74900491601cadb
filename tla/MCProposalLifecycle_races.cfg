SPECIFICATION Spec
CONSTANTS
  Workers = {w1, w2}
  Commands = {"transition", "approval", "handoff", "update", "version"}
  Keys = {}
  UpdateIds = {u}
  NoKey = NoKey
  ExternalTimes = {}
  ExternalRequestIds = {}
  RelatedVersions = {}
  RequireExpectedState = TRUE
  MaxCommands = 7
SYMMETRY WorkerSymmetry
INVARIANTS
  ValidatedWorkStaysValid
  HistoryIsLinked
  EveryVersionHasItsEvidence
  VersionRowsAreContiguous
  ConsentPrecedesExecution
PROPERTIES
  LifecycleMovesForward
  TerminalIsFinal
  ImplementsWorkflow
CHECK_DEADLOCK FALSE
