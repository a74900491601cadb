SPECIFICATION LaterSpec
CONSTANTS
  Workers = {w1, w2}
  Commands = {"transition", "approval", "handoff", "update", "report", "narrative", "version"}
  Keys = {k}
  UpdateIds = {u}
  NoKey = NoKey
  ExternalTimes = {6}
  ExternalRequestIds = {9}
  RelatedVersions = {2}
  RequireExpectedState = TRUE
  MaxCommands = 7
SYMMETRY WorkerSymmetry
INVARIANTS
  UpdateAnswersAHandoff
  KeyedMoveHappensOnce
CHECK_DEADLOCK FALSE
