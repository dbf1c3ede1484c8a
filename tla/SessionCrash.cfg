\* A process that dies while it requests a second call, the first one waiting.
CONSTANTS
  CallIds = {1, 2}
  MaxCalls = 2
  MaxFaults = 1
  MaxQueued = 0
  ApprovalModes = {"deferred"}
  AnswerMode = "deny_completion"
  Approvers = {"approved"}
  SwitchSteps = {}
  LiveCancel = FALSE
SPECIFICATION Spec
INVARIANT PausedRunsAreResumable
CHECK_DEADLOCK FALSE
