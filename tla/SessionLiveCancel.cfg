\* Another process cancels the run of a session that is still open.
CONSTANTS
  CallIds = {1, 2}
  MaxCalls = 2
  MaxFaults = 0
  MaxQueued = 0
  ApprovalModes = {"deferred"}
  AnswerMode = "deny_completion"
  Approvers = {"approved"}
  SwitchSteps = {}
  LiveCancel = TRUE
SPECIFICATION Spec
PROPERTY NoEffectAfterEnd
CHECK_DEADLOCK FALSE
