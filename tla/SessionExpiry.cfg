\* A resume that waits for the operation lock while its approval expires.
CONSTANTS
  CallIds = {1, 2}
  MaxCalls = 2
  MaxFaults = 0
  MaxQueued = 1
  ApprovalModes = {"deferred"}
  AnswerMode = "deny_completion"
  Approvers = {"approved"}
  SwitchSteps = {"running"}
  LiveCancel = FALSE
SPECIFICATION Spec
PROPERTY ExpiredApprovalsAreNotUsed
CHECK_DEADLOCK FALSE
