\* An answer is refused, the run pauses for an approval and is resumed.
CONSTANTS
  CallIds = {1, 2}
  MaxCalls = 2
  MaxFaults = 0
  MaxQueued = 0
  ApprovalModes = {"deferred"}
  AnswerMode = "deny_completion"
  Approvers = {"approved"}
  SwitchSteps = {}
  LiveCancel = FALSE
SPECIFICATION Spec
INVARIANT RefusedAnswersBlockCompletion
CHECK_DEADLOCK FALSE
