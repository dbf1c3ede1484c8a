\* One caller: governed calls, answers and the end of the context follow each
\* other.  Every approval mode, one fault, decisions and cancellation by others.
CONSTANTS
  CallIds = {1, 2}
  MaxCalls = 2
  MaxFaults = 1
  MaxQueued = 0
  ApprovalModes = {"deferred", "deny", "inline_prompt", "mock"}
  AnswerMode = "deny_completion"
  Approvers = {"approved", "denied"}
  SwitchSteps = {}
  LiveCancel = FALSE
SPECIFICATION Spec
INVARIANTS
  TypeOK
  EffectsAreRecorded
  TraceStaysLegal
  WaitingMeansPending
  CompletedRunsAreSettled
PROPERTIES
  EffectsAreAuthorised
  NoEffectAfterEnd
  KeepsPromise
CHECK_DEADLOCK FALSE
