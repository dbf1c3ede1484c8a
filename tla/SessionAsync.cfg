\* Tasks of one event loop: while a handler is awaited, other tasks may queue
\* resumes, submit an answer, time out or leave the context.
CONSTANTS
  CallIds = {1, 2}
  MaxCalls = 2
  MaxFaults = 0
  MaxQueued = 1
  ApprovalModes = {"deferred"}
  AnswerMode = "require_revision"
  Approvers = {"approved", "denied"}
  SwitchSteps = {"running"}
  LiveCancel = FALSE
SPECIFICATION FairSpec
INVARIANTS
  EffectsAreUnique
PROPERTIES
  EffectsAreAuthorised
  CallsReturn
  ResumesSettle
CHECK_DEADLOCK FALSE
