--------------------------- MODULE GovernedSession ---------------------------
(***************************************************************************)
(* One governed run: the GovernedSession object that drives the tool-call  *)
(* pipeline of RunToolUseCase, the AgentTrustSession context around it,    *)
(* and the commands other processes issue against the same run (approval   *)
(* decisions, cancellation, resume after the process is gone).             *)
(*                                                                         *)
(* One step is one evidence append together with the assignments the code  *)
(* makes just before it; an append may raise, having written its event or  *)
(* not.  "trace" is the durable evidence; "session", "pending",            *)
(* "sequence", "blocked" and "held" are the memory of the live object;     *)
(* "op" is the governed call that holds the operation lock; "fin" is the   *)
(* session transition that a call outside that lock has under way.         *)
(***************************************************************************)
EXTENDS RunTrace, Naturals

CONSTANTS
  MaxCalls,        \* bound: tool calls requested in the run
  MaxFaults,       \* bound: appends that raise, crashes, torn commands
  MaxQueued,       \* bound: resumes of one call that wait for the lock
  ApprovalModes,   \* approval modes a context may be opened with
  AnswerMode,      \* final_answer_mode of the policy snapshot
  Approvers,       \* decisions people may make: SUBSET {"approved", "denied"}
  SwitchSteps,     \* steps of a governed call where other tasks may run
  LiveCancel       \* may another process cancel while a session is live?

ModeNames == {"deferred", "deny", "inline_prompt", "mock"}

ASSUME BoundsAssumption ==
  /\ MaxCalls \in Nat
  /\ MaxFaults \in Nat
  /\ MaxQueued \in Nat
  /\ CallIds = 1..MaxCalls

ASSUME ChoiceAssumption ==
  /\ ApprovalModes \subseteq ModeNames
  /\ AnswerMode \in {"warn", "require_revision", "deny_completion"}
  /\ Approvers \subseteq {"approved", "denied"}
  /\ LiveCancel \in BOOLEAN

VARIABLES
  trace,      \* trace.jsonl, as its replay (module RunTrace)
  expired,    \* approvals whose expires_at has passed
  context,    \* "none", or the kind of AgentTrustSession that is entered
  mode,       \* its approval mode
  session,    \* AgentSession.status in memory
  pending,    \* _pending_tool_call_ids
  sequence,   \* _sequence
  blocked,    \* _completion_blocked
  held,       \* decisions in _pending_approvals of a restored context
  op,         \* the governed call in progress
  queued,     \* resumes that wait for the operation lock, per call
  fin,        \* the session transition close/timeout/fail has under way
  leaving,    \* __exit__ has begun
  ran,        \* how often the handler of each call was invoked
  faults      \* faults so far

memory == <<session, pending, sequence, blocked, held>>
outside == <<expired, ran>>
vars == <<trace, expired, context, mode, session, pending, sequence, blocked,
          held, op, queued, fin, leaving, ran, faults>>

-----------------------------------------------------------------------------
(* The governed call: its steps and its locals. *)

StatusSteps ==
  {"ask", "policy_deny", "approve", "sandbox_deny", "launch", "finish", "abort"}

OpSteps ==
  {"free", "intent", "evaluate", "prompt", "permission", "request_approval",
   "sandbox", "invoke", "running", "result", "facts", "reconcile", "raise"}
    \cup StatusSteps

Idle ==
  [step |-> "free", next |-> "free", call |-> 0, kind |-> "execute",
   status |-> Absent, effect |-> Absent, hook |-> "allow",
   response |-> Absent, result |-> Absent]

Began(c, kind, status, response) ==
  [Idle EXCEPT !.step = "intent", !.call = c, !.kind = kind,
               !.status = status, !.response = response]

\* Wrong: whatever the approver said, an answered request is granted.
PermitOnAnyAnswer(effect, hook, response) ==
  IF effect = "deny" \/ hook = "deny" THEN "deny"
  ELSE IF effect = "allow" THEN "policy_allow"
  ELSE IF response # Absent THEN "human_allow" ELSE "ask"

\* permissions/approvals.py finalize_permission, with the branches run_tool
\* takes before it (a deferred ask stays an ask, a response is finalized as
\* an inline prompt) and after it (a denying hook overrides).
Permit(effect, hook, response) ==
  CASE effect = "deny" \/ hook = "deny"                  -> "deny"
    [] effect = "allow" /\ hook # "deny"                 -> "policy_allow"
    [] effect = "ask" /\ hook # "deny" /\ response = "approve" -> "human_allow"
    [] effect = "ask" /\ hook # "deny" /\ response = "deny"    -> "deny"
    [] effect = "ask" /\ hook # "deny" /\ response = Absent    ->
         CASE mode = "mock"                          -> "mock_allow"
           [] mode = "deny"                          -> "deny"
           [] mode \in {"deferred", "inline_prompt"} -> "ask"

\* The status _record_tool_status is given at each step that calls it.
NewStatus ==
  CASE op.step = "ask"          -> "waiting_approval"
    [] op.step = "policy_deny"  -> "policy_denied"
    [] op.step = "approve"      -> "approved"
    [] op.step = "sandbox_deny" -> "sandbox_denied"
    [] op.step = "launch"       -> "executing"
    [] op.step = "abort"        -> "failed"
    [] op.step = "finish"       -> IF op.result = "ok" THEN "succeeded"
                                                       ELSE "failed"

\* Wrong: an approved call returns without being executed.
AfterStatusStopping ==
  CASE op.step = "ask"    -> IF mode = "inline_prompt" /\ op.hook # "deny"
                               THEN "prompt" ELSE "permission"
    [] op.step \in {"policy_deny", "sandbox_deny", "approve"} -> "return"
    [] op.step = "launch" -> "invoke"
    [] op.step = "finish" -> "facts"
    [] op.step = "abort"  -> "raise"

\* Where run_tool continues after that call.
AfterStatus ==
  CASE op.step = "ask"          -> IF mode = "inline_prompt" /\ op.hook # "deny"
                                     THEN "prompt" ELSE "permission"
    [] op.step = "policy_deny"  -> "return"
    [] op.step = "approve"      -> "sandbox"
    [] op.step = "sandbox_deny" -> "return"
    [] op.step = "launch"       -> "invoke"
    [] op.step = "finish"       -> "facts"
    [] op.step = "abort"        -> "raise"

AfterPermit(permit) ==
  CASE permit = "deny" -> "policy_deny"
    [] permit = "ask"  -> "request_approval"
    [] permit \in Granting -> IF op.effect = "ask" THEN "approve" ELSE "sandbox"

\* Wrong: the session never starts to wait; it never stops waiting.
ReconciledNever(waiting) == session

ReconciledOneWay(waiting) ==
  IF waiting # {} /\ session = "running" THEN "waiting_approval" ELSE session

\* _reconcile_approval_waiting_status: the status the session should have.
Reconciled(waiting) ==
  IF waiting # {} /\ session = "running" THEN "waiting_approval"
  ELSE IF waiting = {} /\ session = "waiting_approval" THEN "running"
  ELSE session

-----------------------------------------------------------------------------
(* Evidence appends, control flow and scheduling. *)

\* ProjectingTraceRecorder.append returns: the event is in the trace and the
\* projection took it.
Append(t) ==
  /\ trace' = t
  /\ UNCHANGED faults

\* It raises: the lock timed out or the write failed before or after the
\* line reached the file.
Raises(t) ==
  /\ faults < MaxFaults
  /\ faults' = faults + 1
  /\ trace' \in {trace, t}

\* It raises because the projection refuses the event, already written.
Rejects(t) ==
  /\ trace' = t
  /\ UNCHANGED faults

Continue(step) ==
  /\ op' = IF step = "return" THEN Idle ELSE [op EXCEPT !.step = step]
  /\ held' = IF step = "return" /\ op.kind = "resume"
               THEN [held EXCEPT ![op.call] = Absent] ELSE held

\* Wrong: an error while "executing" is recorded is swallowed.
RaiseErrorSwallowed ==
  /\ op' = [op EXCEPT !.step = IF op.step = "launch" THEN "invoke" ELSE "raise"]
  /\ UNCHANGED held

RaiseError ==
  /\ op' = [op EXCEPT !.step = "raise"]
  /\ UNCHANGED held

\* Another task of the process may run: no governed call is in progress, or
\* it is at a step where the scheduler may switch.
TaskMayRun == op.step \in SwitchSteps \cup {"free"} /\ fin = "none" /\ ~leaving

\* Wrong: a call is given up once its session has ended.
OpMayRunWhileOpen == fin = "none" /\ ~leaving /\ session \notin TerminalSession

\* The governed call may take its next step: an unlocked operation is not in
\* the middle of its own appends, unless the tasks are preempted threads.
OpMayRun == (fin = "none" /\ ~leaving) \/ "finishing" \in SwitchSteps

At(step) == op.step = step /\ OpMayRun

-----------------------------------------------------------------------------
(* Opening, resuming and leaving a context. *)

NoMemory ==
  /\ session' = Absent
  /\ pending' = {}
  /\ sequence' = 0
  /\ blocked' = FALSE
  /\ held' = [c \in CallIds |-> Absent]

\* AgentTrustRuntime.session and __enter__: session_created, then created ->
\* running.  If an append raises, __enter__ raises and no context is entered.
OpenSession(m) ==
  /\ context = "none"
  /\ trace.session = Absent
  /\ LET created == SessionCreated(trace)
         started == SessionStatusChanged(created, "running")
     IN \/ /\ Append(started)
           /\ context' = "fresh"
           /\ mode' = m
           /\ session' = "running"
        \/ /\ Raises(started) \/ Raises(created)
           /\ UNCHANGED <<context, mode, session>>
  /\ UNCHANGED <<pending, sequence, blocked, held, op, queued, fin, leaving, outside>>

\* Wrong: numbering goes on after the waiting calls only; one too high.
LastSequenceOfWaiting(t) ==
  IF WaitingCalls(t) = {} THEN 0
  ELSE CHOOSE c \in WaitingCalls(t) : \A d \in WaitingCalls(t) : d <= c

LastSequencePlusOne(t) == LastSequenceOfWaiting(t) + 1

\* The highest sequence among the replayed calls.
LastSequence(t) ==
  LET requested == {c \in CallIds : t.call[c] # Absent}
  IN IF requested = {} THEN 0
     ELSE CHOOSE c \in requested : \A d \in requested : d <= c

\* What _resume_locked requires before it rebuilds a session: a replayable
\* trace, a waiting session, and an approval request for every waiting call.
Resumable(t) ==
  /\ Replayable(t)
  /\ t.session = "waiting_approval"
  /\ WaitingCalls(t) # {}
  /\ \A c \in WaitingCalls(t) : t.approval[c] # Absent

\* The decided, unexpired approval of one waiting call.
Decided(t, c) ==
  /\ c \in WaitingCalls(t)
  /\ t.approval[c] \in {"approved", "denied"}
  /\ c \notin expired

\* AgentTrustRuntime.resume: the run lock is held from here until the context
\* is left, and memory is rebuilt from the replayed trace alone.
ResumeRun(c, m) ==
  /\ context = "none"
  /\ op.step = "free"
  /\ \A d \in CallIds : queued[d] = 0
  /\ Resumable(trace)
  /\ Decided(trace, c)
  /\ context' = "restored"
  /\ mode' = m
  /\ session' = trace.session
  /\ pending' = WaitingCalls(trace)
  /\ sequence' = LastSequence(trace)
  /\ blocked' = FALSE
  /\ held' = [d \in CallIds |->
                IF d \in WaitingCalls(trace) THEN trace.approval[d] ELSE Absent]
  /\ UNCHANGED <<trace, faults, op, queued, fin, leaving, outside>>

\* __exit__: fail after an exception (unless approvals are awaited), time out,
\* or close.
Exit(how) ==
  /\ context # "none"
  /\ TaskMayRun
  /\ leaving' = TRUE
  /\ \/ /\ how = "exception"
        /\ fin' = IF session \in TerminalSession \cup {"waiting_approval"}
                    THEN "none" ELSE "failed"
     \/ /\ how = "timeout"
        /\ fin' = IF session \in TerminalSession THEN "none" ELSE "timed_out"
     \/ /\ how = "close"
        /\ fin' = IF session = "running" /\ ~blocked THEN "completed" ELSE "none"
  /\ UNCHANGED <<trace, context, mode, memory, op, queued, faults, outside>>

\* The end of __exit__: the run lock is released.  Memory only matters while
\* a governed call still runs.
Leave ==
  /\ leaving
  /\ fin = "none"
  /\ context' = "none"
  /\ leaving' = FALSE
  /\ IF op.step = "free" /\ \A c \in CallIds : queued[c] = 0
       THEN NoMemory ELSE UNCHANGED memory
  /\ UNCHANGED <<trace, mode, op, queued, fin, faults, outside>>

-----------------------------------------------------------------------------
(* Operations outside the operation lock. *)

Target == IF fin = "timed_out" THEN "failed" ELSE fin

\* _transition_session: assign, append session_status_changed (and, for
\* completed, session_completed).  A pair outside the table raises; timeout
\* appends session_timed_out first, and nothing is assigned if that raises.
FinishSession ==
  /\ fin # "none"
  /\ fin' = "none"
  /\ \/ /\ SessionMayBecome(session, Target)
        /\ session' = Target
        /\ LET t == SessionStatusChanged(trace, Target)
           IN Append(t) \/ Raises(t)
     \/ /\ ~SessionMayBecome(session, Target)
        /\ UNCHANGED <<session, trace, faults>>
     \/ /\ fin = "timed_out"
        /\ Raises(trace)
        /\ UNCHANGED session
  /\ UNCHANGED <<context, mode, pending, sequence, blocked, held, op, queued,
                 leaving, outside>>

\* record_final_answer: the answer and its groundguard_check are appended, then
\* the session completes or completion is blocked.
SubmitAnswer(verdict) ==
  /\ context # "none"
  /\ TaskMayRun
  /\ session = "running"
  /\ LET t == GroundguardChecked(trace, verdict)
     IN \/ /\ Append(t)
           /\ blocked' = ~(verdict = "verified" \/ AnswerMode = "warn")
           /\ fin' = IF verdict = "verified" \/ AnswerMode = "warn"
                       THEN "completed" ELSE "none"
        \/ /\ Raises(t)
           /\ UNCHANGED <<blocked, fin>>
  /\ UNCHANGED <<context, mode, session, pending, sequence, held, op, queued,
                 leaving, outside>>

\* _raise_if_timed_out at the head of an operation: session_timed_out is
\* appended, then the session fails.
TimeOut ==
  /\ context # "none"
  /\ TaskMayRun
  /\ session \notin TerminalSession
  /\ fin' = "timed_out"
  /\ UNCHANGED <<trace, context, mode, memory, op, queued, leaving, faults, outside>>

-----------------------------------------------------------------------------
(* Starting a governed call. *)

\* Wrong: any session that was started takes calls.
AcceptsCallsOnceStarted == session \notin {Absent, "created"}

AcceptsCalls == session \in {"running", "waiting_approval"}

\* execute / execute_async: the status check, the next sequence number and
\* tool_call_requested.  This append is outside the try block: when it raises
\* the session does not fail.  (A refused duplicate is an IntegrityError,
\* which the recorder swallows.)
Execute ==
  /\ context # "none"
  /\ op.step = "free"
  /\ TaskMayRun
  /\ AcceptsCalls
  /\ sequence < MaxCalls
  /\ sequence' = sequence + 1
  /\ LET t == ToolCallRequested(trace, sequence + 1)
     IN \/ /\ Append(t)
           /\ op' = Began(sequence + 1, "execute", "requested", Absent)
        \/ /\ Raises(t)
           /\ UNCHANGED op
  /\ UNCHANGED <<context, mode, session, pending, blocked, held, queued, fin,
                 leaving, outside>>

\* Wrong: a decision is taken for an approval.
ResponseIgnoringDenial(decision) == "approve"

Response(decision) == IF decision = "approved" THEN "approve" ELSE "deny"

\* The checks of resume_pending_approval, made on the context's dictionaries
\* before the operation lock is asked for.
MayResume(c) ==
  /\ context # "none"
  /\ TaskMayRun
  /\ held[c] \in {"approved", "denied"}
  /\ c \notin expired

\* resume_pending_approval when the operation lock is free.  The held
\* SessionToolCall is immutable: it always says waiting_approval.
ResumeCall(c) ==
  /\ MayResume(c)
  /\ op.step = "free"
  /\ session = "waiting_approval"
  /\ op' = Began(c, "resume", "waiting_approval", Response(held[c]))
  /\ UNCHANGED <<trace, context, mode, memory, queued, fin, leaving, faults, outside>>

\* resume_pending_approval while another governed call holds the lock.
QueueResume(c) ==
  /\ MayResume(c)
  /\ op.step # "free"
  /\ queued[c] < MaxQueued
  /\ queued' = [queued EXCEPT ![c] = @ + 1]
  /\ UNCHANGED <<trace, context, mode, memory, op, fin, leaving, faults, outside>>

\* A waiting resume gets the lock: only the session status is read again.  The
\* response was derived from the approval before the wait, and a decision
\* never changes.
DequeueResume(c) ==
  /\ op.step = "free"
  /\ TaskMayRun
  /\ queued[c] > 0
  /\ queued' = [queued EXCEPT ![c] = @ - 1]
  /\ op' = IF session = "waiting_approval"
             THEN Began(c, "resume", "waiting_approval", Response(trace.approval[c]))
             ELSE op
  /\ UNCHANGED <<trace, context, mode, memory, fin, leaving, faults, outside>>

-----------------------------------------------------------------------------
(* The pipeline of a governed call: RunToolUseCase.execute / execute_async. *)

pipelineOnly == <<context, mode, sequence, blocked, queued, fin, leaving, expired>>

RecordIntent ==
  /\ At("intent")
  /\ LET t == ToolIntentRecorded(trace, op.call)
     IN \/ Append(t) /\ Continue("evaluate")
        \/ Raises(t) /\ RaiseError
  /\ UNCHANGED <<pipelineOnly, session, pending, ran>>

\* The policy decision and the hook verdict (a hook_decision is appended when a
\* hook matched).  A restored context evaluates the same policy snapshot and
\* hooks, but custom tools may be re-registered with another default effect,
\* or not at all; a call whose hook denied it never came to wait.
Evaluate(effect, hook) ==
  /\ At("evaluate")
  /\ op.kind = "resume" => hook = "allow"
  /\ \/ /\ Append(trace)
        /\ op' = [op EXCEPT !.effect = effect, !.hook = hook,
                            !.step = IF effect = "ask" /\ op.response = Absent
                                       THEN "ask" ELSE "permission"]
        /\ UNCHANGED held
     \/ Raises(trace) /\ RaiseError
  /\ UNCHANGED <<pipelineOnly, session, pending, ran>>

\* _record_tool_status: the active call takes the new status, the event is
\* appended, the pending set follows, and the session is reconciled with it.
\* An illegal status pair raises before anything is appended; a pair that only
\* the trace knows to be illegal raises after.
RecordToolStatus ==
  /\ op.step \in StatusSteps
  /\ OpMayRun
  /\ IF ~CallMayBecome(op.status, NewStatus)
       THEN /\ RaiseError
            /\ UNCHANGED <<trace, faults, pending>>
       ELSE LET t == ToolCallStatusChanged(trace, op.call, NewStatus)
                waiting == IF op.step = "ask" THEN pending \cup {op.call}
                                              ELSE pending \ {op.call}
                legal == CallMayBecome(trace.call[op.call], NewStatus)
            IN \/ /\ legal
                  /\ Append(t)
                  /\ pending' = waiting
                  /\ IF Reconciled(waiting) # session
                       THEN /\ op' = [op EXCEPT !.step = "reconcile",
                                                !.next = AfterStatus,
                                                !.status = NewStatus]
                            /\ UNCHANGED held
                       ELSE IF AfterStatus = "return"
                       THEN Continue("return")
                       ELSE /\ op' = [op EXCEPT !.step = AfterStatus,
                                                !.status = NewStatus]
                            /\ UNCHANGED held
               \/ /\ Raises(t) \/ (~legal /\ Rejects(t))
                  /\ RaiseError
                  /\ UNCHANGED pending
  /\ UNCHANGED <<pipelineOnly, session, ran>>

\* _reconcile_approval_waiting_status when the session must change.
ReconcileSession ==
  /\ At("reconcile")
  /\ LET s == Reconciled(pending)
         t == SessionStatusChanged(trace, s)
         legal == SessionMayBecome(trace.session, s)
     IN IF s = session
          THEN Continue(op.next) /\ UNCHANGED <<session, trace, faults>>
          ELSE /\ session' = s
               /\ \/ legal /\ Append(t) /\ Continue(op.next)
                  \/ /\ Raises(t) \/ (~legal /\ Rejects(t))
                     /\ RaiseError
  /\ UNCHANGED <<pipelineOnly, pending, ran>>

\* request_interactive_approval: the prompt is recorded, then a person answers
\* (or closes the terminal, which raises).
Prompt(answer) ==
  /\ At("prompt")
  /\ \/ /\ Append(trace)
        /\ op' = [op EXCEPT !.response = answer, !.step = "permission"]
        /\ UNCHANGED held
     \/ Raises(trace) /\ RaiseError
  /\ UNCHANGED <<pipelineOnly, session, pending, ran>>

DecidePermission ==
  /\ At("permission")
  /\ LET permit == Permit(op.effect, op.hook, op.response)
         t == PermissionDecided(trace, op.call, permit)
     IN \/ Append(t) /\ Continue(AfterPermit(permit))
        \/ Raises(t) /\ RaiseError
  /\ UNCHANGED <<pipelineOnly, session, pending, ran>>

\* The deferred ask: run_tool returned, and execute appends approval_requested
\* outside its try block, so that an error does not fail the session.
RequestApproval ==
  /\ At("request_approval")
  /\ LET t == ApprovalRequested(trace, op.call)
     IN Append(t) \/ Raises(t)
  /\ Continue("return")
  /\ UNCHANGED <<pipelineOnly, session, pending, ran>>

CheckSandbox(verdict) ==
  /\ At("sandbox")
  /\ LET t == SandboxDecided(trace, op.call, verdict)
     IN \/ /\ Append(t)
           /\ Continue(IF verdict = "allow" THEN "launch" ELSE "sandbox_deny")
        \/ Raises(t) /\ RaiseError
  /\ UNCHANGED <<pipelineOnly, session, pending, ran>>

\* The tool gateway calls the handler: from here the call has an effect.
InvokeHandler ==
  /\ At("invoke")
  /\ ran' = [ran EXCEPT ![op.call] = @ + 1]
  /\ Continue("running")
  /\ UNCHANGED <<pipelineOnly, trace, session, pending, faults>>

\* The handler returns a result, or raises (a cancelled task included).
HandlerReturns(result) ==
  /\ At("running")
  /\ op' = [op EXCEPT !.result = result,
                      !.step = IF result = "exception" THEN "abort" ELSE "result"]
  /\ UNCHANGED <<pipelineOnly, trace, session, pending, held, ran, faults>>

\* tool_result and, for a successful write, write_recovery_checkpoint.
RecordResult ==
  /\ At("result")
  /\ \/ Append(trace) /\ Continue("finish")
     \/ Raises(trace) /\ RaiseError
  /\ UNCHANGED <<pipelineOnly, session, pending, ran>>

RecordFacts ==
  /\ At("facts")
  /\ \/ Append(trace) /\ Continue("return")
     \/ Raises(trace) /\ RaiseError
  /\ UNCHANGED <<pipelineOnly, session, pending, ran>>

\* except BaseException in _execute / _resume_tool_call: a session that is not
\* terminal fails, and the error goes to the caller (also when this append
\* raises).
FailCall ==
  /\ At("raise")
  /\ op' = Idle
  /\ IF session \in TerminalSession
       THEN UNCHANGED <<session, trace, faults>>
       ELSE /\ session' = "failed"
            /\ LET t == SessionStatusChanged(trace, "failed")
               IN Append(t) \/ Raises(t)
  /\ UNCHANGED <<pipelineOnly, pending, held, ran>>

-----------------------------------------------------------------------------
(* The clock, other processes, and crashes. *)

sessionOnly == <<context, mode, memory, op, queued, fin, leaving>>

\* expires_at of an approval passes.
Expire(c) ==
  /\ trace.approval[c] # Absent
  /\ c \notin expired
  /\ expired' = expired \cup {c}
  /\ UNCHANGED <<sessionOnly, trace, ran, faults>>

\* agenttrust approvals approve|deny: under the run lock, which a restored
\* context holds, the run is replayed and a pending approval is decided; one
\* that has expired is recorded as denied.
Decide(c, decision) ==
  /\ context # "restored"
  /\ Replayable(trace)
  /\ trace.approval[c] = "pending"
  /\ Append(ApprovalDecided(trace, c, IF c \in expired THEN "denied" ELSE decision))
  /\ UNCHANGED <<sessionOnly, outside>>

\* _cancel_locked as far as it gets: it denies the pending approvals, then the
\* waiting calls, then cancels the session.  The part done is a prefix of that.
CancelledPart(approvals, calls, done) ==
  [trace EXCEPT
     !.approval = [c \in CallIds |-> IF c \in approvals THEN "denied" ELSE @[c]],
     !.call     = [c \in CallIds |-> IF c \in calls THEN "policy_denied" ELSE @[c]],
     !.session  = IF done THEN "cancelled" ELSE @]

CancelRun ==
  /\ context # "restored"
  /\ ~LiveCancel => context = "none" /\ op.step = "free"
  /\ Replayable(trace)
  /\ trace.session \notin TerminalSession
  /\ \/ Append(CancelledPart(PendingApprovals(trace), WaitingCalls(trace), TRUE))
     \/ /\ faults < MaxFaults
        /\ faults' = faults + 1
        /\ \E a \in SUBSET PendingApprovals(trace), w \in SUBSET WaitingCalls(trace) :
             /\ w # {} => a = PendingApprovals(trace)
             /\ trace' = CancelledPart(a, w, FALSE)
  /\ UNCHANGED <<sessionOnly, outside>>

\* The process of the context dies: only the evidence stays.
Crash ==
  /\ context # "none" \/ op.step # "free"
  /\ faults < MaxFaults
  /\ faults' = faults + 1
  /\ context' = "none"
  /\ op' = Idle
  /\ queued' = [c \in CallIds |-> 0]
  /\ fin' = "none"
  /\ leaving' = FALSE
  /\ NoMemory
  /\ UNCHANGED <<trace, mode, outside>>

-----------------------------------------------------------------------------
Init ==
  /\ trace = EmptyTrace
  /\ expired = {}
  /\ context = "none"
  /\ mode = "deny"
  /\ session = Absent
  /\ pending = {}
  /\ sequence = 0
  /\ blocked = FALSE
  /\ held = [c \in CallIds |-> Absent]
  /\ op = Idle
  /\ queued = [c \in CallIds |-> 0]
  /\ fin = "none"
  /\ leaving = FALSE
  /\ ran = [c \in CallIds |-> 0]
  /\ faults = 0

Contexts ==
  \/ \E m \in ApprovalModes : OpenSession(m)
  \/ \E c \in CallIds, m \in ApprovalModes : ResumeRun(c, m)
  \/ \E how \in {"close", "exception", "timeout"} : Exit(how)
  \/ Leave

Unlocked ==
  \/ \E verdict \in {"verified", "unsupported"} : SubmitAnswer(verdict)
  \/ TimeOut
  \/ FinishSession

Starts ==
  \/ Execute
  \/ \E c \in CallIds : ResumeCall(c) \/ QueueResume(c) \/ DequeueResume(c)

Pipeline ==
  \/ RecordIntent
  \/ \E effect \in {"allow", "ask", "deny"}, hook \in {"allow", "deny"} :
       Evaluate(effect, hook)
  \/ RecordToolStatus
  \/ ReconcileSession
  \/ \E answer \in {"approve", "deny"} : Prompt(answer)
  \/ DecidePermission
  \/ RequestApproval
  \/ \E verdict \in {"allow", "deny"} : CheckSandbox(verdict)
  \/ InvokeHandler
  \/ \E result \in {"ok", "error", "exception"} : HandlerReturns(result)
  \/ RecordResult
  \/ RecordFacts
  \/ FailCall

Environment ==
  \/ \E c \in CallIds : Expire(c)
  \/ \E c \in CallIds, decision \in Approvers : Decide(c, decision)
  \/ CancelRun
  \/ Crash

Next == Contexts \/ Unlocked \/ Starts \/ Pipeline \/ Environment

\* A call that runs goes on, an unlocked transition is completed, and a context
\* that is being left is left: each is straight-line code of one process (and a
\* handler returns).  Nothing makes a caller, an approver or the clock act.
Fairness ==
  /\ WF_vars(Pipeline)
  /\ WF_vars(FinishSession)
  /\ WF_vars(Leave)

Spec == Init /\ [][Next]_vars

FairSpec == Spec /\ Fairness

-----------------------------------------------------------------------------
(* Properties. *)

OpTypes ==
  [step     : OpSteps,
   next     : OpSteps \cup {"return"},
   call     : CallIds \cup {0},
   kind     : {"execute", "resume"},
   status   : CallStatuses \cup {Absent},
   effect   : {"allow", "ask", "deny", Absent},
   hook     : {"allow", "deny"},
   response : {"approve", "deny", Absent},
   result   : {"ok", "error", "exception", Absent}]

\* Every variable has its type: the durable trace, the memory of the live
\* object, the call in progress and the environment.
TypeOK ==
  /\ trace \in Traces
  /\ expired \subseteq CallIds
  /\ context \in {"none", "fresh", "restored"}
  /\ mode \in ModeNames
  /\ session \in SessionStatuses \cup {Absent}
  /\ pending \subseteq CallIds
  /\ sequence \in 0..MaxCalls
  /\ blocked \in BOOLEAN
  /\ held \in [CallIds -> ApprovalDecisions \cup {Absent}]
  /\ op \in OpTypes
  /\ queued \in [CallIds -> Nat]
  /\ fin \in {"none", "completed", "failed", "timed_out"}
  /\ leaving \in BOOLEAN
  /\ ran \in [CallIds -> Nat]
  /\ faults \in 0..MaxFaults

\* Evidence before effect: the handler of a call has only ever been invoked if
\* the durable trace says that the call was executing (or what became of it).
\* Appends that raise, crashes and resumes included.
EffectsAreRecorded ==
  \A c \in CallIds :
    ran[c] > 0 => trace.call[c] \in {"executing", "succeeded", "failed"}

\* Only authorised effects: when a handler is invoked, the trace holds a
\* granting permission_decision and an allowing sandbox_decision for the call,
\* and if the call was put to an approver, the recorded decision is "approved" -
\* also when the resuming process evaluates the call differently.
Authorised(c) ==
  /\ trace.permit[c] \in Granting
  /\ trace.sandbox[c] = "allow"
  /\ trace.approval[c] \in {Absent, "approved"}

EffectsAreAuthorised ==
  [][\A c \in CallIds : ran'[c] # ran[c] => Authorised(c)]_vars

\* No call runs twice, however many resumes of it are under way.
EffectsAreUnique == \A c \in CallIds : ran[c] <= 1

\* The trace never contains an event that replay_events refuses: with one call
\* at a time, whatever appends raise and whenever the process dies, the next
\* process reads a legal history.
TraceStaysLegal == ~trace.corrupt

AtRest == op.step = "free" /\ fin = "none" /\ ~leaving

\* waiting_approval means that at least one call awaits approval, and only
\* that (docs/concepts.md): between operations, and as long as nothing failed,
\* the live session, its pending set and the trace agree.
WaitingMeansPending ==
  faults = 0 /\ AtRest /\ session \in {"running", "waiting_approval"} =>
    /\ session = trace.session
    /\ pending = WaitingCalls(trace)
    /\ session = "waiting_approval" <=> pending # {}

\* A completed run is settled: unless a process died or an append raised, none
\* of its calls waits, is approved or is executing, and none of its approvals is
\* undecided.
CompletedRunsAreSettled ==
  faults = 0 /\ trace.session = "completed" =>
    /\ \A c \in CallIds :
         trace.call[c] \notin {"waiting_approval", "approved", "executing"}
    /\ PendingApprovals(trace) = {}

\* No handler is invoked once the trace says that the session has ended.
NoEffectAfterEnd == [][ran' # ran => trace.session \notin TerminalSession]_vars

\* The promise, read off the trace and the effects.
Phase(c) ==
  IF ran[c] > 0 THEN "performed"
  ELSE CASE trace.call[c] \in {Absent, "requested"}         -> "new"
         [] trace.call[c] = "waiting_approval"              -> "asked"
         [] trace.call[c] \in {"approved", "executing"}     -> "granted"
         [] trace.call[c] \in TerminalCall                  -> "refused"

Promise == INSTANCE ApprovalProtocol WITH
  Calls   <- CallIds,
  phase   <- [c \in CallIds |-> Phase(c)],
  consent <- trace.approval

\* Every behaviour of the run is one that the approval protocol allows.
KeepsPromise == Promise!Spec

\* A governed call that started comes to its end, whatever happens to the
\* session meanwhile.
CallsReturn == op.step # "free" ~> op.step = "free"

\* A resumed call is settled in the trace, or the session has failed.
ResumesSettle ==
  \A c \in CallIds :
    op.kind = "resume" /\ op.call = c
      ~> trace.call[c] \in TerminalCall \/ session = "failed"

\* CHANGELOG: expiry is enforced for resume.  No call is resumed on an approval
\* that has expired.
ExpiredApprovalsAreNotUsed ==
  [][op.step = "free" /\ op'.kind = "resume" => op'.call \notin expired]_vars

\* README: pause a session, decide later, and resume.  A run that waits with a
\* decided, unexpired approval, and that no process has open, can be resumed.
PausedRunsAreResumable ==
  context = "none" /\ trace.session = "waiting_approval"
    => \A c \in CallIds : Decided(trace, c) => Resumable(trace)

\* A run whose last checked answer was refused is not completed.
RefusedAnswersBlockCompletion ==
  trace.session = "completed" => trace.answer # "unsupported"
=============================================================================
