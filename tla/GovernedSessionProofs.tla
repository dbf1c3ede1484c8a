------------------------ MODULE GovernedSessionProofs ------------------------
(***************************************************************************)
(* Type correctness of GovernedSession, the lemmas about the events of a   *)
(* trace that all its proofs rest on, and what holds of every run:         *)
(* evidence before effect, no effect twice, only authorised effects.  For  *)
(* every number of calls, faults and queued resumes, every approval mode,  *)
(* one caller, coroutines or preempted threads (SwitchSteps), and with     *)
(* cancellations of a live session (LiveCancel).                           *)
(***************************************************************************)
EXTENDS GovernedSession, WellFoundedInduction, TLAPS

-----------------------------------------------------------------------------
(* The inductive form of the type invariant. *)

\* The call is at a step of S, or reconciles the session and goes there.
Steps(S) == op.step \in S \/ (op.step = "reconcile" /\ op.next \in S)

\* The locals that a step reads have been assigned: the call, and for the steps
\* after the policy decision its effect.
LocalsAreSet ==
  /\ op.step # "free" => op.call \in CallIds
  /\ Steps({"ask", "prompt", "permission"}) => op.effect # Absent

TypeInv == TypeOK /\ LocalsAreSet

-----------------------------------------------------------------------------
(* What each event does to the rows of a trace. *)

SameRows(t, u) ==
  /\ u.call = t.call
  /\ u.approval = t.approval
  /\ u.permit = t.permit
  /\ u.sandbox = t.sandbox

\* An event that replay refuses changes no row.
LEMMA RefusedRows ==
  \A t \in Traces : Refused(t) \in Traces /\ SameRows(t, Refused(t))
                     /\ Refused(t).session = t.session
BY DEF Refused, Traces, SameRows

\* session_created and session_status_changed leave the calls alone.
LEMMA SessionCreatedRows ==
  \A t \in Traces :
    /\ SessionCreated(t) \in Traces
    /\ SameRows(t, SessionCreated(t))
    /\ SessionCreated(t).session = "created"
BY DEF SessionCreated, Traces, SessionStatuses, SameRows

LEMMA SessionStatusRows ==
  \A t \in Traces, s \in SessionStatuses :
    /\ SessionStatusChanged(t, s) \in Traces
    /\ SameRows(t, SessionStatusChanged(t, s))
    /\ SessionStatusChanged(t, s).session \in {s, t.session}
BY RefusedRows DEF SessionStatusChanged, Traces, SameRows

\* The events that only add evidence: tool_intent and groundguard_check.
LEMMA IntentRows ==
  \A t \in Traces, c \in CallIds :
    /\ ToolIntentRecorded(t, c) \in Traces
    /\ SameRows(t, ToolIntentRecorded(t, c))
    /\ ToolIntentRecorded(t, c).session = t.session
BY DEF ToolIntentRecorded, Traces, SameRows

LEMMA GroundguardRows ==
  \A t \in Traces, v \in {"verified", "unsupported"} :
    /\ GroundguardChecked(t, v) \in Traces
    /\ SameRows(t, GroundguardChecked(t, v))
    /\ GroundguardChecked(t, v).session = t.session
BY DEF GroundguardChecked, Traces, SameRows

\* tool_call_requested and tool_call_status_changed touch one call row.
LEMMA CallRequestedRows ==
  \A t \in Traces, c \in CallIds :
    LET u == ToolCallRequested(t, c)
    IN /\ u \in Traces
       /\ u.session = t.session /\ u.approval = t.approval
       /\ u.permit = t.permit /\ u.sandbox = t.sandbox
       /\ u.call = t.call \/ (t.call[c] = Absent /\ u.call = [t.call EXCEPT ![c] = "requested"])
BY RefusedRows DEF ToolCallRequested, Traces, CallStatuses, SameRows

LEMMA CallStatusRows ==
  \A t \in Traces, c \in CallIds, s \in CallStatuses :
    LET u == ToolCallStatusChanged(t, c, s)
    IN /\ u \in Traces
       /\ u.session = t.session /\ u.approval = t.approval
       /\ u.permit = t.permit /\ u.sandbox = t.sandbox
       /\ CallMayBecome(t.call[c], s) => u.call = [t.call EXCEPT ![c] = s]
       /\ ~CallMayBecome(t.call[c], s) => u.call = t.call
BY RefusedRows DEF ToolCallStatusChanged, Traces, SameRows

\* approval_requested and the decisions touch one approval row.
LEMMA ApprovalRequestedRows ==
  \A t \in Traces, c \in CallIds :
    LET u == ApprovalRequested(t, c)
    IN /\ u \in Traces
       /\ u.session = t.session /\ u.call = t.call
       /\ u.permit = t.permit /\ u.sandbox = t.sandbox
       /\ \/ u.approval = t.approval
          \/ /\ t.call[c] # Absent /\ t.approval[c] = Absent
             /\ u.approval = [t.approval EXCEPT ![c] = "pending"]
BY RefusedRows DEF ApprovalRequested, Traces, ApprovalDecisions, SameRows

LEMMA ApprovalDecidedRows ==
  \A t \in Traces, c \in CallIds, d \in ApprovalDecisions :
    LET u == ApprovalDecided(t, c, d)
    IN /\ u \in Traces
       /\ u.session = t.session /\ u.call = t.call
       /\ u.permit = t.permit /\ u.sandbox = t.sandbox
       /\ \/ u.approval = t.approval
          \/ /\ t.approval[c] = "pending"
             /\ u.approval = [t.approval EXCEPT ![c] = d]
BY RefusedRows DEF ApprovalDecided, Traces, SameRows

\* permission_decision and sandbox_decision touch their own row.
LEMMA PermissionRows ==
  \A t \in Traces, c \in CallIds, p \in Permits :
    LET u == PermissionDecided(t, c, p)
    IN /\ u \in Traces
       /\ u.session = t.session /\ u.call = t.call
       /\ u.approval = t.approval /\ u.sandbox = t.sandbox
       /\ u.permit = [t.permit EXCEPT ![c] = p]
BY DEF PermissionDecided, Traces

LEMMA SandboxRows ==
  ASSUME NEW t \in Traces, NEW c \in CallIds, NEW v \in {"allow", "deny"}
  PROVE  LET u == SandboxDecided(t, c, v)
         IN /\ u \in Traces
            /\ u.session = t.session /\ u.call = t.call
            /\ u.approval = t.approval /\ u.permit = t.permit
            /\ u.sandbox = [t.sandbox EXCEPT ![c] = v]
BY DEF SandboxDecided, Traces

\* A cancellation, or the part of it that was done, denies only pending
\* approvals and only waiting calls.
LEMMA CancelledRows ==
  ASSUME trace \in Traces,
         NEW a \in SUBSET PendingApprovals(trace), NEW w \in SUBSET WaitingCalls(trace),
         NEW done \in BOOLEAN
  PROVE  LET u == CancelledPart(a, w, done)
         IN /\ u \in Traces
            /\ u.session \in {"cancelled", trace.session}
            /\ u.permit = trace.permit /\ u.sandbox = trace.sandbox
            /\ \A c \in CallIds :
                 /\ u.call[c] = trace.call[c]
                      \/ (trace.call[c] = "waiting_approval" /\ u.call[c] = "policy_denied")
                 /\ u.approval[c] = trace.approval[c]
                      \/ (trace.approval[c] = "pending" /\ u.approval[c] = "denied")
BY DEF CancelledPart, Traces, PendingApprovals, WaitingCalls, SessionStatuses,
       CallStatuses, ApprovalDecisions

-----------------------------------------------------------------------------
(* Type correctness. *)

\* The helpers return what their names say.
LEMMA PermitType ==
  ASSUME TypeInv, op.effect # Absent
  PROVE  Permit(op.effect, op.hook, op.response) \in Permits
BY DEF TypeInv, TypeOK, OpTypes, Permit, Permits, ModeNames

LEMMA AfterPermitType ==
  ASSUME NEW p \in Permits
  PROVE  AfterPermit(p) \in {"policy_deny", "request_approval", "approve", "sandbox"}
BY DEF AfterPermit, Permits, Granting

LEMMA NewStatusType ==
  ASSUME op.step \in StatusSteps
  PROVE  /\ NewStatus \in CallStatuses
         /\ AfterStatus \in {"prompt", "permission", "return", "sandbox", "invoke",
                            "facts", "raise"}
         /\ AfterStatus \in {"prompt", "permission"} => op.step = "ask"
BY DEF StatusSteps, NewStatus, AfterStatus, CallStatuses

\* The highest sequence among the replayed calls exists, as there are finitely
\* many numbers; it bounds every requested call.
LEMMA LargestExists ==
  ASSUME NEW n \in Nat, NEW S \in SUBSET (1..n), S # {}
  PROVE  \E m \in S : \A d \in S : d <= m
<1> DEFINE T == {k \in Nat : n - k \in S}
<1>1. T # {}
  <2>1. PICK s \in S : TRUE
    OBVIOUS
  <2>2. n - s \in T
    BY <2>1
  <2> QED
    BY <2>2
<1>2. PICK k \in T : \A j \in T : k <= j
  <2>1. T \subseteq Nat
    OBVIOUS
  <2> HIDE DEF T
  <2>2. \E k \in T : \A j \in T : ~(<<j, k>> \in OpToRel(<, Nat))
    BY <1>1, <2>1, NatLessThanWellFounded, WFMin
  <2>3. \A j, k \in Nat : ~(<<j, k>> \in OpToRel(<, Nat)) => k <= j
    BY DEF OpToRel
  <2> QED
    BY <2>1, <2>2, <2>3
<1>3. n - k \in S
  BY <1>2
<1>4. \A d \in S : n - d \in T
  OBVIOUS
<1>5. \A d \in S : d <= n - k
  BY <1>2, <1>4
<1> QED
  BY <1>3, <1>5

LEMMA LastSequenceBounds ==
  ASSUME trace \in Traces
  PROVE  /\ LastSequence(trace) \in 0..MaxCalls
         /\ \A c \in CallIds : trace.call[c] # Absent => c <= LastSequence(trace)
<1> DEFINE requested == {c \in CallIds : trace.call[c] # Absent}
<1>1. CASE requested = {}
  BY <1>1, BoundsAssumption DEF LastSequence
<1>2. CASE requested # {}
  <2>1. \E m \in requested : \A d \in requested : d <= m
    <3>1. requested \in SUBSET (1..MaxCalls) /\ MaxCalls \in Nat
      BY BoundsAssumption
    <3> HIDE DEF requested
    <3> QED
      BY <1>2, <3>1, LargestExists
  <2>2. /\ LastSequence(trace) \in requested
        /\ \A d \in requested : d <= LastSequence(trace)
    BY <1>2, <2>1 DEF LastSequence
  <2> QED
    BY <2>2, BoundsAssumption
<1> QED
  BY <1>1, <1>2

LEMMA ResponseType == \A d : Response(d) \in {"approve", "deny"}
BY DEF Response

LEMMA BeganType ==
  ASSUME NEW c \in CallIds, NEW k \in {"execute", "resume"},
         NEW s \in CallStatuses, NEW r \in {"approve", "deny", Absent}
  PROVE  LET o == Began(c, k, s, r)
         IN /\ o \in OpTypes
            /\ o.step = "intent" /\ o.call = c /\ o.kind = k
            /\ o.status = s /\ o.response = r
BY DEF Began, Idle, OpTypes, OpSteps

LEMMA IdleType == Idle \in OpTypes /\ Idle.step = "free"
BY DEF Idle, OpTypes, OpSteps

\* An append that raises or not, of an event that keeps the trace well formed.
LEMMA AppendType ==
  ASSUME TypeInv, NEW t \in Traces, Append(t) \/ Raises(t) \/ Rejects(t)
  PROVE  trace' \in {trace, t} /\ trace' \in Traces /\ faults' \in 0..MaxFaults
BY BoundsAssumption DEF TypeInv, TypeOK, Append, Raises, Rejects

LEMMA TypeInit == Init => TypeInv
<1> SUFFICES ASSUME Init PROVE TypeInv
  OBVIOUS
<1>1. EmptyTrace \in Traces
  BY DEF EmptyTrace, Traces
<1>2. 0 \in 0..MaxFaults /\ 0 \in 0..MaxCalls
  BY BoundsAssumption
<1> QED
  BY <1>1, <1>2, IdleType DEF Init, TypeInv, TypeOK, LocalsAreSet, Steps, Idle, ModeNames

\* The contexts and the operations outside the operation lock.
LEMMA TypeContexts ==
  ASSUME TypeInv, Contexts \/ Unlocked
  PROVE  TypeInv'
<1> USE DEF TypeInv, TypeOK, LocalsAreSet, Steps, Append, Raises, memory, outside, NoMemory
<1>1. ASSUME NEW m \in ApprovalModes, OpenSession(m) PROVE TypeInv'
  <2>1. /\ SessionCreated(trace) \in Traces
        /\ SessionStatusChanged(SessionCreated(trace), "running") \in Traces
    BY SessionCreatedRows, SessionStatusRows DEF SessionStatuses
  <2>2. trace' \in Traces /\ faults' \in 0..MaxFaults
    BY <1>1, <2>1, AppendType DEF OpenSession
  <2>3. m \in ModeNames
    BY ChoiceAssumption
  <2> QED
    BY <1>1, <2>2, <2>3 DEF OpenSession, SessionStatuses
<1>2. ASSUME NEW c \in CallIds, NEW m \in ApprovalModes, ResumeRun(c, m) PROVE TypeInv'
  <2>1. trace.approval \in [CallIds -> ApprovalDecisions \cup {Absent}]
    BY DEF Traces
  <2>2. trace.session = "waiting_approval" /\ WaitingCalls(trace) \subseteq CallIds
    BY <1>2 DEF ResumeRun, Resumable, WaitingCalls
  <2> QED
    BY <1>2, <2>1, <2>2, LastSequenceBounds, ChoiceAssumption
       DEF ResumeRun, SessionStatuses
<1>3. ASSUME NEW how, Exit(how) PROVE TypeInv'
  BY <1>3 DEF Exit
<1>4. CASE Leave
  <2>1. 0 \in 0..MaxCalls
    BY BoundsAssumption
  <2>2. CASE NoMemory
    BY <1>4, <2>1, <2>2 DEF Leave
  <2>3. CASE UNCHANGED memory
    BY <1>4, <2>3 DEF Leave
  <2> QED
    BY <1>4, <2>2, <2>3 DEF Leave
<1>5. ASSUME NEW v \in {"verified", "unsupported"}, SubmitAnswer(v) PROVE TypeInv'
  <2>1. GroundguardChecked(trace, v) \in Traces
    BY <1>5, GroundguardRows
  <2>2. trace' \in Traces /\ faults' \in 0..MaxFaults
    BY <1>5, <2>1, AppendType DEF SubmitAnswer
  <2> QED
    BY <1>5, <2>2 DEF SubmitAnswer
<1>6. CASE TimeOut
  BY <1>6 DEF TimeOut
<1>7. CASE FinishSession
  <2>1. Target \in SessionStatuses
    BY <1>7 DEF FinishSession, Target, SessionStatuses
  <2>2. SessionStatusChanged(trace, Target) \in Traces
    BY <2>1, SessionStatusRows
  <2>3. trace' \in Traces /\ faults' \in 0..MaxFaults
    BY <1>7, <2>2, AppendType DEF FinishSession
  <2> QED
    BY <1>7, <2>1, <2>3 DEF FinishSession
<1> QED
  BY <1>1, <1>2, <1>3, <1>4, <1>5, <1>6, <1>7 DEF Contexts, Unlocked

\* Governed calls begin.
LEMMA TypeStarts ==
  ASSUME TypeInv, Starts
  PROVE  TypeInv'
<1> USE DEF TypeInv, TypeOK, LocalsAreSet, Steps, memory, outside
<1>1. CASE Execute
  <2>1. sequence + 1 \in CallIds /\ sequence + 1 \in 0..MaxCalls
    BY <1>1, BoundsAssumption DEF Execute
  <2>2. ToolCallRequested(trace, sequence + 1) \in Traces
    BY <2>1, CallRequestedRows
  <2>3. trace' \in Traces /\ faults' \in 0..MaxFaults
    BY <1>1, <2>2, AppendType DEF Execute
  <2>4. op' = op \/ (op' \in OpTypes /\ op'.step = "intent" /\ op'.call = sequence + 1)
    BY <1>1, <2>1, BeganType DEF Execute, CallStatuses
  <2> QED
    BY <1>1, <2>1, <2>3, <2>4 DEF Execute
<1>2. ASSUME NEW c \in CallIds, ResumeCall(c) PROVE TypeInv'
  <2>1. op' \in OpTypes /\ op'.step = "intent" /\ op'.call = c
    <3>1. Response(held[c]) \in {"approve", "deny", Absent}
      BY ResponseType
    <3>2. "waiting_approval" \in CallStatuses
      BY DEF CallStatuses
    <3>3. op' = Began(c, "resume", "waiting_approval", Response(held[c]))
      BY <1>2 DEF ResumeCall
    <3> QED
      BY <3>1, <3>2, <3>3, BeganType
  <2> QED
    BY <1>2, <2>1 DEF ResumeCall
<1>3. ASSUME NEW c \in CallIds, QueueResume(c) PROVE TypeInv'
  BY <1>3 DEF QueueResume
<1>4. ASSUME NEW c \in CallIds, DequeueResume(c) PROVE TypeInv'
  <2>1. op' = op \/ (op' \in OpTypes /\ op'.step = "intent" /\ op'.call = c)
    <3>1. Response(trace.approval[c]) \in {"approve", "deny", Absent}
      BY ResponseType
    <3>2. "waiting_approval" \in CallStatuses
      BY DEF CallStatuses
    <3>3. \/ op' = op
          \/ op' = Began(c, "resume", "waiting_approval", Response(trace.approval[c]))
      BY <1>4 DEF DequeueResume
    <3> QED
      BY <3>1, <3>2, <3>3, BeganType
  <2>2. queued' \in [CallIds -> Nat]
    BY <1>4 DEF DequeueResume
  <2> QED
    BY <1>4, <2>1, <2>2 DEF DequeueResume
<1> QED
  BY <1>1, <1>2, <1>3, <1>4 DEF Starts

\* A governed call goes on: its step, the append and what it returns to.
LEMMA ContinueType ==
  ASSUME TypeInv, op.step # "free",
         NEW step \in (OpSteps \cup {"return"}) \ {"ask", "prompt", "permission", "reconcile"},
         Continue(step) \/ RaiseError
  PROVE  /\ op' \in OpTypes /\ LocalsAreSet'
         /\ held' \in [CallIds -> ApprovalDecisions \cup {Absent}]
BY IdleType DEF TypeInv, TypeOK, Continue, RaiseError, OpTypes, OpSteps, StatusSteps, LocalsAreSet,
   Steps

\* Statuses: the call takes the next one, the session is reconciled.
LEMMA TypeStatus ==
  ASSUME TypeInv, RecordToolStatus
  PROVE  TypeInv'
<1> DEFINE t == ToolCallStatusChanged(trace, op.call, NewStatus)
<1>1. /\ op.call \in CallIds /\ op.step # "free" /\ op \in OpTypes
      /\ op.step = "ask" => op.effect # Absent
      /\ op.step # "reconcile"
  BY DEF TypeInv, TypeOK, RecordToolStatus, StatusSteps, LocalsAreSet, Steps
<1>2. t \in Traces
  BY <1>1, NewStatusType, CallStatusRows DEF TypeInv, TypeOK, RecordToolStatus
<1>3. trace' \in Traces /\ faults' \in 0..MaxFaults
  BY <1>2, AppendType DEF RecordToolStatus, TypeInv, TypeOK
<1>4. pending' \subseteq CallIds
  BY <1>1 DEF RecordToolStatus, TypeInv, TypeOK
<1>5. /\ op' \in OpTypes /\ LocalsAreSet'
      /\ held' \in [CallIds -> ApprovalDecisions \cup {Absent}]
  <2>1. CASE RaiseError
    BY <1>1, <2>1, ContinueType DEF OpSteps
  <2>2. CASE Continue("return")
    BY <1>1, <2>2, ContinueType
  <2>3. CASE /\ op' = [op EXCEPT !.step = "reconcile", !.next = AfterStatus, !.status = NewStatus]
             /\ UNCHANGED held
    <3>1. op.step \in StatusSteps
      BY DEF RecordToolStatus
    <3>2. "reconcile" \in OpSteps /\ AfterStatus \in OpSteps \cup {"return"}
      BY <3>1, NewStatusType DEF OpSteps
    <3>3. op' \in OpTypes
      BY <1>1, <2>3, <3>1, <3>2, NewStatusType DEF OpTypes
    <3>4. op'.step = "reconcile" /\ op'.next = AfterStatus
          /\ op'.call = op.call /\ op'.effect = op.effect
      BY <1>1, <2>3 DEF OpTypes
    <3>5. LocalsAreSet'
      BY <1>1, <3>1, <3>4, NewStatusType DEF LocalsAreSet, Steps
    <3> QED
      BY <2>3, <3>3, <3>5 DEF TypeInv, TypeOK
  <2>4. CASE /\ AfterStatus # "return"
             /\ op' = [op EXCEPT !.step = AfterStatus, !.status = NewStatus]
             /\ UNCHANGED held
    BY <1>1, <2>4, NewStatusType
       DEF OpTypes, OpSteps, StatusSteps, LocalsAreSet, Steps, TypeInv, TypeOK, RecordToolStatus
  <2> QED
    BY <2>1, <2>2, <2>3, <2>4 DEF RecordToolStatus
<1> QED
  BY <1>3, <1>4, <1>5 DEF RecordToolStatus, TypeInv, TypeOK, pipelineOnly

LEMMA TypeReconcile ==
  ASSUME TypeInv, ReconcileSession
  PROVE  TypeInv'
<1> DEFINE s == Reconciled(pending)
<1>1. op.step = "reconcile" /\ op.call \in CallIds /\ op \in OpTypes
  BY DEF TypeInv, TypeOK, LocalsAreSet, ReconcileSession, At
<1>2. s # session => s \in SessionStatuses
  BY DEF Reconciled, SessionStatuses
<1>3. session' \in SessionStatuses \cup {Absent} /\ trace' \in Traces /\ faults' \in 0..MaxFaults
  <2>1. s # session => SessionStatusChanged(trace, s) \in Traces
    BY <1>2, SessionStatusRows DEF TypeInv, TypeOK
  <2>2. CASE s = session
    BY <2>2 DEF ReconcileSession, TypeInv, TypeOK
  <2>3. CASE s # session
    BY <1>2, <2>1, <2>3, AppendType DEF ReconcileSession
  <2> QED
    BY <2>2, <2>3
<1>4. Continue(op.next) \/ RaiseError
  BY DEF ReconcileSession
<1>5. op' \in OpTypes /\ LocalsAreSet' /\ held' \in [CallIds -> ApprovalDecisions \cup {Absent}]
  BY <1>1, <1>4, IdleType
     DEF Continue, RaiseError, OpTypes, OpSteps, LocalsAreSet, Steps, TypeInv, TypeOK
<1> QED
  BY <1>3, <1>5 DEF ReconcileSession, TypeInv, TypeOK, pipelineOnly

LEMMA TypePipeline ==
  ASSUME TypeInv, Pipeline
  PROVE  TypeInv'
<1> USE DEF TypeInv, TypeOK, pipelineOnly
<1> DEFINE heldType == [CallIds -> ApprovalDecisions \cup {Absent}]
<1>1. CASE RecordIntent
  <2>1. op.step # "free" /\ op.call \in CallIds
    BY <1>1 DEF RecordIntent, At, LocalsAreSet
  <2>2. trace' \in Traces /\ faults' \in 0..MaxFaults
    BY <1>1, <2>1, IntentRows, AppendType DEF RecordIntent
  <2>3. op' \in OpTypes /\ LocalsAreSet' /\ held' \in heldType
    BY <1>1, <2>1, ContinueType DEF RecordIntent, OpSteps
  <2> QED
    BY <1>1, <2>2, <2>3 DEF RecordIntent
<1>2. ASSUME NEW effect \in {"allow", "ask", "deny"}, NEW hook \in {"allow", "deny"},
             Evaluate(effect, hook)
      PROVE  TypeInv'
  <2>1. op.step # "free" /\ op.call \in CallIds
    BY <1>2 DEF Evaluate, At, LocalsAreSet
  <2>2. trace' \in Traces /\ faults' \in 0..MaxFaults
    BY <1>2, AppendType DEF Evaluate
  <2>3. op' \in OpTypes /\ LocalsAreSet' /\ held' \in heldType
    <3>1. CASE RaiseError
      BY <2>1, <3>1, ContinueType DEF OpSteps
    <3>2. ASSUME NEW step \in {"ask", "permission"},
                 op' = [op EXCEPT !.effect = effect, !.hook = hook, !.step = step],
                 UNCHANGED held
          PROVE  op' \in OpTypes /\ LocalsAreSet' /\ held' \in heldType
      <4>1. op \in OpTypes /\ effect # Absent
        BY DEF Absent
      <4>2. /\ op' \in OpTypes
            /\ op'.step = step /\ op'.call = op.call /\ op'.effect = effect
        BY <3>2, <4>1 DEF OpTypes, OpSteps, StatusSteps
      <4> QED
        BY <2>1, <3>2, <4>1, <4>2 DEF LocalsAreSet, Steps
    <3> QED
      BY <1>2, <3>1, <3>2 DEF Evaluate
  <2> QED
    BY <1>2, <2>2, <2>3 DEF Evaluate
<1>3. CASE RecordToolStatus
  BY <1>3, TypeStatus
<1>4. CASE ReconcileSession
  BY <1>4, TypeReconcile
<1>5. ASSUME NEW answer \in {"approve", "deny"}, Prompt(answer) PROVE TypeInv'
  <2>1. op.step = "prompt" /\ op.call \in CallIds /\ op.effect # Absent
    BY <1>5 DEF Prompt, At, LocalsAreSet, Steps
  <2>2. trace' \in Traces /\ faults' \in 0..MaxFaults
    BY <1>5, AppendType DEF Prompt
  <2>3. op' \in OpTypes /\ LocalsAreSet' /\ held' \in heldType
    BY <1>5, <2>1 DEF Prompt, RaiseError, OpTypes, OpSteps, LocalsAreSet, Steps
  <2> QED
    BY <1>5, <2>2, <2>3 DEF Prompt
<1>6. CASE DecidePermission
  <2> DEFINE p == Permit(op.effect, op.hook, op.response)
  <2>1. op.step = "permission" /\ op.call \in CallIds /\ op.effect # Absent
    BY <1>6 DEF DecidePermission, At, LocalsAreSet, Steps
  <2>2. p \in Permits
    BY <2>1, PermitType
  <2>3. PermissionDecided(trace, op.call, p) \in Traces
    BY <2>1, <2>2, PermissionRows
  <2>4. trace' \in Traces /\ faults' \in 0..MaxFaults
    BY <1>6, <2>3, AppendType DEF DecidePermission
  <2>5. AfterPermit(p) \in (OpSteps \cup {"return"}) \ {"ask", "prompt", "permission", "reconcile"}
    BY <2>2, AfterPermitType DEF OpSteps, StatusSteps
  <2>6. Continue(AfterPermit(p)) \/ RaiseError
    BY <1>6 DEF DecidePermission
  <2> HIDE DEF p
  <2>7. op' \in OpTypes /\ LocalsAreSet' /\ held' \in heldType
    BY <2>1, <2>5, <2>6, ContinueType
  <2> QED
    BY <1>6, <2>4, <2>7 DEF DecidePermission
<1>7. CASE RequestApproval
  <2>1. op.step # "free" /\ op.call \in CallIds
    BY <1>7 DEF RequestApproval, At, LocalsAreSet
  <2>2. trace' \in Traces /\ faults' \in 0..MaxFaults
    BY <1>7, <2>1, ApprovalRequestedRows, AppendType DEF RequestApproval
  <2>3. op' \in OpTypes /\ LocalsAreSet' /\ held' \in heldType
    BY <1>7, <2>1, ContinueType DEF RequestApproval
  <2> QED
    BY <1>7, <2>2, <2>3 DEF RequestApproval
<1>8. ASSUME NEW v \in {"allow", "deny"}, CheckSandbox(v) PROVE TypeInv'
  <2>1. op.step # "free" /\ op.call \in CallIds
    BY <1>8 DEF CheckSandbox, At, LocalsAreSet
  <2>2. trace' \in Traces /\ faults' \in 0..MaxFaults
    BY <1>8, <2>1, SandboxRows, AppendType DEF CheckSandbox
  <2>3. Continue("launch") \/ Continue("sandbox_deny") \/ RaiseError
    BY <1>8 DEF CheckSandbox
  <2>4. op' \in OpTypes /\ LocalsAreSet' /\ held' \in heldType
    BY <2>1, <2>3, ContinueType DEF OpSteps, StatusSteps
  <2> QED
    BY <1>8, <2>2, <2>4 DEF CheckSandbox
<1>9. CASE InvokeHandler
  <2>1. op.step # "free" /\ op.call \in CallIds
    BY <1>9 DEF InvokeHandler, At, LocalsAreSet
  <2>2. op' \in OpTypes /\ LocalsAreSet' /\ held' \in heldType
    <3>1. Continue("running")
      BY <1>9 DEF InvokeHandler
    <3> QED
      BY <2>1, <3>1, ContinueType DEF OpSteps
  <2>3. ran' \in [CallIds -> Nat]
    BY <1>9, <2>1 DEF InvokeHandler
  <2> QED
    BY <1>9, <2>2, <2>3 DEF InvokeHandler
<1>10. ASSUME NEW r \in {"ok", "error", "exception"}, HandlerReturns(r) PROVE TypeInv'
  <2>1. op.step # "free" /\ op.call \in CallIds
    BY <1>10 DEF HandlerReturns, At, LocalsAreSet
  <2>2. op' \in OpTypes /\ LocalsAreSet'
    <3>1. \E step \in {"abort", "result"} : op' = [op EXCEPT !.result = r, !.step = step]
      BY <1>10 DEF HandlerReturns
    <3> QED
      BY <2>1, <3>1 DEF OpTypes, OpSteps, StatusSteps, LocalsAreSet, Steps
  <2> QED
    BY <1>10, <2>2 DEF HandlerReturns
<1>11. CASE RecordResult
  <2>1. op.step # "free" /\ op.call \in CallIds
    BY <1>11 DEF RecordResult, At, LocalsAreSet
  <2>2. trace' \in Traces /\ faults' \in 0..MaxFaults
    BY <1>11, AppendType DEF RecordResult
  <2>3. op' \in OpTypes /\ LocalsAreSet' /\ held' \in heldType
    BY <1>11, <2>1, ContinueType DEF RecordResult, OpSteps, StatusSteps
  <2> QED
    BY <1>11, <2>2, <2>3 DEF RecordResult
<1>12. CASE RecordFacts
  <2>1. op.step # "free" /\ op.call \in CallIds
    BY <1>12 DEF RecordFacts, At, LocalsAreSet
  <2>2. trace' \in Traces /\ faults' \in 0..MaxFaults
    BY <1>12, AppendType DEF RecordFacts
  <2>3. op' \in OpTypes /\ LocalsAreSet' /\ held' \in heldType
    BY <1>12, <2>1, ContinueType DEF RecordFacts
  <2> QED
    BY <1>12, <2>2, <2>3 DEF RecordFacts
<1>13. CASE FailCall
  <2>1. "failed" \in SessionStatuses
    BY DEF SessionStatuses
  <2>2. trace' \in Traces /\ faults' \in 0..MaxFaults
    BY <1>13, <2>1, SessionStatusRows, AppendType DEF FailCall
  <2>3. op' \in OpTypes /\ LocalsAreSet'
    BY <1>13, IdleType DEF FailCall, LocalsAreSet, Steps
  <2> QED
    BY <1>13, <2>1, <2>2, <2>3 DEF FailCall
<1> QED
  BY <1>1, <1>2, <1>3, <1>4, <1>5, <1>6, <1>7, <1>8, <1>9, <1>10, <1>11, <1>12, <1>13
     DEF Pipeline

\* The clock, other processes and crashes.
LEMMA TypeEnvironment ==
  ASSUME TypeInv, Environment
  PROVE  TypeInv'
<1> USE DEF TypeInv, TypeOK, sessionOnly, outside, memory
<1>1. ASSUME NEW c \in CallIds, Expire(c) PROVE TypeInv'
  BY <1>1 DEF Expire, LocalsAreSet, Steps
<1>2. ASSUME NEW c \in CallIds, NEW d \in Approvers, Decide(c, d) PROVE TypeInv'
  <2> DEFINE decision == IF c \in expired THEN "denied" ELSE d
  <2>1. decision \in ApprovalDecisions
    BY ChoiceAssumption DEF ApprovalDecisions
  <2>2. trace' = ApprovalDecided(trace, c, decision) /\ faults' = faults
    BY <1>2 DEF Decide, Append
  <2>3. trace' \in Traces
    BY <2>1, <2>2, ApprovalDecidedRows
  <2> QED
    BY <1>2, <2>2, <2>3 DEF Decide, LocalsAreSet, Steps
<1>3. CASE CancelRun
  <2>1. faults' \in 0..MaxFaults
    <3>1. faults' = faults \/ (faults < MaxFaults /\ faults' = faults + 1)
      BY <1>3 DEF CancelRun, Append
    <3> QED
      BY <3>1, BoundsAssumption
  <2>2. trace' \in Traces
    <3>1. CASE trace' = CancelledPart(PendingApprovals(trace), WaitingCalls(trace), TRUE)
      BY <3>1, CancelledRows
    <3>2. ASSUME NEW a \in SUBSET PendingApprovals(trace), NEW w \in SUBSET WaitingCalls(trace),
                 trace' = CancelledPart(a, w, FALSE)
          PROVE  trace' \in Traces
      BY <3>2, CancelledRows
    <3> QED
      BY <1>3, <3>1, <3>2 DEF CancelRun, Append
  <2> QED
    BY <1>3, <2>1, <2>2 DEF CancelRun, LocalsAreSet, Steps
<1>4. CASE Crash
  <2>1. faults' \in 0..MaxFaults /\ 0 \in 0..MaxCalls
    BY <1>4, BoundsAssumption DEF Crash
  <2> QED
    BY <1>4, <2>1, IdleType DEF Crash, NoMemory, LocalsAreSet, Steps
<1> QED
  BY <1>1, <1>2, <1>3, <1>4 DEF Environment

LEMMA TypeStep == TypeInv /\ [Next]_vars => TypeInv'
<1> SUFFICES ASSUME TypeInv, [Next]_vars PROVE TypeInv'
  OBVIOUS
<1>1. CASE UNCHANGED vars
  BY <1>1 DEF vars, TypeInv, TypeOK, LocalsAreSet, Steps
<1> QED
  BY <1>1, TypeContexts, TypeStarts, TypePipeline, TypeEnvironment DEF Next

\* Every reachable state is well typed: run_id, statuses, decisions and the
\* locals of the call in progress stay within the tables of domain/lifecycle.py
\* and domain/approvals.py, whatever is interleaved, raised or lost.
THEOREM TypeCorrect == Spec => []TypeOK
<1>1. TypeInv => TypeOK
  BY DEF TypeInv
<1> QED
  BY <1>1, TypeInit, TypeStep, PTL DEF Spec

-----------------------------------------------------------------------------
(* The inductive invariant, in named parts. *)

\* Every request is numbered by the live session, so that the next number is
\* new; a call that was never requested has no approval.
NumbersAreFresh ==
  /\ context # "none" => \A c \in CallIds : trace.call[c] # Absent => c <= sequence
  /\ \A c \in CallIds : trace.call[c] = Absent => trace.approval[c] = Absent

\* What a restored context and the resumes that wait remember of an approval
\* is what the trace says: decisions are final.
DecisionsAreCurrent ==
  \A c \in CallIds :
    /\ held[c] \in {"approved", "denied"} => trace.approval[c] = held[c]
    /\ queued[c] > 0 => trace.approval[c] \in {"approved", "denied"}

\* The call in progress: a new one has no approval yet; a resumed one carries
\* the recorded decision, is never asked again, and has left waiting_approval
\* for a status on the way to execution only if the decision was to approve.
OperationIsBound ==
  op.step # "free" =>
    /\ op.call \in CallIds
    /\ op.kind = "execute" => trace.approval[op.call] = Absent
    /\ op.kind = "resume" =>
         /\ trace.approval[op.call] \in {"approved", "denied"}
         /\ op.response = Response(trace.approval[op.call])
         /\ ~Steps({"ask", "prompt", "request_approval"})
         /\ op.status \in {"requested", "approved", "executing"}
              => op.response = "approve"
         /\ Steps({"approve"}) => op.response = "approve"

\* Between the permission decision and the handler the trace holds the grant,
\* and between the sandbox check and the handler it holds the verdict too.
GrantIsRecorded ==
  /\ Steps({"approve", "sandbox", "launch", "invoke"})
       => trace.permit[op.call] \in Granting
  /\ Steps({"launch", "invoke"}) => trace.sandbox[op.call] = "allow"
  /\ Steps({"invoke"}) =>
       /\ trace.call[op.call] = "executing"
       /\ ran[op.call] = 0
       /\ op.status = "executing"

\* Before session_created nothing else is recorded and nothing runs.
CreationIsFirst ==
  trace.session = Absent =>
    /\ context = "none" /\ op.step = "free" /\ sequence = 0
    /\ \A c \in CallIds : trace.call[c] = Absent

IInv ==
  /\ TypeInv
  /\ CreationIsFirst
  /\ NumbersAreFresh
  /\ DecisionsAreCurrent
  /\ OperationIsBound
  /\ GrantIsRecorded
  /\ EffectsAreRecorded
  /\ EffectsAreUnique

-----------------------------------------------------------------------------
(* Evidence before effect, and only authorised effects. *)

Done == {"executing", "succeeded", "failed"}

\* What a step leaves of the locals of the call when it moves on to "step".
Moved(step) ==
  /\ op'.step = step
  /\ op'.next = op.next /\ op'.call = op.call /\ op'.kind = op.kind
  /\ op'.status = op.status /\ op'.effect = op.effect
  /\ op'.hook = op.hook /\ op'.response = op.response

LEMMA ContinueMoves ==
  ASSUME op \in OpTypes, held \in [CallIds -> ApprovalDecisions \cup {Absent}],
         NEW step, Continue(step)
  PROVE  /\ step = "return" => op'.step = "free"
         /\ step # "return" => Moved(step)
         /\ \A c \in CallIds : held'[c] \in {held[c], Absent}
BY IdleType DEF Continue, OpTypes, Moved

LEMMA RaiseMoves ==
  ASSUME op \in OpTypes, RaiseError
  PROVE  Moved("raise") /\ \A c \in CallIds : held'[c] \in {held[c], Absent}
BY DEF RaiseError, OpTypes, Moved

\* No call in progress, nothing to show about it.
LEMMA FreeIsSafe ==
  ASSUME op'.step = "free"
  PROVE  OperationIsBound' /\ GrantIsRecorded'
BY DEF OperationIsBound, GrantIsRecorded, Steps

\* A call that moves on to a step before the grant or after the handler.
LEMMA MovedIsSafe ==
  ASSUME IInv, op.step # "free", trace'.approval = trace.approval,
         NEW step \in {"intent", "evaluate", "permission", "policy_deny", "running", "result", "facts",
                      "raise", "sandbox_deny", "finish", "abort"}, Moved(step)
  PROVE  OperationIsBound' /\ GrantIsRecorded'
BY DEF IInv, OperationIsBound, GrantIsRecorded, Steps, Moved

\* A step of a call that adds evidence only keeps what concerns all the calls.
LEMMA SameRowsKeep ==
  ASSUME IInv, op.step # "free", SameRows(trace, trace'),
         trace.session # Absent => trace'.session # Absent,
         \A c \in CallIds : held'[c] \in {held[c], Absent},
         UNCHANGED <<context, sequence, queued, ran>>
  PROVE  /\ CreationIsFirst' /\ NumbersAreFresh' /\ DecisionsAreCurrent'
         /\ EffectsAreRecorded' /\ EffectsAreUnique'
BY DEF IInv, SameRows, CreationIsFirst, NumbersAreFresh, DecisionsAreCurrent,
   EffectsAreRecorded, EffectsAreUnique, Absent

\* So does a step outside the call in progress that leaves the call alone.
LEMMA OthersKeep ==
  ASSUME IInv, SameRows(trace, trace'), UNCHANGED <<op, ran>>
  PROVE  /\ OperationIsBound' /\ GrantIsRecorded'
         /\ EffectsAreRecorded' /\ EffectsAreUnique'
BY DEF IInv, SameRows, OperationIsBound, GrantIsRecorded, Steps,
   EffectsAreRecorded, EffectsAreUnique

LEMMA IInvInit == Init => IInv
<1> SUFFICES ASSUME Init PROVE IInv
  OBVIOUS
<1> QED
  BY TypeInit, IdleType
     DEF Init, IInv, CreationIsFirst, NumbersAreFresh, DecisionsAreCurrent, OperationIsBound,
         GrantIsRecorded, Steps, EffectsAreRecorded, EffectsAreUnique, EmptyTrace, Absent, Idle

\* The contexts and the operations outside the operation lock.
LEMMA SafeContexts ==
  ASSUME IInv, TypeInv', Contexts \/ Unlocked
  PROVE  IInv'
<1> USE DEF memory, outside
<1>1. ASSUME NEW m, OpenSession(m) PROVE IInv'
  <2> DEFINE created == SessionCreated(trace)
             started == SessionStatusChanged(created, "running")
  <2>1. created \in Traces /\ SameRows(trace, created) /\ created.session # Absent
    BY SessionCreatedRows DEF IInv, TypeInv, TypeOK, Absent
  <2>2. started \in Traces /\ SameRows(created, started) /\ started.session # Absent
    BY <2>1, SessionStatusRows DEF SessionStatuses, Absent
  <2>3. /\ trace' \in {trace, created, started}
        /\ trace' = trace => UNCHANGED context
    BY <1>1, <2>1, <2>2 DEF OpenSession, Append, Raises
  <2>4. SameRows(trace, trace')
    BY <2>1, <2>2, <2>3 DEF SameRows
  <2>5. UNCHANGED <<op, ran, sequence, held, queued>>
    BY <1>1 DEF OpenSession
  <2>6. CreationIsFirst'
    BY <2>1, <2>2, <2>3, <2>5 DEF IInv, CreationIsFirst
  <2>7. NumbersAreFresh' /\ DecisionsAreCurrent'
    BY <1>1, <2>4, <2>5
       DEF OpenSession, IInv, CreationIsFirst, NumbersAreFresh, DecisionsAreCurrent, SameRows
  <2> QED
    BY <2>4, <2>5, <2>6, <2>7, OthersKeep DEF IInv
<1>2. ASSUME NEW c \in CallIds, NEW m, ResumeRun(c, m) PROVE IInv'
  <2>1. /\ UNCHANGED <<trace, op, queued, ran>>
        /\ sequence' = LastSequence(trace)
        /\ trace.session # Absent
        /\ \A d \in CallIds : held'[d] \in {trace.approval[d], Absent}
    BY <1>2 DEF ResumeRun, Resumable, Absent
  <2>2. \A d \in CallIds : trace.call[d] # Absent => d <= sequence'
    BY <2>1, LastSequenceBounds DEF IInv, TypeInv, TypeOK
  <2>3. CreationIsFirst' /\ NumbersAreFresh' /\ DecisionsAreCurrent'
    BY <2>1, <2>2 DEF IInv, CreationIsFirst, NumbersAreFresh, DecisionsAreCurrent, Absent
  <2> QED
    BY <2>1, <2>3, OthersKeep DEF IInv, SameRows
<1>3. ASSUME NEW how, Exit(how) PROVE IInv'
  <2>1. UNCHANGED <<trace, op, queued, ran, context, sequence, held>>
    BY <1>3 DEF Exit
  <2>2. CreationIsFirst' /\ NumbersAreFresh' /\ DecisionsAreCurrent'
    BY <2>1 DEF IInv, CreationIsFirst, NumbersAreFresh, DecisionsAreCurrent
  <2> QED
    BY <2>1, <2>2, OthersKeep DEF IInv, SameRows
<1>4. CASE Leave
  <2>1. /\ UNCHANGED <<trace, op, queued, ran>> /\ context' = "none"
        /\ sequence' \in {0, sequence}
        /\ \A c \in CallIds : held'[c] \in {held[c], Absent}
    BY <1>4 DEF Leave, NoMemory
  <2>2. CreationIsFirst' /\ NumbersAreFresh' /\ DecisionsAreCurrent'
    BY <2>1 DEF IInv, CreationIsFirst, NumbersAreFresh, DecisionsAreCurrent, Absent
  <2> QED
    BY <2>1, <2>2, OthersKeep DEF IInv, SameRows
<1>5. ASSUME NEW v \in {"verified", "unsupported"}, SubmitAnswer(v) PROVE IInv'
  <2>1. /\ SameRows(trace, trace') /\ trace'.session = trace.session
        /\ UNCHANGED <<op, queued, ran, context, sequence, held>>
    BY <1>5, GroundguardRows DEF SubmitAnswer, Append, Raises, IInv, TypeInv, TypeOK, SameRows
  <2>2. CreationIsFirst' /\ NumbersAreFresh' /\ DecisionsAreCurrent'
    BY <2>1 DEF IInv, CreationIsFirst, NumbersAreFresh, DecisionsAreCurrent, SameRows
  <2> QED
    BY <2>1, <2>2, OthersKeep DEF IInv
<1>6. CASE TimeOut
  <2>1. UNCHANGED <<trace, op, queued, ran, context, sequence, held>>
    BY <1>6 DEF TimeOut
  <2>2. CreationIsFirst' /\ NumbersAreFresh' /\ DecisionsAreCurrent'
    BY <2>1 DEF IInv, CreationIsFirst, NumbersAreFresh, DecisionsAreCurrent
  <2> QED
    BY <2>1, <2>2, OthersKeep DEF IInv, SameRows
<1>7. CASE FinishSession
  <2> DEFINE t == SessionStatusChanged(trace, Target)
  <2>1. Target \in SessionStatuses
    BY <1>7 DEF FinishSession, Target, SessionStatuses, IInv, TypeInv, TypeOK
  <2>2. SameRows(trace, t) /\ t.session \in {Target, trace.session}
    BY <2>1, SessionStatusRows DEF IInv, TypeInv, TypeOK
  <2>3. /\ SameRows(trace, trace') /\ (trace.session # Absent => trace'.session # Absent)
        /\ UNCHANGED <<op, queued, ran, context, sequence, held>>
    BY <1>7, <2>1, <2>2 DEF FinishSession, Append, Raises, SameRows, SessionStatuses, Absent
  <2>4. CreationIsFirst' /\ NumbersAreFresh' /\ DecisionsAreCurrent'
    BY <2>3 DEF IInv, CreationIsFirst, NumbersAreFresh, DecisionsAreCurrent, SameRows
  <2> QED
    BY <2>3, <2>4, OthersKeep DEF IInv
<1> QED
  BY <1>1, <1>2, <1>3, <1>4, <1>5, <1>6, <1>7 DEF Contexts, Unlocked

\* Governed calls begin: a new call has a new number and so no approval; a
\* resumed one carries the decision that the trace records.
LEMMA SafeStarts ==
  ASSUME IInv, TypeInv', Starts
  PROVE  IInv'
<1> USE DEF memory, outside
<1>1. CASE Execute
  <2> DEFINE c == sequence + 1
             t == ToolCallRequested(trace, c)
  <2>1. c \in CallIds /\ sequence \in Nat /\ sequence' = c /\ context # "none"
    BY <1>1, BoundsAssumption DEF Execute, IInv, TypeInv, TypeOK
  <2>2. /\ t.session = trace.session /\ t.approval = trace.approval
        /\ t.permit = trace.permit /\ t.sandbox = trace.sandbox
        /\ t.call = trace.call \/ t.call = [trace.call EXCEPT ![c] = "requested"]
    BY <2>1, CallRequestedRows DEF IInv, TypeInv, TypeOK
  <2>3. trace.call[c] = Absent /\ trace.approval[c] = Absent
    BY <2>1 DEF IInv, NumbersAreFresh
  <2>4. \A d \in CallIds : d # c => trace'.call[d] = trace.call[d]
    BY <1>1, <2>1, <2>2 DEF Execute, Append, Raises, IInv, TypeInv, TypeOK, Traces
  <2>5. /\ trace'.session = trace.session /\ trace'.approval = trace.approval
        /\ trace'.permit = trace.permit /\ trace'.sandbox = trace.sandbox
    BY <1>1, <2>2 DEF Execute, Append, Raises
  <2>6. UNCHANGED <<context, held, queued, ran>>
    BY <1>1 DEF Execute
  <2>7. /\ op.step = "free"
        /\ \/ op' = op
           \/ op'.step = "intent" /\ op'.call = c /\ op'.kind = "execute"
    <3>1. "requested" \in CallStatuses
      BY DEF CallStatuses
    <3>2. op' = op \/ op' = Began(c, "execute", "requested", Absent)
      BY <1>1 DEF Execute
    <3> QED
      BY <1>1, <2>1, <3>1, <3>2, BeganType DEF Execute
  <2>8. ran[c] = 0
    BY <2>1, <2>3 DEF IInv, EffectsAreRecorded, TypeInv, TypeOK, Absent
  <2>9. CreationIsFirst'
    BY <2>1, <2>5 DEF IInv, CreationIsFirst
  <2>10. NumbersAreFresh'
    BY <2>1, <2>3, <2>4, <2>5, <2>6, BoundsAssumption DEF IInv, NumbersAreFresh
  <2>11. DecisionsAreCurrent'
    BY <2>5, <2>6 DEF IInv, DecisionsAreCurrent
  <2>12. EffectsAreRecorded' /\ EffectsAreUnique'
    BY <2>4, <2>6, <2>8 DEF IInv, EffectsAreRecorded, EffectsAreUnique
  <2>13. OperationIsBound' /\ GrantIsRecorded'
    BY <2>1, <2>3, <2>5, <2>7 DEF OperationIsBound, GrantIsRecorded, Steps
  <2> QED
    BY <2>9, <2>10, <2>11, <2>12, <2>13 DEF IInv
<1>2. ASSUME NEW c \in CallIds, ResumeCall(c) PROVE IInv'
  <2>1. /\ UNCHANGED <<trace, context, sequence, held, queued, ran>>
        /\ trace.approval[c] \in {"approved", "denied"} /\ trace.approval[c] = held[c]
        /\ op' = Began(c, "resume", "waiting_approval", Response(trace.approval[c]))
    BY <1>2 DEF ResumeCall, MayResume, IInv, DecisionsAreCurrent
  <2>2. /\ op'.step = "intent" /\ op'.call = c /\ op'.kind = "resume"
        /\ op'.status = "waiting_approval" /\ op'.response = Response(trace.approval[c])
    BY <2>1, ResponseType, BeganType, "waiting_approval" \in CallStatuses DEF CallStatuses
  <2>3. OperationIsBound' /\ GrantIsRecorded'
    BY <2>1, <2>2 DEF OperationIsBound, GrantIsRecorded, Steps
  <2>4. op.step = "free" /\ context # "none"
    BY <1>2 DEF ResumeCall, MayResume
  <2>5. /\ CreationIsFirst' /\ NumbersAreFresh' /\ DecisionsAreCurrent'
        /\ EffectsAreRecorded' /\ EffectsAreUnique'
    BY <2>1, <2>4 DEF IInv, CreationIsFirst, NumbersAreFresh, DecisionsAreCurrent,
                      EffectsAreRecorded, EffectsAreUnique
  <2> QED
    BY <2>3, <2>5 DEF IInv
<1>3. ASSUME NEW c \in CallIds, QueueResume(c) PROVE IInv'
  <2>1. /\ UNCHANGED <<trace, context, sequence, held, op, ran>>
        /\ trace.approval[c] \in {"approved", "denied"}
        /\ \A d \in CallIds : d # c => queued'[d] = queued[d]
    BY <1>3 DEF QueueResume, MayResume, IInv, DecisionsAreCurrent, TypeInv, TypeOK
  <2>2. CreationIsFirst' /\ NumbersAreFresh' /\ DecisionsAreCurrent'
    BY <2>1 DEF IInv, CreationIsFirst, NumbersAreFresh, DecisionsAreCurrent
  <2> QED
    BY <2>1, <2>2, OthersKeep DEF IInv, SameRows
<1>4. ASSUME NEW c \in CallIds, DequeueResume(c) PROVE IInv'
  <2>1. /\ UNCHANGED <<trace, context, sequence, held, ran>>
        /\ trace.approval[c] \in {"approved", "denied"}
        /\ op.step = "free"
        /\ \/ op' = op
           \/ op' = Began(c, "resume", "waiting_approval", Response(trace.approval[c]))
    BY <1>4 DEF DequeueResume, IInv, DecisionsAreCurrent
  <2>2. \A d \in CallIds : queued'[d] > 0 => queued[d] > 0
    BY <1>4 DEF DequeueResume, IInv, TypeInv, TypeOK
  <2>3. \/ op' = op
        \/ /\ op'.step = "intent" /\ op'.call = c /\ op'.kind = "resume"
           /\ op'.status = "waiting_approval" /\ op'.response = Response(trace.approval[c])
    BY <2>1, ResponseType, BeganType, "waiting_approval" \in CallStatuses DEF CallStatuses
  <2>4. OperationIsBound' /\ GrantIsRecorded'
    BY <2>1, <2>3 DEF OperationIsBound, GrantIsRecorded, Steps
  <2>5. trace.session # Absent
    BY <2>1 DEF IInv, CreationIsFirst, NumbersAreFresh, Absent
  <2>6. /\ CreationIsFirst' /\ NumbersAreFresh' /\ DecisionsAreCurrent'
        /\ EffectsAreRecorded' /\ EffectsAreUnique'
    BY <2>1, <2>2, <2>5 DEF IInv, CreationIsFirst, NumbersAreFresh, DecisionsAreCurrent,
                            EffectsAreRecorded, EffectsAreUnique
  <2> QED
    BY <2>4, <2>6 DEF IInv
<1> QED
  BY <1>1, <1>2, <1>3, <1>4 DEF Starts

\* The clock, other processes and crashes.
LEMMA SafeEnvironment ==
  ASSUME IInv, TypeInv', Environment
  PROVE  IInv'
<1> USE DEF memory, outside, sessionOnly
<1>1. ASSUME NEW c \in CallIds, Expire(c) PROVE IInv'
  <2>1. UNCHANGED <<trace, op, queued, ran, context, sequence, held>>
    BY <1>1 DEF Expire
  <2>2. CreationIsFirst' /\ NumbersAreFresh' /\ DecisionsAreCurrent'
    BY <2>1 DEF IInv, CreationIsFirst, NumbersAreFresh, DecisionsAreCurrent
  <2> QED
    BY <2>1, <2>2, OthersKeep DEF IInv, SameRows
<1>2. ASSUME UNCHANGED <<op, queued, ran, context, sequence, held>>,
             trace'.permit = trace.permit, trace'.sandbox = trace.sandbox,
             trace.session # Absent, trace'.session # Absent,
             \A c \in CallIds :
               /\ \/ trace'.call[c] = trace.call[c]
                  \/ trace.call[c] = "waiting_approval" /\ trace'.call[c] = "policy_denied"
               /\ \/ trace'.approval[c] = trace.approval[c]
                  \/ trace.approval[c] = "pending" /\ trace'.approval[c] \in {"approved", "denied"}
      PROVE  IInv'
  <2>1. CreationIsFirst' /\ NumbersAreFresh' /\ DecisionsAreCurrent'
    BY <1>2 DEF IInv, CreationIsFirst, NumbersAreFresh, DecisionsAreCurrent, Absent
  <2>2. OperationIsBound'
    BY <1>2 DEF IInv, OperationIsBound, Steps, Absent
  <2>3. GrantIsRecorded'
    BY <1>2 DEF IInv, OperationIsBound, GrantIsRecorded, Steps
  <2>4. EffectsAreRecorded' /\ EffectsAreUnique'
    BY <1>2 DEF IInv, EffectsAreRecorded, EffectsAreUnique
  <2> QED
    BY <2>1, <2>2, <2>3, <2>4 DEF IInv
<1>3. ASSUME NEW c \in CallIds, NEW d \in Approvers, Decide(c, d) PROVE IInv'
  <2> DEFINE decision == IF c \in expired THEN "denied" ELSE d
             t == ApprovalDecided(trace, c, decision)
  <2>1. decision \in {"approved", "denied"}
    BY ChoiceAssumption
  <2>2. decision \in ApprovalDecisions
    BY <2>1 DEF ApprovalDecisions
  <2>3. /\ trace' = t /\ trace.session # Absent
        /\ UNCHANGED <<op, queued, ran, context, sequence, held>>
    BY <1>3 DEF Decide, Append, Replayable
  <2> HIDE DEF decision
  <2>4. /\ trace'.session = trace.session /\ trace'.call = trace.call
        /\ trace'.permit = trace.permit /\ trace'.sandbox = trace.sandbox
        /\ \/ trace'.approval = trace.approval
           \/ /\ trace.approval[c] = "pending"
              /\ trace'.approval = [trace.approval EXCEPT ![c] = decision]
    BY <2>2, <2>3, ApprovalDecidedRows DEF IInv, TypeInv, TypeOK
  <2>5. \A e \in CallIds :
           \/ trace'.approval[e] = trace.approval[e]
           \/ trace.approval[e] = "pending" /\ trace'.approval[e] \in {"approved", "denied"}
    BY <2>1, <2>4 DEF IInv, TypeInv, TypeOK, Traces
  <2> QED
    BY <1>2, <2>3, <2>4, <2>5
<1>4. CASE CancelRun
  <2>1. PICK a \in SUBSET PendingApprovals(trace), w \in SUBSET WaitingCalls(trace),
             done \in BOOLEAN : trace' = CancelledPart(a, w, done)
    BY <1>4 DEF CancelRun, Append
  <2>2. /\ trace.session # Absent
        /\ UNCHANGED <<op, queued, ran, context, sequence, held>>
    BY <1>4 DEF CancelRun, Replayable
  <2>3. /\ trace'.session # Absent
        /\ trace'.permit = trace.permit /\ trace'.sandbox = trace.sandbox
        /\ \A c \in CallIds :
             /\ \/ trace'.call[c] = trace.call[c]
                \/ trace.call[c] = "waiting_approval" /\ trace'.call[c] = "policy_denied"
             /\ \/ trace'.approval[c] = trace.approval[c]
                \/ trace.approval[c] = "pending" /\ trace'.approval[c] = "denied"
    <3>1. trace \in Traces /\ "cancelled" # Absent
      BY DEF IInv, TypeInv, TypeOK, Absent
    <3> DEFINE u == CancelledPart(a, w, done)
    <3>2. /\ u.session \in {"cancelled", trace.session}
          /\ u.permit = trace.permit /\ u.sandbox = trace.sandbox
          /\ \A c \in CallIds :
               /\ u.call[c] = trace.call[c]
                    \/ (trace.call[c] = "waiting_approval" /\ u.call[c] = "policy_denied")
               /\ u.approval[c] = trace.approval[c]
                    \/ (trace.approval[c] = "pending" /\ u.approval[c] = "denied")
      BY <3>1, CancelledRows
    <3> QED
      BY <2>1, <2>2, <3>1, <3>2
  <2> QED
    BY <1>2, <2>2, <2>3
<1>5. CASE Crash
  <2>1. /\ UNCHANGED <<trace, ran>> /\ op'.step = "free" /\ context' = "none"
        /\ sequence' = 0 /\ \A c \in CallIds : held'[c] = Absent /\ queued'[c] = 0
    BY <1>5, IdleType DEF Crash, NoMemory
  <2>2. /\ CreationIsFirst' /\ NumbersAreFresh' /\ DecisionsAreCurrent'
        /\ EffectsAreRecorded' /\ EffectsAreUnique'
    BY <2>1 DEF IInv, CreationIsFirst, NumbersAreFresh, DecisionsAreCurrent,
                EffectsAreRecorded, EffectsAreUnique, Absent
  <2> QED
    BY <2>1, <2>2, FreeIsSafe DEF IInv
<1> QED
  BY <1>1, <1>3, <1>4, <1>5 DEF Environment

\* A step of the pipeline that adds evidence only and moves on to a step before
\* the grant or after the handler, or returns.
LEMMA EvidenceIsSafe ==
  ASSUME IInv, TypeInv', op.step # "free", SameRows(trace, trace'),
         trace.session # Absent => trace'.session # Absent,
         \A c \in CallIds : held'[c] \in {held[c], Absent},
         UNCHANGED <<context, sequence, queued, ran>>,
         NEW step \in {"intent", "evaluate", "permission", "policy_deny", "running", "result", "facts",
                      "raise", "sandbox_deny", "finish", "abort"},
         op'.step = "free" \/ Moved(step)
  PROVE  IInv'
<1>1. /\ CreationIsFirst' /\ NumbersAreFresh' /\ DecisionsAreCurrent'
      /\ EffectsAreRecorded' /\ EffectsAreUnique'
  BY SameRowsKeep
<1>2. OperationIsBound' /\ GrantIsRecorded'
  BY FreeIsSafe, MovedIsSafe DEF SameRows
<1> QED
  BY <1>1, <1>2 DEF IInv

\* The call takes a status: the handler is only reached from "executing", which
\* the trace accepts once per call.
LEMMA SafeStatus ==
  ASSUME IInv, TypeInv', RecordToolStatus
  PROVE  IInv'
<1> DEFINE c == op.call
           t == ToolCallStatusChanged(trace, c, NewStatus)
           moves == CallMayBecome(trace.call[c], NewStatus)
<1>1. /\ c \in CallIds /\ op.step \in StatusSteps /\ op.step # "free"
      /\ op \in OpTypes /\ trace \in Traces
      /\ held \in [CallIds -> ApprovalDecisions \cup {Absent}]
  BY DEF IInv, TypeInv, TypeOK, LocalsAreSet, RecordToolStatus, StatusSteps
<1>2. NewStatus \in CallStatuses
  BY <1>1, NewStatusType
<1>3. /\ t.session = trace.session /\ t.approval = trace.approval
      /\ t.permit = trace.permit /\ t.sandbox = trace.sandbox
      /\ moves => t.call = [trace.call EXCEPT ![c] = NewStatus]
      /\ ~moves => t.call = trace.call
  BY <1>1, <1>2, CallStatusRows
<1> HIDE DEF t
<1>4. trace' \in {trace, t}
  BY DEF RecordToolStatus, Append, Raises, Rejects, t
<1>5. /\ trace'.session = trace.session /\ trace'.approval = trace.approval
      /\ trace'.permit = trace.permit /\ trace'.sandbox = trace.sandbox
      /\ UNCHANGED <<context, sequence, queued, ran>>
  BY <1>3, <1>4 DEF RecordToolStatus, pipelineOnly
<1>6. /\ \A d \in CallIds : d # c => trace'.call[d] = trace.call[d]
      /\ trace'.call[c] = trace.call[c] \/ (moves /\ trace'.call[c] = NewStatus)
  BY <1>1, <1>3, <1>4 DEF Traces
<1>7. moves /\ trace.call[c] \in Done => NewStatus \in Done
  BY DEF CallMayBecome, CallTransitions, Done
<1>8. moves => trace.call[c] # Absent /\ NewStatus # Absent
  BY <1>2 DEF CallMayBecome, CallTransitions, CallStatuses, Absent
<1>9. /\ EffectsAreRecorded' /\ EffectsAreUnique' /\ CreationIsFirst' /\ NumbersAreFresh'
  BY <1>1, <1>5, <1>6, <1>7, <1>8
     DEF IInv, EffectsAreRecorded, EffectsAreUnique, CreationIsFirst, NumbersAreFresh, Done
<1>10. \/ RaiseError
       \/ Continue("return")
       \/ /\ trace' = t /\ moves /\ UNCHANGED held
          /\ \/ op' = [op EXCEPT !.step = "reconcile", !.next = AfterStatus, !.status = NewStatus]
             \/ op' = [op EXCEPT !.step = AfterStatus, !.status = NewStatus] /\ AfterStatus # "return"
          /\ CallMayBecome(op.status, NewStatus)
  BY DEF RecordToolStatus, Append, t
<1>11. CASE RaiseError
  <2>1. Moved("raise") /\ \A d \in CallIds : held'[d] \in {held[d], Absent}
    BY <1>1, <1>11, RaiseMoves
  <2>2. OperationIsBound' /\ GrantIsRecorded'
    BY <1>1, <1>5, <2>1, MovedIsSafe
  <2>3. DecisionsAreCurrent'
    BY <1>5, <2>1 DEF IInv, DecisionsAreCurrent, Absent
  <2> QED
    BY <1>9, <2>2, <2>3 DEF IInv
<1>12. CASE Continue("return")
  <2>1. op'.step = "free" /\ \A d \in CallIds : held'[d] \in {held[d], Absent}
    BY <1>1, <1>12, ContinueMoves
  <2>2. DecisionsAreCurrent'
    BY <1>5, <2>1 DEF IInv, DecisionsAreCurrent, Absent
  <2> QED
    BY <1>9, <2>1, <2>2, FreeIsSafe DEF IInv
<1>13. CASE /\ trace' = t /\ moves /\ UNCHANGED held
            /\ \/ op' = [op EXCEPT !.step = "reconcile", !.next = AfterStatus, !.status = NewStatus]
               \/ op' = [op EXCEPT !.step = AfterStatus, !.status = NewStatus] /\ AfterStatus # "return"
            /\ CallMayBecome(op.status, NewStatus)
  <2>1. /\ op'.call = c /\ op'.kind = op.kind /\ op'.response = op.response
        /\ op'.status = NewStatus
        /\ \/ op'.step = "reconcile" /\ op'.next = AfterStatus
           \/ op'.step = AfterStatus
    BY <1>1, <1>13 DEF OpTypes
  <2>2. AfterStatus # "reconcile"
    BY <1>1, NewStatusType
  <2>3. \A S : Steps(S)' => AfterStatus \in S \/ "reconcile" \in S
    BY <2>1, <2>2 DEF Steps
  <2>4. DecisionsAreCurrent'
    BY <1>5, <1>13 DEF IInv, DecisionsAreCurrent
  <2>5. OperationIsBound'
    <3>1. /\ op.kind = "execute" => trace.approval[c] = Absent
          /\ op.kind = "resume" =>
               /\ trace.approval[c] \in {"approved", "denied"}
               /\ op.response = Response(trace.approval[c])
               /\ ~Steps({"ask"})
               /\ op.status \in {"requested", "approved", "executing"} => op.response = "approve"
               /\ Steps({"approve"}) => op.response = "approve"
      BY <1>1 DEF IInv, OperationIsBound, Steps
    <3>2. AfterStatus \notin {"ask", "request_approval", "approve", "reconcile"}
      BY <1>1 DEF StatusSteps, AfterStatus
    <3>3. op.kind = "resume" => AfterStatus # "prompt"
      BY <1>1, <3>1 DEF StatusSteps, AfterStatus, Steps
    <3>4. op.kind = "resume" /\ NewStatus \in {"requested", "approved", "executing"}
            => op.response = "approve"
      <4>1. NewStatus # "requested"
        BY <1>1 DEF StatusSteps, NewStatus
      <4>2. NewStatus = "approved" => op.step = "approve"
        BY <1>1 DEF StatusSteps, NewStatus
      <4>3. NewStatus = "executing" => op.status \in {"requested", "approved"}
        BY <1>13 DEF CallMayBecome, CallTransitions
      <4> QED
        BY <3>1, <4>1, <4>2, <4>3 DEF Steps
    <3> QED
      BY <1>1, <1>5, <2>1, <3>1, <3>2, <3>3, <3>4 DEF OperationIsBound, Steps
  <2>6. GrantIsRecorded'
    <3>1. AfterStatus \in {"approve", "sandbox", "launch", "invoke"} => op.step \in {"approve", "launch"}
      BY <1>1 DEF StatusSteps, AfterStatus
    <3>2. AfterStatus \in {"launch", "invoke"} => op.step = "launch"
      BY <1>1 DEF StatusSteps, AfterStatus
    <3>3. op.step \in {"approve", "launch"} => trace.permit[c] \in Granting
      BY DEF IInv, GrantIsRecorded, Steps
    <3>4. op.step = "launch" => trace.sandbox[c] = "allow"
      BY DEF IInv, GrantIsRecorded, Steps
    <3>5. op.step = "launch" =>
            /\ NewStatus = "executing" /\ trace.call[c] \in {"requested", "approved"}
      BY <1>13 DEF NewStatus, CallMayBecome, CallTransitions
    <3>6. op.step = "launch" => trace'.call[c] = "executing" /\ ran[c] = 0
      <4>1. ran[c] > 0 => trace.call[c] \in Done
        BY <1>1 DEF IInv, EffectsAreRecorded, Done
      <4>2. ran[c] \in Nat
        BY <1>1 DEF IInv, TypeInv, TypeOK
      <4>3. trace'.call[c] = NewStatus
        BY <1>1, <1>3, <1>13 DEF Traces
      <4> QED
        BY <3>5, <4>1, <4>2, <4>3 DEF Done
    <3> QED
      BY <1>1, <1>5, <2>1, <2>2, <3>1, <3>2, <3>3, <3>4, <3>5, <3>6 DEF GrantIsRecorded, Steps
  <2> QED
    BY <1>9, <2>4, <2>5, <2>6 DEF IInv
<1> QED
  BY <1>10, <1>11, <1>12, <1>13

LEMMA SafeReconcile ==
  ASSUME IInv, TypeInv', ReconcileSession
  PROVE  IInv'
<1> DEFINE s == Reconciled(pending)
           t == SessionStatusChanged(trace, s)
<1>1. /\ op.step = "reconcile" /\ op \in OpTypes /\ trace \in Traces
      /\ held \in [CallIds -> ApprovalDecisions \cup {Absent}]
  BY DEF IInv, TypeInv, TypeOK, ReconcileSession, At
<1>2. SameRows(trace, trace') /\ (trace.session # Absent => trace'.session # Absent)
  <2>1. CASE s = session
    BY <2>1 DEF ReconcileSession, SameRows
  <2>2. CASE s # session
    <3>1. s \in SessionStatuses
      BY <2>2 DEF Reconciled, SessionStatuses
    <3>2. SameRows(trace, t) /\ t.session \in {s, trace.session}
      BY <1>1, <3>1, SessionStatusRows
    <3>3. trace' \in {trace, t}
      BY <2>2 DEF ReconcileSession, Append, Raises, Rejects
    <3> QED
      BY <3>1, <3>2, <3>3 DEF SameRows, SessionStatuses, Absent
  <2> QED
    BY <2>1, <2>2
<1>3. UNCHANGED <<context, sequence, queued, ran>> /\ (Continue(op.next) \/ RaiseError)
  BY DEF ReconcileSession, pipelineOnly
<1>4. CASE RaiseError
  BY <1>1, <1>2, <1>3, <1>4, RaiseMoves, EvidenceIsSafe
<1>5. CASE Continue(op.next) /\ op.next = "return"
  BY <1>1, <1>2, <1>3, <1>5, ContinueMoves, EvidenceIsSafe
<1>6. CASE Continue(op.next) /\ op.next # "return"
  <2>1. Moved(op.next) /\ \A d \in CallIds : held'[d] \in {held[d], Absent}
    BY <1>1, <1>6, ContinueMoves
  <2>2. \A S : "reconcile" \notin S => (Steps(S)' => Steps(S))
    BY <1>1, <2>1 DEF Steps, Moved
  <2>3. OperationIsBound'
    <3>1. ~Steps({"ask", "prompt", "request_approval"})
            => ~Steps({"ask", "prompt", "request_approval"})'
      BY <2>2
    <3>2. Steps({"approve"})' => Steps({"approve"})
      BY <2>2
    <3> QED
      BY <1>1, <1>2, <2>1, <3>1, <3>2 DEF IInv, OperationIsBound, Moved, SameRows
  <2>4. GrantIsRecorded'
    <3>1. /\ Steps({"approve", "sandbox", "launch", "invoke"})'
               => Steps({"approve", "sandbox", "launch", "invoke"})
          /\ Steps({"launch", "invoke"})' => Steps({"launch", "invoke"})
          /\ Steps({"invoke"})' => Steps({"invoke"})
      BY <2>2
    <3> QED
      BY <1>2, <1>3, <2>1, <3>1 DEF IInv, GrantIsRecorded, Moved, SameRows
  <2>5. /\ CreationIsFirst' /\ NumbersAreFresh' /\ DecisionsAreCurrent'
        /\ EffectsAreRecorded' /\ EffectsAreUnique'
    BY <1>1, <1>2, <1>3, <2>1, SameRowsKeep
  <2> QED
    BY <2>3, <2>4, <2>5 DEF IInv
<1> QED
  BY <1>3, <1>4, <1>5, <1>6

\* The permission decision: a resumed call goes to the sandbox check or to
\* "approve" with the decision that was recorded for it.
LEMMA SafePermission ==
  ASSUME IInv, TypeInv', DecidePermission
  PROVE  IInv'
<1> DEFINE c == op.call
           p == Permit(op.effect, op.hook, op.response)
           t == PermissionDecided(trace, c, p)
<1>1. /\ op.step = "permission" /\ c \in CallIds /\ op \in OpTypes /\ trace \in Traces
      /\ op.effect # Absent
      /\ held \in [CallIds -> ApprovalDecisions \cup {Absent}]
  BY DEF IInv, TypeInv, TypeOK, LocalsAreSet, Steps, DecidePermission, At
<1>2. p \in Permits
  BY <1>1, PermitType DEF IInv
<1>3. p = "ask" => op.response = Absent
  BY <1>1 DEF Permit, OpTypes, IInv, TypeInv, TypeOK, ModeNames
<1>4. p \in Granting /\ op.effect = "ask" /\ op.response # Absent => op.response = "approve"
  BY <1>1 DEF Permit, OpTypes, Granting
<1> HIDE DEF p
<1>5. /\ t.session = trace.session /\ t.call = trace.call
      /\ t.approval = trace.approval /\ t.sandbox = trace.sandbox
      /\ t.permit = [trace.permit EXCEPT ![c] = p]
  BY <1>1, <1>2, PermissionRows
<1> HIDE DEF t
<1>6. /\ trace' \in {trace, t} /\ UNCHANGED <<context, sequence, queued, ran>>
      /\ RaiseError \/ (trace' = t /\ Continue(AfterPermit(p)))
  BY DEF DecidePermission, Append, Raises, pipelineOnly, p, t
<1>7. /\ trace'.session = trace.session /\ trace'.call = trace.call
      /\ trace'.approval = trace.approval /\ trace'.sandbox = trace.sandbox
  BY <1>5, <1>6
<1>8. ASSUME \A d \in CallIds : held'[d] \in {held[d], Absent}
      PROVE  /\ CreationIsFirst' /\ NumbersAreFresh' /\ DecisionsAreCurrent'
             /\ EffectsAreRecorded' /\ EffectsAreUnique'
  BY <1>1, <1>6, <1>7, <1>8 DEF IInv, CreationIsFirst, NumbersAreFresh, DecisionsAreCurrent,
     EffectsAreRecorded, EffectsAreUnique, Absent
<1>9. CASE RaiseError
  BY <1>1, <1>7, <1>8, <1>9, RaiseMoves, MovedIsSafe DEF IInv
<1>10. CASE trace' = t /\ Continue(AfterPermit(p))
  <2>1. AfterPermit(p) \in {"policy_deny", "request_approval", "approve", "sandbox"}
    BY <1>2, AfterPermitType
  <2>2. /\ Moved(AfterPermit(p))
        /\ \A d \in CallIds : held'[d] \in {held[d], Absent}
    BY <1>1, <1>10, <2>1, ContinueMoves
  <2>3. AfterPermit(p) = "request_approval" => p = "ask"
    BY <1>2 DEF AfterPermit, Permits, Granting
  <2>4. AfterPermit(p) \in {"approve", "sandbox"} => p \in Granting
    BY <1>2 DEF AfterPermit, Permits, Granting
  <2>5. AfterPermit(p) = "approve" => op.effect = "ask"
    BY <1>2 DEF AfterPermit, Permits, Granting
  <2>6. op.kind = "resume" => op.response # Absent
    BY <1>1, ResponseType DEF IInv, OperationIsBound, Absent
  <2>7. OperationIsBound'
    BY <1>1, <1>3, <1>4, <1>7, <2>1, <2>2, <2>3, <2>4, <2>5, <2>6
       DEF IInv, OperationIsBound, Steps, Moved
  <2>8. trace'.permit[c] = p
    BY <1>1, <1>5, <1>10 DEF Traces
  <2>9. GrantIsRecorded'
    BY <1>1, <2>1, <2>2, <2>4, <2>8 DEF GrantIsRecorded, Steps, Moved
  <2> QED
    BY <1>8, <2>2, <2>7, <2>9 DEF IInv
<1> QED
  BY <1>6, <1>9, <1>10

LEMMA SafePipeline ==
  ASSUME IInv, TypeInv', Pipeline
  PROVE  IInv'
<1>1. /\ op \in OpTypes /\ trace \in Traces
      /\ held \in [CallIds -> ApprovalDecisions \cup {Absent}]
      /\ op.step # "free" => op.call \in CallIds
  BY DEF IInv, TypeInv, TypeOK, LocalsAreSet
<1>2. CASE RecordIntent
  <2>1. op.step = "intent" /\ op.call \in CallIds
    BY <1>1, <1>2 DEF RecordIntent, At
  <2>2. SameRows(trace, trace') /\ trace'.session = trace.session
    BY <1>1, <1>2, <2>1, IntentRows DEF RecordIntent, Append, Raises, SameRows
  <2>3. /\ Moved("evaluate") \/ Moved("raise")
        /\ \A d \in CallIds : held'[d] \in {held[d], Absent}
    BY <1>1, <1>2, ContinueMoves, RaiseMoves DEF RecordIntent
  <2>4. UNCHANGED <<context, sequence, queued, ran>>
    BY <1>2 DEF RecordIntent, pipelineOnly
  <2> QED
    BY <2>1, <2>2, <2>3, <2>4, EvidenceIsSafe
<1>3. ASSUME NEW effect \in {"allow", "ask", "deny"}, NEW hook \in {"allow", "deny"},
             Evaluate(effect, hook)
      PROVE  IInv'
  <2>1. op.step = "evaluate" /\ op.call \in CallIds
    BY <1>1, <1>3 DEF Evaluate, At
  <2>2. SameRows(trace, trace') /\ trace'.session = trace.session
    BY <1>3 DEF Evaluate, Append, Raises, SameRows
  <2>3. UNCHANGED <<context, sequence, queued, ran>>
    BY <1>3 DEF Evaluate, pipelineOnly
  <2>4. CASE RaiseError
    BY <1>1, <2>1, <2>2, <2>3, <2>4, RaiseMoves, EvidenceIsSafe
  <2>5. ASSUME NEW step \in {"ask", "permission"}, step = "ask" => op.response = Absent,
               op' = [op EXCEPT !.effect = effect, !.hook = hook, !.step = step], UNCHANGED held
        PROVE  IInv'
    <3>1. /\ op'.step = step /\ op'.call = op.call /\ op'.kind = op.kind
          /\ op'.status = op.status /\ op'.response = op.response
      BY <1>1, <2>5 DEF OpTypes
    <3>2. op.kind = "resume" => op.response # Absent
      BY <2>1, ResponseType DEF IInv, OperationIsBound, Absent
    <3>3. OperationIsBound'
      BY <2>1, <2>2, <2>5, <3>1, <3>2 DEF IInv, OperationIsBound, Steps, SameRows
    <3>4. GrantIsRecorded'
      BY <2>5, <3>1 DEF GrantIsRecorded, Steps
    <3>5. /\ CreationIsFirst' /\ NumbersAreFresh' /\ DecisionsAreCurrent'
          /\ EffectsAreRecorded' /\ EffectsAreUnique'
      BY <2>1, <2>2, <2>3, <2>5, SameRowsKeep
    <3> QED
      BY <3>3, <3>4, <3>5 DEF IInv
  <2> QED
    BY <1>3, <2>4, <2>5 DEF Evaluate
<1>4. CASE RecordToolStatus
  BY <1>4, SafeStatus
<1>5. CASE ReconcileSession
  BY <1>5, SafeReconcile
<1>6. ASSUME NEW answer \in {"approve", "deny"}, Prompt(answer) PROVE IInv'
  <2>1. op.step = "prompt" /\ op.call \in CallIds
    BY <1>1, <1>6 DEF Prompt, At
  <2>2. SameRows(trace, trace') /\ trace'.session = trace.session
    BY <1>6 DEF Prompt, Append, Raises, SameRows
  <2>3. UNCHANGED <<context, sequence, queued, ran>>
    BY <1>6 DEF Prompt, pipelineOnly
  <2>4. CASE RaiseError
    BY <1>1, <2>1, <2>2, <2>3, <2>4, RaiseMoves, EvidenceIsSafe
  <2>5. CASE op' = [op EXCEPT !.response = answer, !.step = "permission"] /\ UNCHANGED held
    <3>1. op'.step = "permission" /\ op'.call = op.call /\ op'.kind = op.kind
      BY <1>1, <2>5 DEF OpTypes
    <3>2. op.kind = "execute" /\ trace.approval[op.call] = Absent
      BY <1>1, <2>1 DEF IInv, OperationIsBound, Steps, OpTypes
    <3>3. OperationIsBound' /\ GrantIsRecorded'
      BY <2>1, <2>2, <3>1, <3>2 DEF OperationIsBound, GrantIsRecorded, Steps, SameRows
    <3>4. /\ CreationIsFirst' /\ NumbersAreFresh' /\ DecisionsAreCurrent'
          /\ EffectsAreRecorded' /\ EffectsAreUnique'
      BY <2>1, <2>2, <2>3, <2>5, SameRowsKeep
    <3> QED
      BY <3>3, <3>4 DEF IInv
  <2> QED
    BY <1>6, <2>4, <2>5 DEF Prompt
<1>7. CASE DecidePermission
  BY <1>7, SafePermission
<1>8. CASE RequestApproval
  <2> DEFINE c == op.call
             t == ApprovalRequested(trace, c)
  <2>1. op.step = "request_approval" /\ c \in CallIds
    BY <1>1, <1>8 DEF RequestApproval, At
  <2>2. /\ t.session = trace.session /\ t.call = trace.call
        /\ t.permit = trace.permit /\ t.sandbox = trace.sandbox
        /\ \/ t.approval = trace.approval
           \/ /\ trace.call[c] # Absent /\ trace.approval[c] = Absent
              /\ t.approval = [trace.approval EXCEPT ![c] = "pending"]
    BY <1>1, <2>1, ApprovalRequestedRows
  <2> HIDE DEF t
  <2>3. trace' \in {trace, t} /\ UNCHANGED <<context, sequence, queued, ran>>
    BY <1>8 DEF RequestApproval, Append, Raises, pipelineOnly, t
  <2>4. op'.step = "free" /\ \A d \in CallIds : held'[d] \in {held[d], Absent}
    BY <1>1, <1>8, ContinueMoves DEF RequestApproval
  <2>5. \A d \in CallIds :
          \/ trace'.approval[d] = trace.approval[d]
          \/ trace.call[d] # Absent /\ trace.approval[d] = Absent
    BY <1>1, <2>1, <2>2, <2>3 DEF Traces
  <2>6. trace'.session = trace.session /\ trace'.call = trace.call
    BY <2>2, <2>3
  <2>7. CreationIsFirst' /\ NumbersAreFresh' /\ DecisionsAreCurrent'
    BY <2>1, <2>3, <2>4, <2>5, <2>6
       DEF IInv, CreationIsFirst, NumbersAreFresh, DecisionsAreCurrent, Absent
  <2>8. EffectsAreRecorded' /\ EffectsAreUnique'
    BY <2>3, <2>6 DEF IInv, EffectsAreRecorded, EffectsAreUnique
  <2> QED
    BY <2>4, <2>7, <2>8, FreeIsSafe DEF IInv
<1>9. ASSUME NEW v \in {"allow", "deny"}, CheckSandbox(v) PROVE IInv'
  <2> DEFINE c == op.call
             t == SandboxDecided(trace, c, v)
  <2>1. op.step = "sandbox" /\ c \in CallIds
    BY <1>1, <1>9 DEF CheckSandbox, At
  <2>2. c \in CallIds /\ trace \in Traces
    BY <1>1, <2>1
  <2>3. /\ t.session = trace.session /\ t.call = trace.call
        /\ t.approval = trace.approval /\ t.permit = trace.permit
        /\ v = "allow" => t.sandbox = [trace.sandbox EXCEPT ![c] = "allow"]
    BY <2>2 DEF SandboxDecided, Traces
  <2> HIDE DEF t
  <2>4. /\ trace' \in {trace, t} /\ UNCHANGED <<context, sequence, queued, ran>>
        /\ \/ RaiseError
           \/ trace' = t /\ v = "allow" /\ Continue("launch")
           \/ Continue("sandbox_deny")
    BY <1>9 DEF CheckSandbox, Append, Raises, pipelineOnly, t
  <2>5. \A step \in {"raise", "launch", "sandbox_deny"} : step # "return"
    OBVIOUS
  <2>6. /\ \A d \in CallIds : held'[d] \in {held[d], Absent}
        /\ \/ Moved("raise") \/ Moved("sandbox_deny")
           \/ trace' = t /\ v = "allow" /\ Moved("launch")
    BY <1>1, <2>4, <2>5, ContinueMoves, RaiseMoves
  <2>7. /\ trace'.session = trace.session /\ trace'.call = trace.call
        /\ trace'.approval = trace.approval /\ trace'.permit = trace.permit
    BY <2>3, <2>4
  <2>8. /\ CreationIsFirst' /\ NumbersAreFresh' /\ DecisionsAreCurrent'
        /\ EffectsAreRecorded' /\ EffectsAreUnique'
    BY <2>1, <2>4, <2>6, <2>7 DEF IInv, CreationIsFirst, NumbersAreFresh, DecisionsAreCurrent,
       EffectsAreRecorded, EffectsAreUnique, Absent
  <2>9. OperationIsBound' /\ GrantIsRecorded'
    <3>1. CASE Moved("raise") \/ Moved("sandbox_deny")
      BY <2>1, <2>7, <3>1, MovedIsSafe
    <3>2. CASE trace' = t /\ v = "allow" /\ Moved("launch")
      <4>1. trace'.sandbox[c] = "allow"
        BY <1>1, <2>1, <2>3, <3>2 DEF Traces
      <4>2. trace.permit[c] \in Granting
        BY <2>1 DEF IInv, GrantIsRecorded, Steps
      <4>3. OperationIsBound'
        BY <2>1, <2>7, <3>2 DEF IInv, OperationIsBound, Steps, Moved
      <4> QED
        BY <2>7, <3>2, <4>1, <4>2, <4>3 DEF GrantIsRecorded, Steps, Moved
    <3> QED
      BY <2>6, <3>1, <3>2
  <2> QED
    BY <2>8, <2>9 DEF IInv
<1>10. CASE InvokeHandler
  <2>1. op.step = "invoke" /\ op.call \in CallIds
    BY <1>1, <1>10 DEF InvokeHandler, At
  <2>2. ran[op.call] = 0 /\ trace.call[op.call] = "executing"
    BY <2>1 DEF IInv, GrantIsRecorded, Steps
  <2>3. /\ ran' = [ran EXCEPT ![op.call] = @ + 1] /\ Continue("running")
        /\ UNCHANGED <<trace, context, sequence, queued>>
    BY <1>10 DEF InvokeHandler, pipelineOnly
  <2>4. /\ Moved("running") /\ \A d \in CallIds : held'[d] \in {held[d], Absent}
    BY <1>1, <2>3, ContinueMoves
  <2>5. OperationIsBound' /\ GrantIsRecorded'
    BY <2>1, <2>3, <2>4, MovedIsSafe
  <2>6. CreationIsFirst' /\ NumbersAreFresh' /\ DecisionsAreCurrent'
    BY <2>1, <2>3, <2>4 DEF IInv, CreationIsFirst, NumbersAreFresh, DecisionsAreCurrent, Absent
  <2>7. \A d \in CallIds : IF d = op.call THEN ran'[d] = 1 ELSE ran'[d] = ran[d]
    BY <2>1, <2>2, <2>3 DEF IInv, TypeInv, TypeOK
  <2>8. EffectsAreRecorded' /\ EffectsAreUnique'
    BY <2>2, <2>3, <2>7 DEF IInv, EffectsAreRecorded, EffectsAreUnique
  <2> QED
    BY <2>5, <2>6, <2>8 DEF IInv
<1>11. ASSUME NEW r \in {"ok", "error", "exception"}, HandlerReturns(r) PROVE IInv'
  <2>1. PICK step \in {"abort", "result"} : op' = [op EXCEPT !.result = r, !.step = step]
    BY <1>11 DEF HandlerReturns
  <2>2. Moved(step) /\ op.step # "free"
    BY <1>1, <1>11, <2>1 DEF OpTypes, Moved, HandlerReturns, At
  <2>3. /\ SameRows(trace, trace') /\ trace'.session = trace.session
        /\ UNCHANGED <<context, sequence, queued, ran, held>>
    BY <1>11 DEF HandlerReturns, pipelineOnly, SameRows
  <2> QED
    BY <2>2, <2>3, EvidenceIsSafe
<1>12. ASSUME NEW here \in {"result", "facts"}, NEW next \in {"finish", "return"}, At(here),
              \/ Append(trace) /\ Continue(next)
              \/ Raises(trace) /\ RaiseError,
              UNCHANGED <<pipelineOnly, session, pending, ran>>
       PROVE  IInv'
  <2>1. op.step # "free"
    BY <1>12 DEF At
  <2>2. /\ op'.step = "free" \/ Moved("finish") \/ Moved("raise")
        /\ \A d \in CallIds : held'[d] \in {held[d], Absent}
    BY <1>1, <1>12, ContinueMoves, RaiseMoves
  <2>3. /\ SameRows(trace, trace') /\ trace'.session = trace.session
        /\ UNCHANGED <<context, sequence, queued, ran>>
    BY <1>12 DEF Append, Raises, pipelineOnly, SameRows
  <2> QED
    BY <2>1, <2>2, <2>3, EvidenceIsSafe
<1>13. CASE RecordResult
  BY <1>12, <1>13 DEF RecordResult
<1>14. CASE RecordFacts
  BY <1>12, <1>14 DEF RecordFacts
<1>15. CASE FailCall
  <2> DEFINE t == SessionStatusChanged(trace, "failed")
  <2>1. SameRows(trace, t) /\ t.session \in {"failed", trace.session}
    BY <1>1, SessionStatusRows DEF SessionStatuses
  <2>2. /\ SameRows(trace, trace') /\ (trace.session # Absent => trace'.session # Absent)
        /\ UNCHANGED <<context, sequence, queued, ran, held>>
    BY <1>15, <2>1 DEF FailCall, Append, Raises, pipelineOnly, SameRows, Absent
  <2>3. op.step # "free" /\ op'.step = "free"
    BY <1>15, IdleType DEF FailCall, At
  <2> QED
    BY <2>2, <2>3, EvidenceIsSafe
<1> QED
  BY <1>2, <1>3, <1>4, <1>5, <1>6, <1>7, <1>8, <1>9, <1>10, <1>11, <1>13, <1>14, <1>15
     DEF Pipeline

LEMMA IInvStep == IInv /\ [Next]_vars => IInv'
<1> SUFFICES ASSUME IInv, [Next]_vars PROVE IInv'
  OBVIOUS
<1>1. TypeInv'
  BY TypeStep DEF IInv
<1>2. CASE UNCHANGED vars
  <2>1. CreationIsFirst' /\ NumbersAreFresh' /\ DecisionsAreCurrent'
    BY <1>2 DEF vars, IInv, CreationIsFirst, NumbersAreFresh, DecisionsAreCurrent
  <2> QED
    BY <1>1, <1>2, <2>1, OthersKeep DEF vars, IInv, SameRows
<1> QED
  BY <1>1, <1>2, SafeContexts, SafeStarts, SafePipeline, SafeEnvironment DEF Next

LEMMA IInvAlways == Spec => []IInv
BY IInvInit, IInvStep, PTL DEF Spec

\* Only a handler that is invoked has an effect.
LEMMA OnlyInvocationsRun ==
  ASSUME Next, ran' # ran
  PROVE  InvokeHandler
BY DEF Next, Contexts, Unlocked, Starts, Pipeline, Environment, OpenSession, ResumeRun,
   Exit, Leave, SubmitAnswer, TimeOut, FinishSession, Execute, ResumeCall, QueueResume,
   DequeueResume, RecordIntent, Evaluate, RecordToolStatus, ReconcileSession, Prompt,
   DecidePermission, RequestApproval, CheckSandbox, HandlerReturns, RecordResult,
   RecordFacts, FailCall, Expire, Decide, CancelRun, Crash, outside

\* Evidence before effect: in every reachable state a handler that was invoked is
\* a call that the durable trace has as executing, succeeded or failed.
THEOREM EffectsRecorded == Spec => []EffectsAreRecorded
<1>1. IInv => EffectsAreRecorded
  BY DEF IInv
<1> QED
  BY <1>1, IInvAlways, PTL

\* No call runs twice: neither a resume that waited for the operation lock nor a
\* second process that resumes the run invokes a handler again.
THEOREM EffectsUnique == Spec => []EffectsAreUnique
<1>1. IInv => EffectsAreUnique
  BY DEF IInv
<1> QED
  BY <1>1, IInvAlways, PTL

\* Only authorised effects: every step that invokes the handler of a call finds a
\* grant, an allowing sandbox decision and, if there was a request, an approval.
THEOREM EffectsAuthorised == Spec => EffectsAreAuthorised
<1> DEFINE A == \A c \in CallIds : ran'[c] # ran[c] => Authorised(c)
<1>1. IInv /\ [Next]_vars => [A]_vars
  <2> SUFFICES ASSUME IInv, Next, NEW c \in CallIds, ran'[c] # ran[c] PROVE Authorised(c)
    BY DEF Authorised
  <2>1. InvokeHandler
    BY OnlyInvocationsRun
  <2>2. op.step = "invoke" /\ c = op.call
    BY <2>1 DEF InvokeHandler, At, IInv, TypeInv, TypeOK
  <2>3. /\ trace.permit[c] \in Granting /\ trace.sandbox[c] = "allow"
        /\ op.status = "executing"
    BY <2>2 DEF IInv, GrantIsRecorded, Steps
  <2>4. trace.approval[c] \in {Absent, "approved"}
    BY <2>2, <2>3 DEF IInv, TypeInv, TypeOK, OpTypes, OperationIsBound, Response
  <2> QED
    BY <2>3, <2>4 DEF Authorised
<1> QED
  BY <1>1, IInvAlways, PTL DEF Spec, EffectsAreAuthorised
=============================================================================
