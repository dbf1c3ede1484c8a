------------------------ MODULE GovernedSessionHistory -----------------------
(***************************************************************************)
(* What a run writes down: it implements ApprovalProtocol, its trace stays *)
(* legal, nothing runs once it has ended, the session, the pending set and *)
(* the trace agree on what waits, and a completed run is settled.  For     *)
(* every number of calls, faults and queued resumes and every approval     *)
(* mode; who else may act meanwhile is a hypothesis of each theorem:       *)
(*                                                                         *)
(*   ~LiveCancel   nobody cancels a session that a process has open;       *)
(*   Coroutines    and other tasks run only while a handler does, or       *)
(*                 between calls;                                          *)
(*   OneByOne      and no resume waits for the operation lock;             *)
(*   Sequential    and no other task runs while a call is in progress.     *)
(***************************************************************************)
EXTENDS GovernedSessionProofs

-----------------------------------------------------------------------------
(* What the pipeline knows of the status of its call. *)

\* The status in memory is a status, and for a new call it is the one in the
\* trace.  (That of a resumed call was copied when the run was resumed; a
\* queued resume may find that an earlier one has moved the call on.)
StatusIsCurrent ==
  op.step \notin {"free", "raise"} =>
    /\ op.status \in CallStatuses
    /\ op.kind = "execute" => trace.call[op.call] = op.status

\* The status that a call has at the steps where it is put to a person or
\* comes to its end.
StatusFits ==
  /\ Steps({"intent", "evaluate"}) =>
       IF op.kind = "resume" THEN op.status = "waiting_approval" /\ op.response # Absent
                             ELSE op.status = "requested" /\ op.response = Absent
  /\ Steps({"prompt", "request_approval"}) => op.status = "waiting_approval"
  /\ Steps({"permission", "approve"}) /\ op.effect = "ask" => op.status = "waiting_approval"
  /\ Steps({"facts"}) => op.status \in {"succeeded", "failed"}
  /\ Steps({"return"}) => op.status \in TerminalCall

\* An approval is undecided only as long as its call waits.
PendingCallsWait ==
  \A c \in CallIds : trace.approval[c] = "pending" => trace.call[c] = "waiting_approval"

StatusInv == StatusIsCurrent /\ StatusFits /\ PendingCallsWait

\* What a step may do to the rows of a call: its status follows the table, and
\* a waiting call is approved only without a request or on an approval; it is
\* asked about while it waits and answered once; its handler is invoked once,
\* while it is executing.
RowsFollowTheTable ==
  \A c \in CallIds :
    /\ \/ trace'.call[c] = trace.call[c]
       \/ trace.call[c] = Absent /\ trace'.call[c] = "requested"
       \/ /\ CallMayBecome(trace.call[c], trace'.call[c])
          /\ trace.call[c] = "waiting_approval" /\ trace'.call[c] = "approved"
               => trace.approval[c] \in {Absent, "approved"}
    /\ \/ trace'.approval[c] = trace.approval[c]
       \/ /\ trace.approval[c] = Absent /\ trace'.approval[c] = "pending"
          /\ trace.call[c] = "waiting_approval"
       \/ trace.approval[c] = "pending" /\ trace'.approval[c] \in {"approved", "denied"}
    /\ \/ ran'[c] = ran[c]
       \/ /\ trace.call[c] = "executing" /\ trace'.call[c] = "executing"
          /\ ran[c] = 0 /\ ran'[c] = 1

-----------------------------------------------------------------------------
(* Its steps. *)

\* Evidence only.
LEMMA SameRowsFollow ==
  ASSUME SameRows(trace, trace'), UNCHANGED ran
  PROVE  RowsFollowTheTable
BY DEF SameRows, RowsFollowTheTable

\* The call in progress is left alone.
LEMMA StatusKept ==
  ASSUME StatusInv, UNCHANGED op, SameRows(trace, trace')
  PROVE  StatusInv'
BY DEF StatusInv, StatusIsCurrent, StatusFits, Steps, PendingCallsWait, SameRows

\* No call is in progress any more, or it is about to fail.
LEMMA EndedFits ==
  ASSUME op'.step \in {"free", "raise"}
  PROVE  StatusIsCurrent' /\ StatusFits'
BY DEF StatusIsCurrent, StatusFits, Steps

\* It goes on to a step that nothing is said of.
PlainSteps ==
  {"policy_deny", "sandbox", "sandbox_deny", "launch", "invoke", "running", "result",
   "finish", "abort", "raise"}

LEMMA PlainMoveFits ==
  ASSUME StatusIsCurrent, op.step \notin {"free", "raise"},
         NEW step \in PlainSteps, Moved(step), trace'.call = trace.call
  PROVE  StatusIsCurrent' /\ StatusFits'
BY DEF StatusIsCurrent, StatusFits, Steps, PlainSteps, Moved

LEMMA ApprovalsKept ==
  ASSUME PendingCallsWait, trace'.call = trace.call, trace'.approval = trace.approval
  PROVE  PendingCallsWait'
BY DEF PendingCallsWait

LEMMA StatusInit == Init => StatusInv
BY IdleType DEF Init, StatusInv, StatusIsCurrent, StatusFits, Steps, PendingCallsWait,
   EmptyTrace, Absent

\* Contexts and the operations outside the lock touch neither the rows of the
\* calls nor the call in progress.
LEMMA OutsideKeepsRows ==
  ASSUME TypeInv, Contexts \/ Unlocked
  PROVE  SameRows(trace, trace') /\ UNCHANGED <<op, ran>>
<1> USE DEF outside
<1>1. ASSUME NEW m, OpenSession(m) PROVE SameRows(trace, trace') /\ UNCHANGED <<op, ran>>
  <2> DEFINE created == SessionCreated(trace)
             started == SessionStatusChanged(created, "running")
  <2>1. created \in Traces /\ SameRows(trace, created)
    BY SessionCreatedRows DEF TypeInv, TypeOK
  <2>2. SameRows(created, started)
    BY <2>1, SessionStatusRows DEF SessionStatuses
  <2>3. trace' \in {trace, created, started} /\ UNCHANGED <<op, ran>>
    BY <1>1 DEF OpenSession, Append, Raises
  <2> QED
    BY <2>1, <2>2, <2>3 DEF SameRows
<1>2. ASSUME NEW c \in CallIds, NEW m, ResumeRun(c, m)
      PROVE  SameRows(trace, trace') /\ UNCHANGED <<op, ran>>
  BY <1>2 DEF ResumeRun, SameRows
<1>3. ASSUME NEW how, Exit(how) PROVE SameRows(trace, trace') /\ UNCHANGED <<op, ran>>
  BY <1>3 DEF Exit, SameRows
<1>4. CASE Leave
  BY <1>4 DEF Leave, SameRows
<1>5. ASSUME NEW v \in {"verified", "unsupported"}, SubmitAnswer(v)
      PROVE  SameRows(trace, trace') /\ UNCHANGED <<op, ran>>
  <2>1. SameRows(trace, GroundguardChecked(trace, v))
    BY GroundguardRows DEF TypeInv, TypeOK
  <2> QED
    BY <1>5, <2>1 DEF SubmitAnswer, Append, Raises, SameRows
<1>6. CASE TimeOut
  BY <1>6 DEF TimeOut, SameRows
<1>7. CASE FinishSession
  <2>1. Target \in SessionStatuses
    BY <1>7 DEF FinishSession, Target, SessionStatuses, TypeInv, TypeOK
  <2>2. SameRows(trace, SessionStatusChanged(trace, Target))
    BY <2>1, SessionStatusRows DEF TypeInv, TypeOK
  <2> QED
    BY <1>7, <2>2 DEF FinishSession, Append, Raises, SameRows
<1> QED
  BY <1>1, <1>2, <1>3, <1>4, <1>5, <1>6, <1>7 DEF Contexts, Unlocked

\* The number that the next call gets is not in the trace yet.
LEMMA NextCallIsNew ==
  ASSUME IInv, context # "none", sequence + 1 \in CallIds
  PROVE  trace.call[sequence + 1] = Absent
<1>1. sequence \in Nat /\ ~(sequence + 1 <= sequence)
  BY BoundsAssumption DEF IInv, TypeInv, TypeOK
<1>2. trace.call[sequence + 1] # Absent => sequence + 1 <= sequence
  BY DEF IInv, NumbersAreFresh
<1> QED
  BY <1>1, <1>2

\* A new call is requested under a new number; a resumed one waits.
LEMMA StatusStarts ==
  ASSUME IInv, StatusInv, Starts
  PROVE  StatusInv' /\ RowsFollowTheTable
<1> USE DEF memory, outside
<1>1. CASE Execute
  <2> DEFINE c == sequence + 1
             t == ToolCallRequested(trace, c)
  <2>1. /\ c \in CallIds /\ trace \in Traces /\ op.step = "free" /\ context # "none"
        /\ sequence \in Nat /\ UNCHANGED ran
    BY <1>1, BoundsAssumption DEF Execute, IInv, TypeInv, TypeOK
  <2>2. trace.call[c] = Absent /\ trace.approval[c] = Absent
    BY <2>1 DEF IInv, NumbersAreFresh
  <2>3. t = [trace EXCEPT !.call[c] = "requested"]
    BY <2>2 DEF ToolCallRequested
  <2>4. /\ t.approval = trace.approval /\ t.call[c] = "requested"
        /\ \A d \in CallIds : d # c => t.call[d] = trace.call[d]
    BY <2>1, <2>3 DEF Traces
  <2>5. \/ UNCHANGED op /\ trace' \in {trace, t}
        \/ /\ trace' = t /\ op'.step = "intent" /\ op'.call = c /\ op'.kind = "execute"
           /\ op'.status = "requested" /\ op'.response = Absent
    <3>1. "requested" \in CallStatuses
      BY DEF CallStatuses
    <3> QED
      BY <1>1, <2>1, <3>1, BeganType DEF Execute, Append, Raises
  <2> HIDE DEF t
  <2>6. StatusIsCurrent' /\ StatusFits'
    BY <2>1, <2>4, <2>5 DEF StatusIsCurrent, StatusFits, Steps, CallStatuses
  <2>7. PendingCallsWait'
    BY <2>2, <2>4, <2>5 DEF StatusInv, PendingCallsWait, Absent
  <2>8. RowsFollowTheTable
    BY <2>1, <2>2, <2>4, <2>5 DEF RowsFollowTheTable
  <2> QED
    BY <2>6, <2>7, <2>8 DEF StatusInv
<1>2. ASSUME NEW c \in CallIds, ResumeCall(c) \/ QueueResume(c) \/ DequeueResume(c)
      PROVE  StatusInv' /\ RowsFollowTheTable
  <2>1. UNCHANGED <<trace, ran>>
    BY <1>2 DEF ResumeCall, QueueResume, DequeueResume
  <2>2. \/ UNCHANGED op
        \/ \E d : op' = Began(c, "resume", "waiting_approval", Response(d))
    BY <1>2 DEF ResumeCall, QueueResume, DequeueResume
  <2>3. \/ UNCHANGED op
        \/ /\ op'.step = "intent" /\ op'.kind = "resume" /\ op'.status = "waiting_approval"
           /\ op'.response # Absent
    BY <2>2, ResponseType, BeganType DEF CallStatuses, Absent
  <2>4. SameRows(trace, trace')
    BY <2>1 DEF SameRows
  <2>5. CASE UNCHANGED op
    BY <2>1, <2>4, <2>5, StatusKept, SameRowsFollow
  <2>6. CASE /\ op'.step = "intent" /\ op'.kind = "resume" /\ op'.status = "waiting_approval"
             /\ op'.response # Absent
    <3>1. StatusIsCurrent' /\ StatusFits'
      BY <2>6 DEF StatusIsCurrent, StatusFits, Steps, CallStatuses
    <3> QED
      BY <2>1, <2>4, <3>1, ApprovalsKept, SameRowsFollow DEF StatusInv, SameRows
  <2> QED
    BY <2>3, <2>5, <2>6
<1> QED
  BY <1>1, <1>2 DEF Starts

\* The clock, the decisions, a cancellation of a run that nobody has open, and
\* crashes.
LEMMA StatusEnvironment ==
  ASSUME ~LiveCancel, IInv, StatusInv, Environment
  PROVE  StatusInv' /\ RowsFollowTheTable
<1> USE DEF outside, sessionOnly
<1>1. ASSUME NEW c \in CallIds, Expire(c) PROVE StatusInv' /\ RowsFollowTheTable
  <2>1. SameRows(trace, trace') /\ UNCHANGED <<op, ran>>
    BY <1>1 DEF Expire, SameRows
  <2> QED
    BY <2>1, StatusKept, SameRowsFollow
<1>2. ASSUME NEW c \in CallIds, NEW d \in Approvers, Decide(c, d)
      PROVE  StatusInv' /\ RowsFollowTheTable
  <2> DEFINE decision == IF c \in expired THEN "denied" ELSE d
  <2>1. decision \in {"approved", "denied"}
    BY ChoiceAssumption
  <2>2. /\ trace.approval[c] = "pending" /\ trace' = ApprovalDecided(trace, c, decision)
        /\ trace \in Traces /\ UNCHANGED <<op, ran>>
    BY <1>2 DEF Decide, Append, IInv, TypeInv, TypeOK
  <2> HIDE DEF decision
  <2>3. trace' = [trace EXCEPT !.approval[c] = decision]
    BY <2>2 DEF ApprovalDecided
  <2>4. /\ trace'.call = trace.call /\ trace'.approval[c] = decision
        /\ \A e \in CallIds : e # c => trace'.approval[e] = trace.approval[e]
    BY <2>2, <2>3 DEF Traces
  <2>5. StatusIsCurrent' /\ StatusFits'
    BY <2>2, <2>4 DEF StatusInv, StatusIsCurrent, StatusFits, Steps
  <2>6. PendingCallsWait'
    BY <2>1, <2>4 DEF StatusInv, PendingCallsWait
  <2>7. RowsFollowTheTable
    BY <2>1, <2>2, <2>4 DEF RowsFollowTheTable
  <2> QED
    BY <2>5, <2>6, <2>7 DEF StatusInv
<1>3. CASE CancelRun
  <2>1. PICK a \in SUBSET PendingApprovals(trace), w \in SUBSET WaitingCalls(trace), done \in BOOLEAN :
           trace' = CancelledPart(a, w, done) /\ (w # {} => a = PendingApprovals(trace))
    BY <1>3 DEF CancelRun, Append
  <2>2. op.step = "free" /\ UNCHANGED <<op, ran>> /\ trace \in Traces
    BY <1>3 DEF CancelRun, IInv, TypeInv, TypeOK
  <2>3. \A c \in CallIds :
           /\ trace'.call[c] = IF c \in w THEN "policy_denied" ELSE trace.call[c]
           /\ trace'.approval[c] = IF c \in a THEN "denied" ELSE trace.approval[c]
    BY <2>1, <2>2 DEF CancelledPart, Traces
  <2>4. /\ \A c \in w : trace.call[c] = "waiting_approval"
        /\ \A c \in a : trace.approval[c] = "pending"
    BY DEF WaitingCalls, PendingApprovals
  <2>5. StatusIsCurrent' /\ StatusFits'
    BY <2>2, EndedFits
  <2>6. PendingCallsWait'
    <3> SUFFICES ASSUME NEW c \in CallIds, trace'.approval[c] = "pending"
                 PROVE  trace'.call[c] = "waiting_approval"
      BY DEF PendingCallsWait
    <3>1. c \notin a /\ trace.approval[c] = "pending"
      BY <2>3
    <3>2. w = {}
      BY <2>1, <3>1 DEF PendingApprovals
    <3> QED
      BY <2>3, <3>1, <3>2 DEF StatusInv, PendingCallsWait
  <2>7. RowsFollowTheTable
    BY <2>2, <2>3, <2>4 DEF RowsFollowTheTable, CallMayBecome, CallTransitions
  <2> QED
    BY <2>5, <2>6, <2>7 DEF StatusInv
<1>4. CASE Crash
  <2>1. SameRows(trace, trace') /\ UNCHANGED ran /\ op'.step = "free"
    BY <1>4, IdleType DEF Crash, SameRows
  <2> QED
    BY <2>1, EndedFits, ApprovalsKept, SameRowsFollow DEF StatusInv, SameRows
<1> QED
  BY <1>1, <1>2, <1>3, <1>4 DEF Environment

\* A step of the pipeline that adds evidence only, and goes on to a step that
\* nothing is said of, or ends.
LEMMA PlainStatus ==
  ASSUME StatusInv, op.step \notin {"free", "raise"}, SameRows(trace, trace'), UNCHANGED ran,
         NEW step \in PlainSteps, op'.step = "free" \/ Moved(step)
  PROVE  StatusInv' /\ RowsFollowTheTable
BY EndedFits, PlainMoveFits, ApprovalsKept, SameRowsFollow DEF StatusInv, SameRows

\* The call takes a status: the row in the trace follows, or nothing does.
LEMMA StatusOfStatus ==
  ASSUME IInv, StatusInv, RecordToolStatus
  PROVE  StatusInv' /\ RowsFollowTheTable
<1> DEFINE c == op.call
           t == ToolCallStatusChanged(trace, c, NewStatus)
           moves == CallMayBecome(trace.call[c], NewStatus)
<1>1. /\ c \in CallIds /\ op.step \in StatusSteps /\ op.step # "free"
      /\ op \in OpTypes /\ trace \in Traces
      /\ held \in [CallIds -> ApprovalDecisions \cup {Absent}]
  BY DEF IInv, TypeInv, TypeOK, LocalsAreSet, RecordToolStatus, StatusSteps
<1>2. NewStatus \in CallStatuses
  BY <1>1, NewStatusType
<1>3. /\ t.approval = trace.approval
      /\ moves => t.call = [trace.call EXCEPT ![c] = NewStatus]
      /\ ~moves => t.call = trace.call
  BY <1>1, <1>2, CallStatusRows
<1> HIDE DEF t
<1>4. trace' \in {trace, t} /\ UNCHANGED ran
  BY DEF RecordToolStatus, Append, Raises, Rejects, t
<1>5. /\ trace'.approval = trace.approval
      /\ \A d \in CallIds : d # c => trace'.call[d] = trace.call[d]
      /\ trace'.call[c] = trace.call[c] \/ (moves /\ trace'.call[c] = NewStatus)
  BY <1>1, <1>3, <1>4 DEF Traces
\* A resumed call has a decision, and is approved only on an approval.
<1>6. /\ trace.approval[c] # "pending"
      /\ moves /\ NewStatus = "approved" => trace.approval[c] \in {Absent, "approved"}
  <2>1. op.kind = "execute" => trace.approval[c] = Absent
    BY <1>1 DEF IInv, OperationIsBound
  <2>2. op.kind = "resume" =>
          /\ trace.approval[c] \in {"approved", "denied"}
          /\ op.step = "approve" => Response(trace.approval[c]) = "approve"
    BY <1>1 DEF IInv, OperationIsBound, Steps
  <2>3. NewStatus = "approved" => op.step = "approve"
    BY <1>1 DEF StatusSteps, NewStatus
  <2> QED
    BY <1>1, <2>1, <2>2, <2>3 DEF OpTypes, Response, Absent
<1>7. PendingCallsWait'
  BY <1>5, <1>6 DEF StatusInv, PendingCallsWait
<1>8. RowsFollowTheTable
  BY <1>1, <1>4, <1>5, <1>6 DEF RowsFollowTheTable
<1>9. \/ RaiseError
      \/ Continue("return")
      \/ /\ trace' = t /\ moves
         /\ \/ op' = [op EXCEPT !.step = "reconcile", !.next = AfterStatus, !.status = NewStatus]
            \/ op' = [op EXCEPT !.step = AfterStatus, !.status = NewStatus] /\ AfterStatus # "return"
  BY DEF RecordToolStatus, Append, t
<1>10. CASE RaiseError \/ Continue("return")
  BY <1>1, <1>7, <1>8, <1>10, ContinueMoves, RaiseMoves, EndedFits DEF StatusInv, Moved
<1>11. CASE /\ trace' = t /\ moves
            /\ \/ op' = [op EXCEPT !.step = "reconcile", !.next = AfterStatus, !.status = NewStatus]
               \/ op' = [op EXCEPT !.step = AfterStatus, !.status = NewStatus] /\ AfterStatus # "return"
  <2>1. /\ op'.call = c /\ op'.kind = op.kind /\ op'.effect = op.effect /\ op'.status = NewStatus
        /\ \/ op'.step = "reconcile" /\ op'.next = AfterStatus
           \/ op'.step = AfterStatus
    BY <1>1, <1>11 DEF OpTypes
  <2>2. trace'.call[c] = NewStatus
    BY <1>1, <1>3, <1>11 DEF Traces
  <2>3. /\ AfterStatus \notin {"reconcile", "intent", "evaluate", "request_approval", "approve"}
        /\ AfterStatus \in {"prompt", "permission"} => NewStatus = "waiting_approval"
        /\ AfterStatus = "facts" => NewStatus \in {"succeeded", "failed"}
        /\ AfterStatus = "return" => NewStatus \in TerminalCall
    BY <1>1 DEF StatusSteps, AfterStatus, NewStatus, TerminalCall
  <2>4. \A S : Steps(S)' => AfterStatus \in S \/ "reconcile" \in S
    BY <2>1, <2>3 DEF Steps
  <2>5. StatusIsCurrent'
    BY <1>2, <2>1, <2>2 DEF StatusIsCurrent
  <2>6. StatusFits'
    <3>1. /\ ~Steps({"intent", "evaluate"})'
          /\ Steps({"prompt", "request_approval"})' => NewStatus = "waiting_approval"
          /\ Steps({"permission", "approve"})' => NewStatus = "waiting_approval"
          /\ Steps({"facts"})' => NewStatus \in {"succeeded", "failed"}
          /\ Steps({"return"})' => NewStatus \in TerminalCall
      BY <2>3, <2>4
    <3> QED
      BY <2>1, <3>1 DEF StatusFits
  <2> QED
    BY <1>7, <1>8, <2>5, <2>6 DEF StatusInv
<1> QED
  BY <1>9, <1>10, <1>11

LEMMA StatusOfReconcile ==
  ASSUME IInv, StatusInv, ReconcileSession
  PROVE  StatusInv' /\ RowsFollowTheTable
<1> DEFINE s == Reconciled(pending)
           t == SessionStatusChanged(trace, s)
<1>1. /\ op.step = "reconcile" /\ op \in OpTypes /\ trace \in Traces
      /\ held \in [CallIds -> ApprovalDecisions \cup {Absent}]
  BY DEF IInv, TypeInv, TypeOK, ReconcileSession, At
<1>2. SameRows(trace, trace') /\ UNCHANGED ran
  <2>1. CASE s = session
    BY <2>1 DEF ReconcileSession, SameRows
  <2>2. CASE s # session
    <3>1. s \in SessionStatuses
      BY <2>2 DEF Reconciled, SessionStatuses
    <3>2. SameRows(trace, t)
      BY <1>1, <3>1, SessionStatusRows
    <3> QED
      BY <2>2, <3>2 DEF ReconcileSession, Append, Raises, Rejects, SameRows
  <2> QED
    BY <2>1, <2>2
<1>3. Continue(op.next) \/ RaiseError
  BY DEF ReconcileSession
<1>4. op'.step = "free" \/ Moved("raise") \/ (op.next # "return" /\ Moved(op.next))
  BY <1>1, <1>3, ContinueMoves, RaiseMoves
<1>5. CASE op'.step = "free" \/ Moved("raise")
  BY <1>1, <1>2, <1>5, PlainStatus DEF PlainSteps
<1>6. CASE op.next # "return" /\ Moved(op.next)
  <2>1. \A S : "reconcile" \notin S => (Steps(S)' => Steps(S))
    BY <1>1, <1>6 DEF Steps, Moved
  <2>2. StatusFits'
    <3>1. /\ Steps({"intent", "evaluate"})' => Steps({"intent", "evaluate"})
          /\ Steps({"prompt", "request_approval"})' => Steps({"prompt", "request_approval"})
          /\ Steps({"permission", "approve"})' => Steps({"permission", "approve"})
          /\ Steps({"facts"})' => Steps({"facts"})
          /\ Steps({"return"})' => Steps({"return"})
      BY <2>1
    <3> QED
      BY <1>6, <3>1 DEF StatusInv, StatusFits, Moved
  <2>3. StatusIsCurrent'
    BY <1>1, <1>2, <1>6 DEF StatusInv, StatusIsCurrent, Moved, SameRows
  <2> QED
    BY <1>2, <2>2, <2>3, ApprovalsKept, SameRowsFollow DEF StatusInv, SameRows
<1> QED
  BY <1>4, <1>5, <1>6

\* Only a call that waits is put to a person later.
LEMMA StatusOfPermission ==
  ASSUME IInv, StatusInv, DecidePermission
  PROVE  StatusInv' /\ RowsFollowTheTable
<1> DEFINE p == Permit(op.effect, op.hook, op.response)
           t == PermissionDecided(trace, op.call, p)
<1>1. /\ op.step = "permission" /\ op.call \in CallIds /\ op \in OpTypes /\ trace \in Traces
      /\ op.effect # Absent
      /\ held \in [CallIds -> ApprovalDecisions \cup {Absent}]
  BY DEF IInv, TypeInv, TypeOK, LocalsAreSet, Steps, DecidePermission, At
<1>2. p \in Permits
  BY <1>1, PermitType DEF IInv
<1>3. p = "ask" => op.effect = "ask"
  BY <1>1 DEF Permit, OpTypes, IInv, TypeInv, TypeOK, ModeNames
<1> HIDE DEF p
<1>4. t.call = trace.call /\ t.approval = trace.approval
  BY <1>1, <1>2, PermissionRows
<1> HIDE DEF t
<1>5. /\ trace' \in {trace, t} /\ UNCHANGED ran
      /\ RaiseError \/ Continue(AfterPermit(p))
  BY DEF DecidePermission, Append, Raises, p, t
<1>6. trace'.call = trace.call /\ trace'.approval = trace.approval
  BY <1>4, <1>5
<1>7. RowsFollowTheTable /\ PendingCallsWait'
  BY <1>5, <1>6 DEF RowsFollowTheTable, StatusInv, PendingCallsWait
<1>8. /\ AfterPermit(p) \in {"policy_deny", "request_approval", "approve", "sandbox"}
      /\ AfterPermit(p) = "request_approval" => p = "ask"
      /\ AfterPermit(p) = "approve" => op.effect = "ask"
  BY <1>2 DEF AfterPermit, Permits, Granting
<1>9. Moved("raise") \/ Moved(AfterPermit(p))
  BY <1>1, <1>5, <1>8, ContinueMoves, RaiseMoves
<1>10. op.effect = "ask" => op.status = "waiting_approval"
  BY <1>1 DEF StatusInv, StatusFits, Steps
<1>11. StatusIsCurrent'
  BY <1>1, <1>6, <1>9 DEF StatusInv, StatusIsCurrent, Moved
<1>12. StatusFits'
  <2>1. CASE Moved("raise")
    BY <2>1, EndedFits DEF Moved
  <2>2. CASE Moved(AfterPermit(p))
    BY <1>3, <1>8, <1>10, <2>2 DEF StatusFits, Steps, Moved
  <2> QED
    BY <1>9, <2>1, <2>2
<1> QED
  BY <1>7, <1>11, <1>12 DEF StatusInv

\* The request for the approval of a call is written while the call waits.
LEMMA StatusOfRequest ==
  ASSUME IInv, StatusInv, RequestApproval
  PROVE  StatusInv' /\ RowsFollowTheTable
<1> DEFINE c == op.call
           t == ApprovalRequested(trace, c)
<1>1. /\ op.step = "request_approval" /\ c \in CallIds /\ op \in OpTypes /\ trace \in Traces
      /\ held \in [CallIds -> ApprovalDecisions \cup {Absent}]
  BY DEF IInv, TypeInv, TypeOK, LocalsAreSet, RequestApproval, At
<1>2. /\ t.call = trace.call
      /\ \/ t.approval = trace.approval
         \/ trace.approval[c] = Absent /\ t.approval = [trace.approval EXCEPT ![c] = "pending"]
  BY <1>1, ApprovalRequestedRows
<1> HIDE DEF t
<1>3. trace' \in {trace, t} /\ UNCHANGED ran /\ op'.step = "free"
  BY <1>1, ContinueMoves DEF RequestApproval, Append, Raises, t
<1>4. /\ trace'.call = trace.call
      /\ \A d \in CallIds : d # c => trace'.approval[d] = trace.approval[d]
      /\ \/ trace'.approval[c] = trace.approval[c]
         \/ trace.approval[c] = Absent /\ trace'.approval[c] = "pending"
  BY <1>1, <1>2, <1>3 DEF Traces
\* A resumed call is not put to a person again.
<1>5. trace.call[c] = "waiting_approval"
  <2>1. op.kind = "execute"
    BY <1>1 DEF IInv, OperationIsBound, Steps, OpTypes
  <2> QED
    BY <1>1, <2>1 DEF StatusInv, StatusIsCurrent, StatusFits, Steps
<1>6. PendingCallsWait'
  BY <1>4, <1>5 DEF StatusInv, PendingCallsWait
<1>7. RowsFollowTheTable
  BY <1>3, <1>4, <1>5 DEF RowsFollowTheTable
<1> QED
  BY <1>3, <1>6, <1>7, EndedFits DEF StatusInv

LEMMA StatusPipeline ==
  ASSUME IInv, StatusInv, Pipeline
  PROVE  StatusInv' /\ RowsFollowTheTable
<1>1. /\ op \in OpTypes /\ trace \in Traces
      /\ held \in [CallIds -> ApprovalDecisions \cup {Absent}]
      /\ op.step # "free" => op.call \in CallIds
  BY DEF IInv, TypeInv, TypeOK, LocalsAreSet
<1>2. CASE RecordIntent
  <2>1. op.step = "intent" /\ op.call \in CallIds /\ UNCHANGED ran
    BY <1>1, <1>2 DEF RecordIntent, At
  <2>2. SameRows(trace, trace')
    BY <1>1, <1>2, <2>1, IntentRows DEF RecordIntent, Append, Raises, SameRows
  <2>3. Moved("evaluate") \/ Moved("raise")
    BY <1>1, <1>2, ContinueMoves, RaiseMoves DEF RecordIntent
  <2>4. CASE Moved("raise")
    BY <2>1, <2>2, <2>4, PlainStatus DEF PlainSteps
  <2>5. CASE Moved("evaluate")
    <3>1. StatusIsCurrent' /\ StatusFits'
      BY <2>1, <2>2, <2>5 DEF StatusInv, StatusIsCurrent, StatusFits, Steps, Moved, SameRows
    <3> QED
      BY <2>1, <2>2, <3>1, ApprovalsKept, SameRowsFollow DEF StatusInv, SameRows
  <2> QED
    BY <2>3, <2>4, <2>5
<1>3. ASSUME NEW effect \in {"allow", "ask", "deny"}, NEW hook \in {"allow", "deny"},
             Evaluate(effect, hook)
      PROVE  StatusInv' /\ RowsFollowTheTable
  <2>1. op.step = "evaluate" /\ UNCHANGED ran
    BY <1>3 DEF Evaluate, At
  <2>2. SameRows(trace, trace')
    BY <1>3 DEF Evaluate, Append, Raises, SameRows
  <2>3. CASE RaiseError
    BY <1>1, <2>1, <2>2, <2>3, RaiseMoves, PlainStatus DEF PlainSteps
  <2>4. CASE /\ op' = [op EXCEPT !.effect = effect, !.hook = hook,
                                !.step = IF effect = "ask" /\ op.response = Absent
                                           THEN "ask" ELSE "permission"]
             /\ UNCHANGED held
    <3>1. /\ op'.step = IF effect = "ask" /\ op.response = Absent THEN "ask" ELSE "permission"
          /\ op'.call = op.call /\ op'.kind = op.kind /\ op'.status = op.status
          /\ op'.effect = effect
      BY <1>1, <2>4 DEF OpTypes
    <3>2. StatusIsCurrent' /\ StatusFits'
      BY <2>1, <2>2, <3>1 DEF StatusInv, StatusIsCurrent, StatusFits, Steps, SameRows
    <3> QED
      BY <2>1, <2>2, <3>2, ApprovalsKept, SameRowsFollow DEF StatusInv, SameRows
  <2> QED
    BY <1>3, <2>3, <2>4 DEF Evaluate
<1>4. CASE RecordToolStatus
  BY <1>4, StatusOfStatus
<1>5. CASE ReconcileSession
  BY <1>5, StatusOfReconcile
<1>6. ASSUME NEW answer \in {"approve", "deny"}, Prompt(answer)
      PROVE  StatusInv' /\ RowsFollowTheTable
  <2>1. op.step = "prompt" /\ UNCHANGED ran
    BY <1>6 DEF Prompt, At
  <2>2. SameRows(trace, trace')
    BY <1>6 DEF Prompt, Append, Raises, SameRows
  <2>3. CASE RaiseError
    BY <1>1, <2>1, <2>2, <2>3, RaiseMoves, PlainStatus DEF PlainSteps
  <2>4. CASE op' = [op EXCEPT !.response = answer, !.step = "permission"]
    <3>1. /\ op'.step = "permission" /\ op'.call = op.call /\ op'.kind = op.kind
          /\ op'.status = op.status
      BY <1>1, <2>4 DEF OpTypes
    <3>2. StatusIsCurrent' /\ StatusFits'
      BY <2>1, <2>2, <3>1 DEF StatusInv, StatusIsCurrent, StatusFits, Steps, SameRows
    <3> QED
      BY <2>1, <2>2, <3>2, ApprovalsKept, SameRowsFollow DEF StatusInv, SameRows
  <2> QED
    BY <1>6, <2>3, <2>4 DEF Prompt
<1>7. CASE DecidePermission
  BY <1>7, StatusOfPermission
<1>8. CASE RequestApproval
  BY <1>8, StatusOfRequest
<1>9. ASSUME NEW v \in {"allow", "deny"}, CheckSandbox(v)
      PROVE  StatusInv' /\ RowsFollowTheTable
  <2> DEFINE t == SandboxDecided(trace, op.call, v)
  <2>1. op.step = "sandbox" /\ op.call \in CallIds /\ UNCHANGED ran
    BY <1>1, <1>9 DEF CheckSandbox, At
  <2>2. t.call = trace.call /\ t.approval = trace.approval
    BY <1>1 DEF SandboxDecided, Traces
  <2> HIDE DEF t
  <2>3. /\ trace' \in {trace, t}
        /\ RaiseError \/ Continue("launch") \/ Continue("sandbox_deny")
    BY <1>9 DEF CheckSandbox, Append, Raises, t
  <2>4. \E step \in PlainSteps : Moved(step)
    BY <1>1, <2>3, ContinueMoves, RaiseMoves DEF PlainSteps
  <2>5. StatusIsCurrent' /\ StatusFits'
    BY <2>1, <2>2, <2>3, <2>4, PlainMoveFits DEF StatusInv
  <2>6. PendingCallsWait'
    BY <2>2, <2>3, ApprovalsKept DEF StatusInv
  <2>7. RowsFollowTheTable
    BY <2>1, <2>2, <2>3 DEF RowsFollowTheTable
  <2> QED
    BY <2>5, <2>6, <2>7 DEF StatusInv
<1>10. CASE InvokeHandler
  <2>1. /\ op.step = "invoke" /\ op.call \in CallIds /\ UNCHANGED trace
        /\ ran' = [ran EXCEPT ![op.call] = @ + 1]
    BY <1>1, <1>10 DEF InvokeHandler, At
  <2>2. ran[op.call] = 0 /\ trace.call[op.call] = "executing" /\ ran \in [CallIds -> Nat]
    BY <2>1 DEF IInv, TypeInv, TypeOK, GrantIsRecorded, Steps
  <2>3. Moved("running")
    BY <1>1, <1>10, ContinueMoves DEF InvokeHandler
  <2>4. StatusIsCurrent' /\ StatusFits'
    BY <2>1, <2>3, PlainMoveFits DEF StatusInv, PlainSteps
  <2>5. \A d \in CallIds : ran'[d] = IF d = op.call THEN 1 ELSE ran[d]
    BY <2>1, <2>2
  <2>6. RowsFollowTheTable
    BY <2>1, <2>2, <2>5 DEF RowsFollowTheTable
  <2> QED
    BY <2>1, <2>4, <2>6, ApprovalsKept DEF StatusInv
<1>11. ASSUME NEW r \in {"ok", "error", "exception"}, HandlerReturns(r)
       PROVE  StatusInv' /\ RowsFollowTheTable
  <2>1. PICK step \in {"abort", "result"} : op' = [op EXCEPT !.result = r, !.step = step]
    BY <1>11 DEF HandlerReturns
  <2>2. Moved(step) /\ op.step \notin {"free", "raise"}
    BY <1>1, <1>11, <2>1 DEF OpTypes, Moved, HandlerReturns, At
  <2>3. SameRows(trace, trace') /\ UNCHANGED ran
    BY <1>11 DEF HandlerReturns, SameRows
  <2> QED
    BY <2>2, <2>3, PlainStatus DEF PlainSteps
<1>12. CASE RecordResult \/ RecordFacts
  <2>1. op.step \notin {"free", "raise"}
    BY <1>12 DEF RecordResult, RecordFacts, At
  <2>2. SameRows(trace, trace') /\ UNCHANGED ran
    BY <1>12 DEF RecordResult, RecordFacts, Append, Raises, SameRows
  <2>3. op'.step = "free" \/ Moved("finish") \/ Moved("raise")
    BY <1>1, <1>12, ContinueMoves, RaiseMoves DEF RecordResult, RecordFacts
  <2> QED
    BY <2>1, <2>2, <2>3, PlainStatus DEF PlainSteps
<1>13. CASE FailCall
  <2>1. SameRows(trace, SessionStatusChanged(trace, "failed"))
    BY <1>1, SessionStatusRows DEF SessionStatuses
  <2>2. SameRows(trace, trace') /\ UNCHANGED ran /\ op'.step = "free"
    BY <1>13, <2>1, IdleType DEF FailCall, Append, Raises, SameRows
  <2> QED
    BY <2>2, EndedFits, ApprovalsKept, SameRowsFollow DEF StatusInv, SameRows
<1> QED
  BY <1>2, <1>3, <1>4, <1>5, <1>6, <1>7, <1>8, <1>9, <1>10, <1>11, <1>12, <1>13 DEF Pipeline

\* Every step keeps what is known of the statuses, and what the table allows.
LEMMA StatusStep ==
  ASSUME ~LiveCancel, IInv, StatusInv, [Next]_vars
  PROVE  StatusInv' /\ RowsFollowTheTable
<1>1. CASE UNCHANGED vars
  <2>1. UNCHANGED <<op, ran>> /\ SameRows(trace, trace')
    BY <1>1 DEF vars, SameRows
  <2> QED
    BY <2>1, StatusKept, SameRowsFollow
<1>2. CASE Contexts \/ Unlocked
  <2>1. SameRows(trace, trace') /\ UNCHANGED <<op, ran>>
    BY <1>2, OutsideKeepsRows DEF IInv
  <2> QED
    BY <2>1, StatusKept, SameRowsFollow
<1>3. CASE Starts
  BY <1>3, StatusStarts
<1>4. CASE Pipeline
  BY <1>4, StatusPipeline
<1>5. CASE Environment
  BY <1>5, StatusEnvironment
<1> QED
  BY <1>1, <1>2, <1>3, <1>4, <1>5 DEF Next

LEMMA StatusAlways ==
  ASSUME ~LiveCancel
  PROVE  Spec => []StatusInv
<1>1. Init => StatusInv
  BY StatusInit
<1>2. IInv /\ StatusInv /\ [Next]_vars => StatusInv'
  BY StatusStep
<1> QED
  BY <1>1, <1>2, IInvAlways, PTL DEF Spec

-----------------------------------------------------------------------------
(* The approval protocol. *)

\* The phase of a call that has not run is read off its status.
LEMMA PhaseOfStatus ==
  ASSUME NEW c \in CallIds, TypeInv
  PROVE  /\ ran[c] > 0 => Phase(c) = "performed"
         /\ ran[c] = 0 =>
              /\ trace.call[c] \in {Absent, "requested"} => Phase(c) = "new"
              /\ trace.call[c] = "waiting_approval" => Phase(c) = "asked"
              /\ trace.call[c] \in {"approved", "executing"} => Phase(c) = "granted"
              /\ trace.call[c] \in TerminalCall => Phase(c) = "refused"
BY DEF Phase, TypeInv, TypeOK, TerminalCall, Absent

\* A change that follows the table is a move of the call, or none.
LEMMA RowsMoveThePhase ==
  ASSUME IInv, IInv', RowsFollowTheTable, NEW c \in CallIds
  PROVE  \/ Phase(c)' = Phase(c)
         \/ Phase(c) = "new" /\ Phase(c)' \in {"asked", "granted", "refused"}
         \/ Phase(c) = "asked" /\ Phase(c)' = "refused"
         \/ Phase(c) = "asked" /\ Phase(c)' = "granted" /\ trace.approval[c] \in {"absent", "approved"}
         \/ Phase(c) = "granted" /\ Phase(c)' \in {"performed", "refused"}
<1> DEFINE from == trace.call[c]
           to   == trace'.call[c]
<1>1. TypeInv /\ TypeInv' /\ ran[c] \in Nat /\ ran'[c] \in Nat
  BY DEF IInv, TypeInv, TypeOK
<1>2. /\ ran[c] > 0 => Phase(c) = "performed"
      /\ ran[c] = 0 =>
           /\ from \in {Absent, "requested"} => Phase(c) = "new"
           /\ from = "waiting_approval" => Phase(c) = "asked"
           /\ from \in {"approved", "executing"} => Phase(c) = "granted"
           /\ from \in TerminalCall => Phase(c) = "refused"
  BY <1>1, PhaseOfStatus
<1>3. /\ ran'[c] > 0 => Phase(c)' = "performed"
      /\ ran'[c] = 0 =>
           /\ to \in {Absent, "requested"} => Phase(c)' = "new"
           /\ to = "waiting_approval" => Phase(c)' = "asked"
           /\ to \in {"approved", "executing"} => Phase(c)' = "granted"
           /\ to \in TerminalCall => Phase(c)' = "refused"
  BY <1>1 DEF Phase, TypeInv, TypeOK, TerminalCall, Absent
<1>4. /\ from \in CallStatuses \cup {Absent}
      /\ to \in CallStatuses \cup {Absent}
  BY <1>1 DEF TypeInv, TypeOK, Traces
<1>5. CASE ran'[c] # ran[c]
  BY <1>1, <1>2, <1>3, <1>5 DEF RowsFollowTheTable
<1>6. CASE ran'[c] = ran[c] /\ ran[c] > 0
  BY <1>2, <1>3, <1>6
<1>7. CASE ran'[c] = ran[c] /\ ran[c] = 0
  <2>1. CASE to = from
    BY <1>2, <1>3, <1>4, <1>7, <2>1 DEF CallStatuses, TerminalCall
  <2>2. CASE from = Absent /\ to = "requested"
    BY <1>2, <1>3, <1>7, <2>2
  <2>3. CASE /\ CallMayBecome(from, to)
             /\ from = "waiting_approval" /\ to = "approved"
                  => trace.approval[c] \in {Absent, "approved"}
    BY <1>2, <1>3, <1>7, <2>3 DEF CallMayBecome, CallTransitions, TerminalCall, Absent
  <2> QED
    BY <2>1, <2>2, <2>3 DEF RowsFollowTheTable
<1> QED
  BY <1>1, <1>5, <1>6, <1>7

\* So a step of the run is a step of the protocol.
LEMMA StepKeepsPromise ==
  ASSUME IInv, IInv', RowsFollowTheTable
  PROVE  Promise!Next
<1> SUFFICES ASSUME NEW c \in CallIds
             PROVE  /\ \/ Phase(c) = "new" /\ Phase(c)' \in {"asked", "granted", "refused"}
                       \/ Phase(c) = "asked" /\ Phase(c)' = "refused"
                       \/ /\ Phase(c) = "asked" /\ Phase(c)' = "granted"
                          /\ trace.approval[c] \in {"absent", "approved"}
                       \/ Phase(c) = "granted" /\ Phase(c)' \in {"performed", "refused"}
                       \/ Phase(c)' = Phase(c)
                    /\ \/ /\ trace.approval[c] = "absent" /\ trace'.approval[c] = "pending"
                          /\ Phase(c) = "asked"
                       \/ trace.approval[c] = "pending" /\ trace'.approval[c] \in {"approved", "denied"}
                       \/ trace'.approval[c] = trace.approval[c]
  BY DEF Promise!Next, Promise!Moves, Promise!IsDecided
<1>1. trace.call[c] = "waiting_approval" => Phase(c) = "asked"
  BY PhaseOfStatus DEF IInv, EffectsAreRecorded, TypeInv, TypeOK
<1> QED
  BY <1>1, RowsMoveThePhase DEF RowsFollowTheTable, Absent

\* The run keeps the approval protocol, as long as nobody cancels a session that
\* a process has open: a call is performed at most once and only when granted, one
\* that was put to a person is granted only on an approval, and decisions and
\* refusals are final - across crashes, resumes, failing appends and tasks that
\* are interleaved in any way.
THEOREM PromiseIsKept ==
  ASSUME ~LiveCancel
  PROVE  Spec => KeepsPromise
<1>1. Init => Promise!Init
  <2> SUFFICES ASSUME Init PROVE Promise!Init
    OBVIOUS
  <2>1. /\ trace.approval = [c \in CallIds |-> "absent"]
        /\ \A c \in CallIds : trace.call[c] = Absent /\ ran[c] = 0
    BY DEF Init, EmptyTrace, Absent
  <2>2. \A c \in CallIds : Phase(c) = "new"
    BY <2>1, TypeInit, PhaseOfStatus
  <2> QED
    BY <2>1, <2>2 DEF Promise!Init
<1>2. IInv /\ IInv' /\ StatusInv /\ [Next]_vars
        => Promise!Next
  BY StatusStep, StepKeepsPromise
<1> QED
  BY <1>1, <1>2, IInvAlways, StatusAlways, PTL DEF Spec, KeepsPromise, Promise!Spec

-----------------------------------------------------------------------------
(* Tasks of one event loop: the end of a session is final. *)

\* Other tasks of the process run only while a handler is awaited, or between
\* governed calls; resumes may wait for the operation lock meanwhile.
Coroutines == ~LiveCancel /\ SwitchSteps \subseteq {"running"}

\* The steps of a call until its handler is invoked.
BeforeHandler ==
  {"intent", "evaluate", "ask", "prompt", "permission", "request_approval", "policy_deny",
   "approve", "sandbox", "sandbox_deny", "launch", "invoke"}

Open == {"running", "waiting_approval"}

\* An operation outside the lock and a governed call are not both under way,
\* but for a call whose handler runs.
OthersWait ==
  fin # "none" \/ leaving => context # "none" /\ op.step \in SwitchSteps \cup {"free"}

\* The session in memory is open until the handler is invoked.
OpenBeforeHandler == Steps(BeforeHandler) => session \in Open

\* The session is reconciled on the way to another step.
ReconcileGoesOn == op.step = "reconcile" => op.next \notin {"free", "reconcile"}

\* A call whose decision a restored context holds still waits, or is being resumed.
HeldCallsWait ==
  context # "none" /\ session \notin TerminalSession =>
    \A c \in CallIds : held[c] \in {"approved", "denied"} =>
      \/ trace.call[c] = "waiting_approval"
      \/ op.step # "free" /\ op.kind = "resume" /\ op.call = c

\* A call that a queued resume is about waits, is being resumed, or is over.
QueuedCallsSettle ==
  session \notin TerminalSession =>
    \A c \in CallIds : queued[c] > 0 =>
      \/ trace.call[c] \in TerminalCall \cup {"waiting_approval"}
      \/ op.step # "free" /\ op.kind = "resume" /\ op.call = c

\* A resumed call starts from the status it was restored with, which may be out
\* of date; every later status of a call in memory is the one in the trace.
RecordedIsCurrent ==
  op.step \notin {"free", "raise"} /\ op.status # "waiting_approval" =>
    trace.call[op.call] = op.status

\* If the session ended and memory does not know it, then the context was left and
\* the run cancelled by another process, and the resumes that were still waiting
\* for the lock are about calls that this process will be refused to move on.
EndIsKnown ==
  trace.session \in TerminalSession /\ session \notin TerminalSession =>
    /\ context = "none"
    /\ \A c \in CallIds :
         queued[c] > 0 \/ (op.step # "free" /\ op.call = c) => trace.call[c] \in TerminalCall

TaskInv ==
  /\ OthersWait
  /\ OpenBeforeHandler
  /\ ReconcileGoesOn
  /\ HeldCallsWait
  /\ QueuedCallsSettle
  /\ RecordedIsCurrent
  /\ EndIsKnown

\* What every step of a governed call has in common: the call goes on or ends,
\* and the other calls are left alone.
CallGoesOn ==
  /\ \A c \in CallIds : held'[c] \in {held[c], Absent}
  /\ \/ op'.step = "free" /\ (op.kind = "resume" => held'[op.call] = Absent)
     \/ op'.step # "free" /\ op'.call = op.call /\ op'.kind = op.kind
  /\ Steps(BeforeHandler)' => Steps(BeforeHandler)
  /\ op'.step = "reconcile" => op'.next \notin {"free", "reconcile"}

\* A step that records no status.
StatusStays ==
  /\ trace'.call = trace.call
  /\ op'.step \in {"free", "raise"} \/ op'.status = op.status

LEMMA ContinueGoesOn ==
  ASSUME IInv, op.step # "free",
         NEW step \in (OpSteps \cup {"return"}) \ {"free", "reconcile"},
         step \in BeforeHandler => Steps(BeforeHandler),
         Continue(step) \/ RaiseError
  PROVE  /\ CallGoesOn
         /\ op'.step \in {"free", "raise"} \/ op'.status = op.status
<1>1. /\ op \in OpTypes /\ op.call \in CallIds
      /\ held \in [CallIds -> ApprovalDecisions \cup {Absent}]
  BY DEF IInv, TypeInv, TypeOK, LocalsAreSet
<1>2. CASE RaiseError
  BY <1>1, <1>2, RaiseMoves DEF CallGoesOn, Steps, BeforeHandler, Moved
<1>3. CASE Continue("return") /\ step = "return"
  <2>1. op.kind = "resume" => held'[op.call] = Absent
    BY <1>1, <1>3 DEF Continue
  <2> QED
    BY <1>1, <1>3, <2>1, ContinueMoves DEF CallGoesOn, Steps, BeforeHandler
<1>4. CASE Continue(step) /\ step # "return"
  <2>1. Moved(step) /\ \A c \in CallIds : held'[c] \in {held[c], Absent}
    BY <1>1, <1>4, ContinueMoves
  <2> QED
    BY <1>4, <2>1 DEF CallGoesOn, Steps, BeforeHandler, Moved
<1> QED
  BY <1>2, <1>3, <1>4

\* A step of the pipeline that records no status, does not touch the session and
\* adds evidence that replay accepts.
LEMMA PlainPipeline ==
  ASSUME IInv, StatusInv, ReconcileGoesOn, Pipeline
  PROVE  \/ RecordToolStatus
         \/ ReconcileSession
         \/ FailCall
         \/ /\ CallGoesOn /\ StatusStays /\ UNCHANGED <<session, pending>>
            /\ trace'.session = trace.session /\ trace'.corrupt = trace.corrupt
            /\ op.step \notin {"free", "raise", "reconcile"} /\ op'.step # "reconcile"
            /\ op'.step = "free" => op.step \in {"request_approval", "facts"}
<1> DEFINE Plain == /\ CallGoesOn /\ StatusStays /\ UNCHANGED <<session, pending>>
                    /\ trace'.session = trace.session /\ trace'.corrupt = trace.corrupt
                    /\ op.step \notin {"free", "raise", "reconcile"} /\ op'.step # "reconcile"
                    /\ op'.step = "free" => op.step \in {"request_approval", "facts"}
<1>1. /\ op \in OpTypes /\ trace \in Traces
      /\ op.step # "free" => op.call \in CallIds
  BY DEF IInv, TypeInv, TypeOK, LocalsAreSet
\* What goes on with Continue or RaiseError.
<1>2. ASSUME NEW here \in {"intent", "permission", "request_approval", "sandbox", "invoke",
                          "result", "facts"},
             At(here),
             NEW step \in {"evaluate", "policy_deny", "request_approval", "approve", "sandbox",
                          "launch", "sandbox_deny", "running", "finish", "return"},
             step \in BeforeHandler => here \in BeforeHandler,
             step = "return" => here \in {"request_approval", "facts"},
             Continue(step) \/ RaiseError,
             UNCHANGED <<session, pending>>,
             trace'.session = trace.session, trace'.corrupt = trace.corrupt,
             trace'.call = trace.call
      PROVE  Plain
  <2>1. op.step = here /\ op.step \notin {"free", "raise", "reconcile"}
    BY <1>2 DEF At
  <2>2. step \in (OpSteps \cup {"return"}) \ {"free", "reconcile"}
    BY <1>2 DEF OpSteps, StatusSteps
  <2>3. step \in BeforeHandler => Steps(BeforeHandler)
    BY <1>2, <2>1 DEF Steps
  <2>4. CallGoesOn /\ (op'.step \in {"free", "raise"} \/ op'.status = op.status)
    BY <1>2, <2>1, <2>2, <2>3, ContinueGoesOn
  <2>5. op'.step # "reconcile" /\ (op'.step = "free" => step = "return")
    BY <1>1, <1>2, IdleType DEF Continue, RaiseError, OpTypes
  <2> QED
    BY <1>2, <2>1, <2>4, <2>5 DEF StatusStays
<1> HIDE DEF Plain
<1>3. CASE RecordIntent
  <2> DEFINE t == ToolIntentRecorded(trace, op.call)
  <2>1. t.session = trace.session /\ t.call = trace.call /\ t.corrupt = trace.corrupt
    BY <1>1 DEF ToolIntentRecorded, Traces
  <2> HIDE DEF t
  <2>2. trace' \in {trace, t}
    BY <1>3 DEF RecordIntent, Append, Raises, t
  <2>3. At("intent") /\ (Continue("evaluate") \/ RaiseError) /\ UNCHANGED <<session, pending>>
    BY <1>3 DEF RecordIntent
  <2>4. "intent" \in BeforeHandler
    BY DEF BeforeHandler
  <2> QED
    BY <1>2, <2>1, <2>2, <2>3, <2>4 DEF Plain
<1>4. ASSUME NEW effect \in {"allow", "ask", "deny"}, NEW hook \in {"allow", "deny"},
             Evaluate(effect, hook)
      PROVE  Plain
  <2>1. /\ op.step = "evaluate" /\ UNCHANGED <<session, pending, trace>>
    BY <1>4 DEF Evaluate, At, Append, Raises
  <2>2. /\ \/ Moved("raise")
           \/ /\ op'.step \in {"ask", "permission"} /\ op'.call = op.call
              /\ op'.kind = op.kind /\ op'.status = op.status
        /\ \A c \in CallIds : held'[c] \in {held[c], Absent}
    BY <1>1, <1>4 DEF Evaluate, RaiseError, Moved, OpTypes
  <2> QED
    BY <2>1, <2>2 DEF Plain, CallGoesOn, StatusStays, Steps, BeforeHandler, Moved
<1>5. ASSUME NEW answer \in {"approve", "deny"}, Prompt(answer)
      PROVE  Plain
  <2>1. /\ op.step = "prompt" /\ UNCHANGED <<session, pending, trace>>
    BY <1>5 DEF Prompt, At, Append, Raises
  <2>2. /\ \/ Moved("raise")
           \/ /\ op'.step = "permission" /\ op'.call = op.call
              /\ op'.kind = op.kind /\ op'.status = op.status
        /\ \A c \in CallIds : held'[c] \in {held[c], Absent}
    BY <1>1, <1>5 DEF Prompt, RaiseError, Moved, OpTypes
  <2> QED
    BY <2>1, <2>2 DEF Plain, CallGoesOn, StatusStays, Steps, BeforeHandler, Moved
<1>6. CASE DecidePermission
  <2> DEFINE p == Permit(op.effect, op.hook, op.response)
             t == PermissionDecided(trace, op.call, p)
  <2>1. t.session = trace.session /\ t.call = trace.call /\ t.corrupt = trace.corrupt
    BY <1>1 DEF PermissionDecided, Traces
  <2>2. p \in Permits
    BY <1>6, PermitType DEF DecidePermission, At, IInv, TypeInv, LocalsAreSet, Steps
  <2>3. AfterPermit(p) \in {"policy_deny", "request_approval", "approve", "sandbox"}
    BY <2>2, AfterPermitType
  <2> HIDE DEF p, t
  <2>4. trace' \in {trace, t}
    BY <1>6 DEF DecidePermission, Append, Raises, p, t
  <2>5. /\ At("permission") /\ (Continue(AfterPermit(p)) \/ RaiseError)
        /\ UNCHANGED <<session, pending>>
    BY <1>6 DEF DecidePermission, p
  <2>6. "permission" \in BeforeHandler
    BY DEF BeforeHandler
  <2> QED
    BY <1>2, <2>1, <2>3, <2>4, <2>5, <2>6 DEF Plain
\* The approval of this call has not been requested before.
<1>7. CASE RequestApproval
  <2> DEFINE t == ApprovalRequested(trace, op.call)
  <2>1. op.step = "request_approval" /\ op.call \in CallIds
    BY <1>1, <1>7 DEF RequestApproval, At
  <2>2. op.kind = "execute" /\ trace.approval[op.call] = Absent
    BY <1>1, <2>1 DEF IInv, OperationIsBound, Steps, OpTypes
  <2>3. trace.call[op.call] # Absent
    BY <2>1, <2>2 DEF StatusInv, StatusIsCurrent, CallStatuses, Absent
  <2>4. t.session = trace.session /\ t.call = trace.call /\ t.corrupt = trace.corrupt
    BY <1>1, <2>2, <2>3 DEF ApprovalRequested, Traces
  <2> HIDE DEF t
  <2>5. trace' \in {trace, t}
    BY <1>7 DEF RequestApproval, Append, Raises, t
  <2>6. At("request_approval") /\ Continue("return") /\ UNCHANGED <<session, pending>>
    BY <1>7 DEF RequestApproval
  <2>7. "return" \notin BeforeHandler
    BY DEF BeforeHandler
  <2> QED
    BY <1>2, <2>4, <2>5, <2>6, <2>7 DEF Plain
<1>8. ASSUME NEW v \in {"allow", "deny"}, CheckSandbox(v) PROVE Plain
  <2> DEFINE t == SandboxDecided(trace, op.call, v)
  <2>1. t.session = trace.session /\ t.call = trace.call /\ t.corrupt = trace.corrupt
    BY <1>1 DEF SandboxDecided, Traces
  <2> HIDE DEF t
  <2>2. trace' \in {trace, t}
    BY <1>8 DEF CheckSandbox, Append, Raises, t
  <2>3. PICK step \in {"launch", "sandbox_deny"} : Continue(step) \/ RaiseError
    BY <1>8 DEF CheckSandbox
  <2>4. At("sandbox") /\ UNCHANGED <<session, pending>>
    BY <1>8 DEF CheckSandbox
  <2>5. "sandbox" \in BeforeHandler
    BY DEF BeforeHandler
  <2> QED
    BY <1>2, <2>1, <2>2, <2>3, <2>4, <2>5 DEF Plain
<1>9. CASE InvokeHandler
  <2>1. At("invoke") /\ Continue("running") /\ UNCHANGED <<session, pending, trace>>
    BY <1>9 DEF InvokeHandler
  <2>2. "running" \notin BeforeHandler
    BY DEF BeforeHandler
  <2> QED
    BY <1>2, <2>1, <2>2 DEF Plain
<1>10. ASSUME NEW r \in {"ok", "error", "exception"}, HandlerReturns(r) PROVE Plain
  <2>1. op.step = "running" /\ UNCHANGED <<session, pending, trace, held>>
    BY <1>10 DEF HandlerReturns, At
  <2>2. /\ op'.step \in {"abort", "result"} /\ op'.call = op.call
        /\ op'.kind = op.kind /\ op'.status = op.status
    BY <1>1, <1>10 DEF HandlerReturns, OpTypes
  <2> QED
    BY <2>1, <2>2 DEF Plain, CallGoesOn, StatusStays, Steps, BeforeHandler
<1>11. CASE RecordResult
  <2>1. /\ At("result") /\ (Continue("finish") \/ RaiseError)
        /\ UNCHANGED <<session, pending, trace>>
    BY <1>11 DEF RecordResult, Append, Raises
  <2>2. "finish" \notin BeforeHandler
    BY DEF BeforeHandler
  <2> QED
    BY <1>2, <2>1, <2>2 DEF Plain
<1>12. CASE RecordFacts
  <2>1. /\ At("facts") /\ (Continue("return") \/ RaiseError)
        /\ UNCHANGED <<session, pending, trace>>
    BY <1>12 DEF RecordFacts, Append, Raises
  <2>2. "return" \notin BeforeHandler
    BY DEF BeforeHandler
  <2> QED
    BY <1>2, <2>1, <2>2 DEF Plain
<1> QED
  BY <1>3, <1>4, <1>5, <1>6, <1>7, <1>8, <1>9, <1>10, <1>11, <1>12 DEF Pipeline, Plain

LEMMA OpenIsNotOver ==
  Open \cap TerminalSession = {} /\ "failed" \notin Open /\ "completed" \notin Open
BY DEF Open, TerminalSession

\* What is remembered of decisions, and of the session, survives such a step.
LEMMA HeldAfterGoing ==
  ASSUME IInv, HeldCallsWait, op.step # "free", CallGoesOn, UNCHANGED context,
         session' \notin TerminalSession => session \notin TerminalSession,
         \A c \in CallIds : c # op.call => trace'.call[c] = trace.call[c]
  PROVE  HeldCallsWait'
<1> SUFFICES ASSUME context' # "none", session' \notin TerminalSession,
                    NEW c \in CallIds, held'[c] \in {"approved", "denied"}
             PROVE  \/ trace'.call[c] = "waiting_approval"
                    \/ op'.step # "free" /\ op'.kind = "resume" /\ op'.call = c
  BY DEF HeldCallsWait
<1>1. held[c] \in {"approved", "denied"} /\ trace.approval[c] = held[c]
  BY DEF CallGoesOn, IInv, DecisionsAreCurrent, Absent
<1>2. \/ trace.call[c] = "waiting_approval"
      \/ op.kind = "resume" /\ op.call = c
  BY <1>1 DEF HeldCallsWait
<1>3. CASE c # op.call
  BY <1>2, <1>3
<1>4. CASE c = op.call
  <2>1. op.kind = "resume"
    BY <1>1, <1>4 DEF IInv, OperationIsBound, TypeInv, TypeOK, OpTypes, Absent
  <2> QED
    BY <1>4, <2>1 DEF CallGoesOn, Absent
<1> QED
  BY <1>3, <1>4

LEMMA QueuedAfterGoing ==
  ASSUME IInv, QueuedCallsSettle, op.step # "free", CallGoesOn, UNCHANGED queued,
         session' \notin TerminalSession => session \notin TerminalSession,
         \A c \in CallIds : c # op.call => trace'.call[c] = trace.call[c],
         op.kind = "resume" /\ op'.step = "free" => trace'.call[op.call] \in TerminalCall
  PROVE  QueuedCallsSettle'
<1> SUFFICES ASSUME session' \notin TerminalSession, NEW c \in CallIds, queued[c] > 0
             PROVE  \/ trace'.call[c] \in TerminalCall \cup {"waiting_approval"}
                    \/ op'.step # "free" /\ op'.kind = "resume" /\ op'.call = c
  BY DEF QueuedCallsSettle
<1>1. CASE c # op.call
  BY <1>1 DEF QueuedCallsSettle
<1>2. CASE c = op.call
  <2>1. op.kind = "resume"
    BY <1>2 DEF IInv, DecisionsAreCurrent, OperationIsBound, TypeInv, TypeOK, OpTypes, Absent
  <2> QED
    BY <1>2, <2>1 DEF CallGoesOn
<1> QED
  BY <1>1, <1>2

\* A step of a governed call that leaves an open session open.
LEMMA TasksGoOn ==
  ASSUME IInv, TaskInv, op.step # "free", CallGoesOn,
         UNCHANGED <<context, queued, fin, leaving>>, fin = "none", ~leaving,
         session' = session \/ (session \in Open /\ session' \in Open),
         \A c \in CallIds : c # op.call => trace'.call[c] = trace.call[c],
         trace.call[op.call] \in TerminalCall => trace'.call[op.call] = trace.call[op.call],
         trace'.session \in TerminalSession => trace.session \in TerminalSession,
         op.kind = "resume" /\ op'.step = "free" => trace'.call[op.call] \in TerminalCall,
         RecordedIsCurrent'
  PROVE  TaskInv'
<1>1. session' \notin TerminalSession <=> session \notin TerminalSession
  BY OpenIsNotOver
<1>2. OthersWait' /\ OpenBeforeHandler' /\ ReconcileGoesOn'
  BY DEF TaskInv, OthersWait, OpenBeforeHandler, ReconcileGoesOn, CallGoesOn
<1>3. HeldCallsWait' /\ QueuedCallsSettle'
  BY <1>1, HeldAfterGoing, QueuedAfterGoing DEF TaskInv
<1>4. EndIsKnown'
  <2> SUFFICES ASSUME trace'.session \in TerminalSession, session' \notin TerminalSession
               PROVE  /\ context' = "none"
                      /\ \A c \in CallIds :
                           queued'[c] > 0 \/ (op'.step # "free" /\ op'.call = c)
                             => trace'.call[c] \in TerminalCall
    BY DEF EndIsKnown
  <2>1. /\ context = "none"
        /\ \A c \in CallIds : queued[c] > 0 \/ op.call = c => trace.call[c] \in TerminalCall
    BY <1>1 DEF TaskInv, EndIsKnown
  <2>2. op'.step # "free" => op'.call = op.call
    BY DEF CallGoesOn
  <2>3. \A c \in CallIds : trace.call[c] \in TerminalCall => trace'.call[c] = trace.call[c]
    OBVIOUS
  <2> QED
    BY <2>1, <2>2, <2>3
<1> QED
  BY <1>2, <1>3, <1>4 DEF TaskInv

\* The pipeline runs while nothing outside the lock is under way.
LEMMA PipelineAlone ==
  ASSUME Coroutines, IInv, Pipeline
  PROVE  /\ op.step # "free" /\ op.call \in CallIds
         /\ fin = "none" /\ ~leaving
         /\ UNCHANGED <<context, queued, fin, leaving>>
<1>1. OpMayRun /\ op.step # "free"
  BY DEF Pipeline, RecordIntent, Evaluate, RecordToolStatus, ReconcileSession, Prompt,
     DecidePermission, RequestApproval, CheckSandbox, InvokeHandler, HandlerReturns,
     RecordResult, RecordFacts, FailCall, At, StatusSteps
<1>2. fin = "none" /\ ~leaving
  BY <1>1 DEF OpMayRun, Coroutines
<1>3. UNCHANGED <<context, queued, fin, leaving>>
  BY DEF Pipeline, RecordIntent, Evaluate, RecordToolStatus, ReconcileSession, Prompt,
     DecidePermission, RequestApproval, CheckSandbox, InvokeHandler, HandlerReturns,
     RecordResult, RecordFacts, FailCall, pipelineOnly
<1> QED
  BY <1>1, <1>2, <1>3 DEF IInv, OperationIsBound

LEMMA OverIsFinal ==
  /\ \A from \in TerminalCall : \A to : ~CallMayBecome(from, to)
  /\ \A from \in TerminalSession : \A to : ~SessionMayBecome(from, to)
BY DEF TerminalCall, CallMayBecome, CallTransitions, TerminalSession, SessionMayBecome,
   SessionTransitions

\* Whatever status a call has in memory, the trace only moves on as the table allows.
LEMMA TasksStatus ==
  ASSUME Coroutines, IInv, TaskInv, RecordToolStatus
  PROVE  CallGoesOn /\ TaskInv'
<1> DEFINE c == op.call
           t == ToolCallStatusChanged(trace, c, NewStatus)
           legal == CallMayBecome(trace.call[c], NewStatus)
<1>1. /\ c \in CallIds /\ op.step \in StatusSteps /\ op.step \notin {"free", "raise", "reconcile"}
      /\ op \in OpTypes /\ trace \in Traces
      /\ held \in [CallIds -> ApprovalDecisions \cup {Absent}]
  BY DEF IInv, TypeInv, TypeOK, LocalsAreSet, RecordToolStatus, StatusSteps
<1>2. NewStatus \in CallStatuses
  BY <1>1, NewStatusType
<1>3. /\ t.session = trace.session
      /\ legal => t.call = [trace.call EXCEPT ![c] = NewStatus]
      /\ ~legal => t.call = trace.call
  BY <1>1, <1>2, CallStatusRows
<1>4. trace.call \in [CallIds -> CallStatuses \cup {Absent}]
  BY <1>1 DEF Traces
<1>5. /\ trace' \in {trace, t}
      /\ UNCHANGED session
      /\ \/ RaiseError
         \/ Continue("return") /\ AfterStatus = "return" /\ trace' = t /\ legal
         \/ /\ trace' = t /\ legal /\ UNCHANGED held
            /\ \/ op' = [op EXCEPT !.step = "reconcile", !.next = AfterStatus, !.status = NewStatus]
               \/ /\ op' = [op EXCEPT !.step = AfterStatus, !.status = NewStatus]
                  /\ AfterStatus # "return"
  BY DEF RecordToolStatus, Append, Raises, Rejects
<1>6. trace.call[c] \in TerminalCall => ~legal
  BY OverIsFinal
<1> HIDE DEF t, legal
<1>7. /\ trace'.session = trace.session
      /\ \A d \in CallIds : d # c => trace'.call[d] = trace.call[d]
      /\ trace.call[c] \in TerminalCall => trace'.call[c] = trace.call[c]
      /\ trace' = t /\ legal => trace'.call[c] = NewStatus
  BY <1>1, <1>3, <1>4, <1>5, <1>6
<1>8. /\ CallGoesOn /\ RecordedIsCurrent'
      /\ op'.step = "free" => trace'.call[c] \in TerminalCall
  <2>1. CASE RaiseError
    <3>1. CallGoesOn
      BY <1>1, <2>1, ContinueGoesOn DEF OpSteps, BeforeHandler
    <3> QED
      BY <1>1, <2>1, <3>1, RaiseMoves DEF RecordedIsCurrent, Moved
  <2>2. CASE Continue("return") /\ AfterStatus = "return" /\ trace' = t /\ legal
    <3>1. CallGoesOn
      BY <1>1, <2>2, ContinueGoesOn DEF BeforeHandler
    <3>2. NewStatus \in TerminalCall
      BY <1>1, <2>2 DEF StatusSteps, AfterStatus, NewStatus, TerminalCall
    <3> QED
      BY <1>1, <1>7, <2>2, <3>1, <3>2, ContinueMoves DEF RecordedIsCurrent
  <2>3. CASE /\ trace' = t /\ legal /\ UNCHANGED held
             /\ \/ op' = [op EXCEPT !.step = "reconcile", !.next = AfterStatus, !.status = NewStatus]
                \/ /\ op' = [op EXCEPT !.step = AfterStatus, !.status = NewStatus]
                   /\ AfterStatus # "return"
    <3>1. /\ op'.call = c /\ op'.kind = op.kind /\ op'.status = NewStatus
          /\ \/ op'.step = "reconcile" /\ op'.next = AfterStatus
             \/ op'.step = AfterStatus
      BY <1>1, <2>3 DEF OpTypes
    <3>2. AfterStatus \notin {"free", "reconcile"}
      BY <1>1, NewStatusType
    <3>3. AfterStatus \in BeforeHandler => op.step \in BeforeHandler
      BY <1>1 DEF StatusSteps, AfterStatus, BeforeHandler
    <3>4. Steps(BeforeHandler)' => Steps(BeforeHandler)
      BY <3>1, <3>2, <3>3 DEF Steps, BeforeHandler
    <3> QED
      BY <1>7, <2>3, <3>1, <3>2, <3>4 DEF CallGoesOn, RecordedIsCurrent
  <2> QED
    BY <1>5, <2>1, <2>2, <2>3
<1>9. /\ op.step # "free" /\ fin = "none" /\ ~leaving
      /\ UNCHANGED <<context, queued, fin, leaving>>
  BY PipelineAlone DEF Pipeline
<1> HIDE DEF c
<1> QED
  BY <1>5, <1>7, <1>8, <1>9, TasksGoOn DEF c

\* An open session stays open; the call that returns here was recorded as over.
LEMMA TasksReconcile ==
  ASSUME Coroutines, IInv, StatusInv, TaskInv, ReconcileSession
  PROVE  CallGoesOn /\ StatusStays /\ TaskInv'
<1> DEFINE s == Reconciled(pending)
           t == SessionStatusChanged(trace, s)
<1>1. /\ op.step = "reconcile" /\ op \in OpTypes /\ trace \in Traces /\ op.call \in CallIds
      /\ op.next \in (OpSteps \cup {"return"}) \ {"free", "reconcile"}
      /\ held \in [CallIds -> ApprovalDecisions \cup {Absent}]
  BY DEF IInv, TypeInv, TypeOK, LocalsAreSet, ReconcileSession, At, OpTypes,
         TaskInv, ReconcileGoesOn
<1>2. s # session => session \in Open /\ s \in Open
  BY DEF Reconciled, Open
<1>3. t.call = trace.call /\ t.session \in {trace.session, s}
  BY <1>1 DEF SessionStatusChanged, Refused, Traces
<1> HIDE DEF s, t
<1>4. \/ s = session /\ UNCHANGED <<session, trace>> /\ Continue(op.next)
      \/ /\ s # session /\ session' = s /\ trace' \in {trace, t}
         /\ RaiseError \/ Continue(op.next)
  BY DEF ReconcileSession, Append, Raises, Rejects, s, t
<1>5. op.next \in BeforeHandler => Steps(BeforeHandler)
  BY <1>1 DEF Steps
<1>6. CallGoesOn /\ StatusStays
  BY <1>1, <1>3, <1>4, <1>5, ContinueGoesOn DEF StatusStays
<1>7. /\ session' = session \/ (session \in Open /\ session' \in Open)
      /\ trace'.call = trace.call
      /\ trace'.session \in TerminalSession => trace.session \in TerminalSession
  BY <1>2, <1>3, <1>4, OpenIsNotOver
<1>8. RecordedIsCurrent'
  BY <1>1, <1>6 DEF TaskInv, RecordedIsCurrent, CallGoesOn, StatusStays
<1>9. op'.step = "free" => trace'.call[op.call] \in TerminalCall
  <2> SUFFICES ASSUME op'.step = "free" PROVE trace'.call[op.call] \in TerminalCall
    OBVIOUS
  <2>1. op.next = "return"
    BY <1>1, <1>4, ContinueMoves, RaiseMoves DEF Moved
  <2>2. op.status \in TerminalCall
    BY <1>1, <2>1 DEF StatusInv, StatusFits, Steps
  <2> QED
    BY <1>1, <1>7, <2>2 DEF TaskInv, RecordedIsCurrent, TerminalCall
<1>10. /\ op.step # "free" /\ fin = "none" /\ ~leaving
       /\ UNCHANGED <<context, queued, fin, leaving>>
  BY PipelineAlone DEF Pipeline
<1> QED
  BY <1>6, <1>7, <1>8, <1>9, <1>10, TasksGoOn

LEMMA TasksPipeline ==
  ASSUME Coroutines, IInv, StatusInv, TaskInv, Pipeline
  PROVE  TaskInv'
<1>1. CASE RecordToolStatus
  BY <1>1, TasksStatus
<1>2. CASE ReconcileSession
  BY <1>2, TasksReconcile
<1>3. /\ op.step # "free" /\ op.call \in CallIds /\ fin = "none" /\ ~leaving
      /\ UNCHANGED <<context, queued, fin, leaving>>
  BY PipelineAlone
<1>4. CASE FailCall
  <2>1. session' \in TerminalSession /\ op'.step = "free"
    BY <1>4, IdleType DEF FailCall, TerminalSession
  <2> QED
    BY <1>3, <2>1 DEF TaskInv, OthersWait, OpenBeforeHandler, ReconcileGoesOn, HeldCallsWait,
       QueuedCallsSettle, RecordedIsCurrent, EndIsKnown, Steps, BeforeHandler
\* A resumed call that returns here has been executed.
<1>5. CASE /\ CallGoesOn /\ StatusStays /\ UNCHANGED session
           /\ trace'.session = trace.session
           /\ op.step \notin {"free", "raise", "reconcile"}
           /\ op'.step = "free" => op.step \in {"request_approval", "facts"}
  <2>1. RecordedIsCurrent'
    BY <1>5 DEF TaskInv, RecordedIsCurrent, CallGoesOn, StatusStays
  <2>2. op.kind = "resume" /\ op'.step = "free" => trace'.call[op.call] \in TerminalCall
    <3> SUFFICES ASSUME op.kind = "resume", op'.step = "free"
                 PROVE  trace'.call[op.call] \in TerminalCall
      OBVIOUS
    <3>1. op.step = "facts"
      BY <1>3, <1>5 DEF IInv, OperationIsBound, Steps
    <3>2. op.status \in {"succeeded", "failed"}
      BY <3>1 DEF StatusInv, StatusFits, Steps
    <3> QED
      BY <1>5, <3>1, <3>2 DEF TaskInv, RecordedIsCurrent, StatusStays, TerminalCall
  <2> QED
    BY <1>3, <1>5, <2>1, <2>2, TasksGoOn DEF StatusStays
<1> QED
  BY <1>1, <1>2, <1>4, <1>5, PlainPipeline DEF TaskInv

\* A session is opened before there is anything to remember, resumed when nothing
\* waits, and left, answered and ended while no governed call is at work.
LEMMA TasksContexts ==
  ASSUME Coroutines, IInv, TaskInv, Contexts \/ Unlocked
  PROVE  TaskInv'
<1> USE DEF memory, outside
<1>1. /\ trace \in Traces /\ op \in OpTypes
      /\ held \in [CallIds -> ApprovalDecisions \cup {Absent}]
      /\ queued \in [CallIds -> Nat]
  BY DEF IInv, TypeInv, TypeOK
<1>2. ASSUME NEW m, OpenSession(m) PROVE TaskInv'
  <2> DEFINE created == SessionCreated(trace)
             started == SessionStatusChanged(created, "running")
  <2>1. /\ context = "none" /\ op.step = "free" /\ trace.session = Absent
        /\ UNCHANGED <<op, held, queued, fin, leaving>>
        /\ context' = "none" \/ session' = "running"
    BY <1>2 DEF OpenSession, IInv, CreationIsFirst
  <2>2. fin = "none" /\ ~leaving
    BY <2>1 DEF TaskInv, OthersWait
  <2>3. created \in Traces /\ created.session = "created" /\ created.call = trace.call
    BY <1>1, SessionCreatedRows DEF SessionCreated, Traces, SameRows
  <2> HIDE DEF created
  <2>4. started.session \in {"created", "running"} /\ started.call = trace.call
    BY <2>3 DEF SessionStatusChanged, Refused, Traces
  <2> HIDE DEF started
  <2>5. trace' \in {trace, created, started}
    BY <1>2 DEF OpenSession, Append, Raises, created, started
  <2>6. trace'.session \notin TerminalSession /\ trace'.call = trace.call
    BY <2>1, <2>3, <2>4, <2>5 DEF TerminalSession, Absent
\* Nothing was decided yet.
  <2>7. \A c \in CallIds : held[c] \notin {"approved", "denied"} /\ ~(queued[c] > 0)
    BY <2>1 DEF IInv, DecisionsAreCurrent, CreationIsFirst, NumbersAreFresh, Absent
  <2> QED
    BY <2>1, <2>2, <2>6, <2>7 DEF TaskInv, OthersWait, OpenBeforeHandler, ReconcileGoesOn,
       HeldCallsWait, QueuedCallsSettle, RecordedIsCurrent, EndIsKnown, Steps, BeforeHandler
<1>3. ASSUME NEW c \in CallIds, NEW m, ResumeRun(c, m) PROVE TaskInv'
  <2>1. /\ context = "none" /\ op.step = "free" /\ UNCHANGED <<trace, op, queued, fin, leaving>>
        /\ trace.session = "waiting_approval"
        /\ \A d \in CallIds : queued[d] = 0
        /\ \A d \in CallIds : held'[d] # Absent => trace.call[d] = "waiting_approval"
    BY <1>3 DEF ResumeRun, Resumable, WaitingCalls
  <2>2. fin = "none" /\ ~leaving
    BY <2>1 DEF TaskInv, OthersWait
  <2> QED
    BY <2>1, <2>2 DEF TaskInv, OthersWait, OpenBeforeHandler, ReconcileGoesOn,
       HeldCallsWait, QueuedCallsSettle, RecordedIsCurrent, EndIsKnown, Steps, BeforeHandler,
       TerminalSession, Absent
\* The session, the calls and the decisions are left alone.
<1>4. ASSUME UNCHANGED <<op, held, session, queued, context>>,
             trace'.session = trace.session, trace'.call = trace.call, OthersWait'
      PROVE  TaskInv'
  BY <1>4 DEF TaskInv, OpenBeforeHandler, ReconcileGoesOn, HeldCallsWait, QueuedCallsSettle,
     RecordedIsCurrent, EndIsKnown, Steps
<1>5. ASSUME NEW how, Exit(how) PROVE TaskInv'
  <2>1. UNCHANGED <<trace, op, held, session, queued, context>>
    BY <1>5 DEF Exit
  <2>2. OthersWait'
    BY <1>5 DEF Exit, TaskMayRun, OthersWait
  <2> QED
    BY <1>4, <2>1, <2>2
\* Memory is kept as long as a call needs it.
<1>6. CASE Leave
  <2>1. /\ context' = "none" /\ ~leaving' /\ fin' = "none" /\ context # "none"
        /\ UNCHANGED <<trace, op, queued>>
        /\ \/ UNCHANGED session
           \/ op.step = "free" /\ \A c \in CallIds : queued[c] = 0
    BY <1>6 DEF Leave, TaskInv, OthersWait
  <2>2. CASE UNCHANGED session
    BY <2>1, <2>2 DEF TaskInv, OthersWait, OpenBeforeHandler, ReconcileGoesOn,
       HeldCallsWait, QueuedCallsSettle, RecordedIsCurrent, EndIsKnown, Steps
  <2>3. CASE op.step = "free" /\ \A c \in CallIds : queued[c] = 0
    BY <2>1, <2>3 DEF TaskInv, OthersWait, OpenBeforeHandler, ReconcileGoesOn,
       HeldCallsWait, QueuedCallsSettle, RecordedIsCurrent, EndIsKnown, Steps, BeforeHandler
  <2> QED
    BY <2>1, <2>2, <2>3
<1>7. ASSUME NEW v \in {"verified", "unsupported"}, SubmitAnswer(v) PROVE TaskInv'
  <2> DEFINE t == GroundguardChecked(trace, v)
  <2>1. t.session = trace.session /\ t.call = trace.call
    BY <1>1 DEF GroundguardChecked, Traces
  <2> HIDE DEF t
  <2>2. /\ trace' \in {trace, t} /\ UNCHANGED <<op, held, session, queued, context>>
    BY <1>7 DEF SubmitAnswer, Append, Raises, t
  <2>3. OthersWait'
    BY <1>7 DEF SubmitAnswer, TaskMayRun, OthersWait
  <2> QED
    BY <1>4, <2>1, <2>2, <2>3
<1>8. CASE TimeOut
  <2>1. UNCHANGED <<trace, op, held, session, queued, context>>
    BY <1>8 DEF TimeOut
  <2>2. OthersWait'
    BY <1>8 DEF TimeOut, TaskMayRun, OthersWait
  <2> QED
    BY <1>4, <2>1, <2>2
\* No call but one whose handler runs is in progress, and memory knows of the end
\* before the trace does.
<1>9. CASE FinishSession
  <2>1. /\ context # "none" /\ op.step \in {"free", "running"}
        /\ UNCHANGED <<op, held, queued, context, leaving>> /\ fin' = "none"
        /\ Target \in TerminalSession
    BY <1>9 DEF FinishSession, Target, TaskInv, OthersWait, Coroutines, IInv, TypeInv, TypeOK,
       TerminalSession
  <2>2. OthersWait'
    BY <2>1 DEF TaskInv, OthersWait
  <2>3. CASE UNCHANGED <<session, trace>>
    BY <1>4, <2>1, <2>2, <2>3
  <2>4. CASE /\ session' = Target
             /\ trace' \in {trace, SessionStatusChanged(trace, Target)}
    <3>1. trace'.call = trace.call
      BY <1>1, <2>4 DEF SessionStatusChanged, Refused, Traces
    <3> QED
      BY <2>1, <2>2, <2>4, <3>1 DEF TaskInv, OpenBeforeHandler, ReconcileGoesOn,
         HeldCallsWait, QueuedCallsSettle, RecordedIsCurrent, EndIsKnown, Steps, BeforeHandler
  <2>5. \/ UNCHANGED <<session, trace>>
        \/ /\ session' = Target
           /\ trace' \in {trace, SessionStatusChanged(trace, Target)}
    BY <1>9 DEF FinishSession, Append, Raises
  <2> QED
    BY <2>3, <2>4, <2>5
<1> QED
  BY <1>2, <1>3, <1>5, <1>6, <1>7, <1>8, <1>9 DEF Contexts, Unlocked

\* What is queued still waits or is being resumed; a call only starts in a session
\* that is open in memory.
LEMMA TasksStarts ==
  ASSUME Coroutines, IInv, StatusInv', TaskInv, Starts
  PROVE  TaskInv'
<1> USE DEF memory, outside
<1>1. trace \in Traces /\ op \in OpTypes /\ queued \in [CallIds -> Nat]
  BY DEF IInv, TypeInv, TypeOK
<1>2. CASE Execute
  <2> DEFINE c == sequence + 1
             t == ToolCallRequested(trace, c)
  <2>1. /\ c \in CallIds /\ op.step = "free" /\ context # "none" /\ session \in Open
        /\ fin = "none" /\ ~leaving
        /\ UNCHANGED <<context, session, held, queued, fin, leaving>>
    BY <1>2, BoundsAssumption
       DEF Execute, TaskMayRun, AcceptsCalls, Open, IInv, TypeInv, TypeOK
  <2>2. trace.call[c] = Absent
    BY <2>1, NextCallIsNew
  <2>3. t = [trace EXCEPT !.call[c] = "requested"]
    BY <2>2 DEF ToolCallRequested
  <2>4. /\ t.session = trace.session
        /\ \A d \in CallIds : d # c => t.call[d] = trace.call[d]
    BY <1>1, <2>3 DEF Traces
  <2> HIDE DEF t
  <2>5. trace' \in {trace, t}
    BY <1>2 DEF Execute, Append, Raises, t
  <2>6. \/ UNCHANGED op
        \/ op'.step = "intent" /\ op'.kind = "execute"
    BY <1>2, <2>1, BeganType, "requested" \in CallStatuses DEF Execute, CallStatuses
  <2>7. trace'.session = trace.session /\ \A d \in CallIds : d # c => trace'.call[d] = trace.call[d]
    BY <2>4, <2>5
  <2>8. session \notin TerminalSession /\ trace.session \notin TerminalSession
    BY <2>1, OpenIsNotOver DEF TaskInv, EndIsKnown
  <2>9. /\ held[c] \in {"approved", "denied"} => FALSE
        /\ ~(queued[c] > 0)
    BY <2>1, <2>2, <2>8 DEF TaskInv, HeldCallsWait, QueuedCallsSettle, Absent, TerminalCall
  <2>10. HeldCallsWait' /\ QueuedCallsSettle'
    BY <2>1, <2>7, <2>8, <2>9 DEF TaskInv, HeldCallsWait, QueuedCallsSettle
  <2>11. RecordedIsCurrent'
    BY <2>1, <2>6 DEF RecordedIsCurrent, StatusInv, StatusIsCurrent
  <2> QED
    BY <2>1, <2>6, <2>7, <2>8, <2>10, <2>11
       DEF TaskInv, OthersWait, OpenBeforeHandler, ReconcileGoesOn, EndIsKnown, Steps
<1>3. ASSUME NEW c \in CallIds, ResumeCall(c) PROVE TaskInv'
  <2>1. /\ op.step = "free" /\ context # "none" /\ session = "waiting_approval"
        /\ held[c] \in {"approved", "denied"} /\ fin = "none" /\ ~leaving
        /\ UNCHANGED <<trace, context, session, held, queued, fin, leaving>>
    BY <1>3 DEF ResumeCall, MayResume, TaskMayRun
  <2>2. /\ op'.step = "intent" /\ op'.call = c /\ op'.kind = "resume"
        /\ op'.status = "waiting_approval"
    BY <1>3, ResponseType, BeganType, "waiting_approval" \in CallStatuses
       DEF ResumeCall, CallStatuses
  <2> QED
    BY <2>1, <2>2 DEF TaskInv, OthersWait, OpenBeforeHandler, ReconcileGoesOn, HeldCallsWait,
       QueuedCallsSettle, RecordedIsCurrent, EndIsKnown, Steps, Open, TerminalSession
<1>4. ASSUME NEW c \in CallIds, QueueResume(c) PROVE TaskInv'
  <2>1. /\ context # "none" /\ held[c] \in {"approved", "denied"}
        /\ UNCHANGED <<trace, context, session, held, op, fin, leaving>>
        /\ \A d \in CallIds : d # c => queued'[d] = queued[d]
    BY <1>1, <1>4 DEF QueueResume, MayResume
  <2>2. QueuedCallsSettle'
    BY <2>1 DEF TaskInv, HeldCallsWait, QueuedCallsSettle
  <2> QED
    BY <2>1, <2>2 DEF TaskInv, OthersWait, OpenBeforeHandler, ReconcileGoesOn, HeldCallsWait,
       RecordedIsCurrent, EndIsKnown, Steps
<1>5. ASSUME NEW c \in CallIds, DequeueResume(c) PROVE TaskInv'
  <2>1. /\ op.step = "free" /\ fin = "none" /\ ~leaving /\ queued[c] > 0
        /\ UNCHANGED <<trace, context, session, held, fin, leaving>>
        /\ \A d \in CallIds : queued'[d] > 0 => queued[d] > 0
    BY <1>1, <1>5 DEF DequeueResume, TaskMayRun
  <2>2. \/ UNCHANGED op
        \/ /\ session = "waiting_approval"
           /\ op'.step = "intent" /\ op'.call = c /\ op'.kind = "resume"
           /\ op'.status = "waiting_approval"
    BY <1>5, ResponseType, BeganType, "waiting_approval" \in CallStatuses
       DEF DequeueResume, CallStatuses
  <2> QED
    BY <2>1, <2>2 DEF TaskInv, OthersWait, OpenBeforeHandler, ReconcileGoesOn, HeldCallsWait,
       QueuedCallsSettle, RecordedIsCurrent, EndIsKnown, Steps, Open
<1> QED
  BY <1>2, <1>3, <1>4, <1>5 DEF Starts

\* People decide pending approvals; a cancelled run leaves no call waiting; a crash
\* leaves nothing in memory.
LEMMA TasksEnvironment ==
  ASSUME Coroutines, IInv, TaskInv, Environment
  PROVE  TaskInv'
<1> USE DEF outside, sessionOnly, memory
<1>1. trace \in Traces
  BY DEF IInv, TypeInv, TypeOK
<1>2. ASSUME UNCHANGED <<op, held, session, queued, context, fin, leaving>>,
             trace'.session = trace.session, trace'.call = trace.call
      PROVE  TaskInv'
  BY <1>2 DEF TaskInv, OthersWait, OpenBeforeHandler, ReconcileGoesOn, HeldCallsWait,
     QueuedCallsSettle, RecordedIsCurrent, EndIsKnown, Steps
<1>3. ASSUME NEW c \in CallIds, Expire(c) PROVE TaskInv'
  BY <1>2, <1>3 DEF Expire
<1>4. ASSUME NEW c \in CallIds, NEW d \in Approvers, Decide(c, d) PROVE TaskInv'
  <2> DEFINE decision == IF c \in expired THEN "denied" ELSE d
  <2>1. /\ trace' = [trace EXCEPT !.approval[c] = decision]
        /\ UNCHANGED <<op, held, session, queued, context, fin, leaving>>
    BY <1>4 DEF Decide, Append, ApprovalDecided
  <2> QED
    BY <1>1, <1>2, <2>1 DEF Traces
<1>5. CASE CancelRun
  <2>1. /\ context = "none" /\ op.step = "free" /\ trace.session \notin TerminalSession
        /\ UNCHANGED <<op, held, session, queued, context, fin, leaving>>
    BY <1>5 DEF CancelRun, Coroutines
  <2>2. PICK calls \in SUBSET WaitingCalls(trace) :
          /\ trace'.call = [c \in CallIds |-> IF c \in calls THEN "policy_denied" ELSE trace.call[c]]
          /\ trace'.session = trace.session \/ calls = WaitingCalls(trace)
    BY <1>1, <1>5 DEF CancelRun, Append, CancelledPart, Traces
  <2>3. \A c \in CallIds : trace.call[c] \in TerminalCall \cup {"waiting_approval"} =>
          /\ trace'.call[c] \in TerminalCall \cup {"waiting_approval"}
          /\ trace'.session # trace.session => trace'.call[c] \in TerminalCall
    BY <2>2 DEF WaitingCalls, TerminalCall
  <2>4. QueuedCallsSettle' /\ EndIsKnown'
    BY <2>1, <2>3 DEF TaskInv, QueuedCallsSettle, EndIsKnown
  <2> QED
    BY <2>1, <2>4 DEF TaskInv, OthersWait, OpenBeforeHandler, ReconcileGoesOn, HeldCallsWait,
       RecordedIsCurrent, Steps, BeforeHandler
<1>6. CASE Crash
  <2>1. /\ context' = "none" /\ op'.step = "free" /\ fin' = "none" /\ ~leaving'
        /\ \A c \in CallIds : queued'[c] = 0
    BY <1>6, IdleType DEF Crash
  <2> QED
    BY <2>1 DEF TaskInv, OthersWait, OpenBeforeHandler, ReconcileGoesOn, HeldCallsWait,
       QueuedCallsSettle, RecordedIsCurrent, EndIsKnown, Steps, BeforeHandler
<1> QED
  BY <1>3, <1>4, <1>5, <1>6 DEF Environment

LEMMA TasksInit == Init => TaskInv
BY IdleType DEF Init, EmptyTrace, TaskInv, OthersWait, OpenBeforeHandler, ReconcileGoesOn,
   HeldCallsWait, QueuedCallsSettle, RecordedIsCurrent, EndIsKnown, Steps, BeforeHandler,
   TerminalSession, Absent

LEMMA TasksStep ==
  ASSUME Coroutines, IInv, StatusInv, StatusInv', TaskInv, [Next]_vars
  PROVE  TaskInv'
<1>1. CASE UNCHANGED vars
  <2>1. UNCHANGED <<trace, op, held, session, queued, context, fin, leaving>>
    BY <1>1 DEF vars
  <2> QED
    BY <2>1 DEF TaskInv, OthersWait, OpenBeforeHandler, ReconcileGoesOn, HeldCallsWait,
       QueuedCallsSettle, RecordedIsCurrent, EndIsKnown, Steps
<1> QED
  BY <1>1, TasksContexts, TasksStarts, TasksPipeline, TasksEnvironment DEF Next

LEMMA TasksAlways ==
  ASSUME Coroutines
  PROVE  Spec => []TaskInv
<1>1. Init => TaskInv
  BY TasksInit
<1>2. IInv /\ StatusInv /\ StatusInv' /\ TaskInv /\ [Next]_vars => TaskInv'
  BY TasksStep
<1>3. Spec => []StatusInv
  BY StatusAlways DEF Coroutines
<1> QED
  BY <1>1, <1>2, <1>3, IInvAlways, PTL DEF Spec

\* No handler is invoked once the trace says that the session has ended, however
\* many tasks of one event loop use the session and whoever cancels the run after
\* it was left: memory knows that it is over, or the call cannot become executing.
THEOREM NoEffectOnceEnded ==
  ASSUME Coroutines
  PROVE  Spec => NoEffectAfterEnd
<1> DEFINE A == ran' # ran => trace.session \notin TerminalSession
<1>1. IInv /\ TaskInv /\ [Next]_vars => [A]_vars
  <2> SUFFICES ASSUME IInv, TaskInv, Next, ran' # ran, trace.session \in TerminalSession
               PROVE  FALSE
    OBVIOUS
  <2>1. InvokeHandler
    BY OnlyInvocationsRun
  <2>2. op.step = "invoke" /\ op.call \in CallIds
    BY <2>1 DEF InvokeHandler, At, IInv, OperationIsBound
  <2>3. session \notin TerminalSession
    BY <2>2, OpenIsNotOver DEF TaskInv, OpenBeforeHandler, Steps, BeforeHandler
  <2>4. trace.call[op.call] \in TerminalCall
    BY <2>2, <2>3 DEF TaskInv, EndIsKnown
  <2>5. trace.call[op.call] = "executing"
    BY <2>2 DEF IInv, GrantIsRecorded, Steps
  <2> QED
    BY <2>4, <2>5 DEF TerminalCall
<1> QED
  BY <1>1, IInvAlways, TasksAlways, PTL DEF Spec, NoEffectAfterEnd

-----------------------------------------------------------------------------
(* One operation at a time: legal histories. *)

\* The callers of a session wait for each other: no resume waits for the lock
\* while a handler is awaited.
OneByOne == Coroutines /\ (SwitchSteps # {} => MaxQueued = 0)

\* Some process has the session in memory and may still write about it.
Live == context # "none" \/ op.step # "free"

NoneQueued == \A c \in CallIds : queued[c] = 0

\* The session in memory is the one in the trace as long as it is open; after an
\* append that raised, only that it is open in both.
SessionIsCurrent ==
  Live =>
    /\ session \in Open \cup TerminalSession
    /\ session \notin TerminalSession =>
         /\ trace.session \in Open
         /\ op.step # "raise" => session = trace.session

\* The status of the call in progress is the one in the trace, that of a resumed
\* call too.
CallIsCurrent ==
  op.step \notin {"free", "raise"} => trace.call[op.call] = op.status

SerialInv ==
  /\ TraceStaysLegal
  /\ NoneQueued
  /\ SessionIsCurrent
  /\ CallIsCurrent

LEMMA SessionStays ==
  ASSUME SessionIsCurrent, Live' => Live, UNCHANGED session, trace'.session = trace.session,
         op.step = "raise" => op'.step = "raise"
  PROVE  SessionIsCurrent'
BY DEF SessionIsCurrent

LEMMA NoneQueuedStays ==
  ASSUME OneByOne, IInv, SerialInv, Pipeline
  PROVE  /\ op.step # "free" /\ op.call \in CallIds
         /\ UNCHANGED context /\ NoneQueued'
BY PipelineAlone DEF OneByOne, SerialInv, NoneQueued

\* The trace accepts the status, as the call has the status that the trace says.
LEMMA SerialStatus ==
  ASSUME OneByOne, IInv, TaskInv, SerialInv, RecordToolStatus
  PROVE  SerialInv'
<1> DEFINE c == op.call
           t == ToolCallStatusChanged(trace, c, NewStatus)
           moves == CallMayBecome(op.status, NewStatus)
<1>1. /\ c \in CallIds /\ op.step \in StatusSteps /\ op.step \notin {"free", "raise", "reconcile"}
      /\ op \in OpTypes /\ trace \in Traces
      /\ held \in [CallIds -> ApprovalDecisions \cup {Absent}]
  BY DEF IInv, TypeInv, TypeOK, LocalsAreSet, RecordToolStatus, StatusSteps
<1>2. NewStatus \in CallStatuses
  BY <1>1, NewStatusType
<1>3. trace.call[c] = op.status
  BY <1>1 DEF SerialInv, CallIsCurrent
<1>4. moves => t = [trace EXCEPT !.call[c] = NewStatus]
  BY <1>3 DEF ToolCallStatusChanged
<1>5. /\ t.session = trace.session
      /\ moves => /\ t.corrupt = trace.corrupt
                  /\ t.call[c] = NewStatus
                  /\ \A d \in CallIds : d # c => t.call[d] = trace.call[d]
  BY <1>1, <1>2, <1>4, CallStatusRows DEF Traces
<1> HIDE DEF t
<1>6. /\ trace' = trace \/ (moves /\ trace' = t)
      /\ UNCHANGED session
      /\ \/ RaiseError
         \/ Continue("return")
         \/ /\ trace' = t /\ moves /\ UNCHANGED held
            /\ \/ op' = [op EXCEPT !.step = "reconcile", !.next = AfterStatus, !.status = NewStatus]
               \/ /\ op' = [op EXCEPT !.step = AfterStatus, !.status = NewStatus]
                  /\ AfterStatus # "return"
  BY <1>3 DEF RecordToolStatus, Append, Raises, Rejects, t
<1>7. /\ ~trace'.corrupt /\ trace'.session = trace.session
      /\ \A d \in CallIds : d # c => trace'.call[d] = trace.call[d]
  BY <1>5, <1>6 DEF SerialInv, TraceStaysLegal
<1>8. CallGoesOn
  BY TasksStatus DEF OneByOne
<1>9. CallIsCurrent'
  <2>1. CASE RaiseError
    BY <1>1, <2>1, RaiseMoves DEF CallIsCurrent, Moved
  <2>2. CASE Continue("return")
    BY <1>1, <2>2, ContinueMoves DEF CallIsCurrent
  <2>3. CASE /\ trace' = t /\ moves /\ UNCHANGED held
             /\ \/ op' = [op EXCEPT !.step = "reconcile", !.next = AfterStatus, !.status = NewStatus]
                \/ /\ op' = [op EXCEPT !.step = AfterStatus, !.status = NewStatus]
                   /\ AfterStatus # "return"
    <3>1. op'.call = c /\ op'.status = NewStatus
      BY <1>1, <2>3 DEF OpTypes
    <3> QED
      BY <1>5, <2>3, <3>1 DEF CallIsCurrent
  <2> QED
    BY <1>6, <2>1, <2>2, <2>3
<1>10. UNCHANGED context /\ NoneQueued'
  BY NoneQueuedStays DEF Pipeline
<1>11. SessionIsCurrent'
  BY <1>1, <1>6, <1>7, <1>8, <1>10, SessionStays DEF SerialInv, CallGoesOn, Live
<1> QED
  BY <1>7, <1>9, <1>10, <1>11 DEF SerialInv, TraceStaysLegal

\* The trace accepts the session's new status, as both say that it is open.
LEMMA SerialReconcile ==
  ASSUME OneByOne, IInv, StatusInv, TaskInv, SerialInv, ReconcileSession
  PROVE  SerialInv'
<1> DEFINE s == Reconciled(pending)
           t == SessionStatusChanged(trace, s)
<1>1. /\ op.step = "reconcile" /\ op \in OpTypes /\ trace \in Traces /\ op.call \in CallIds
      /\ op.next \in (OpSteps \cup {"return"}) \ {"free", "reconcile"}
      /\ held \in [CallIds -> ApprovalDecisions \cup {Absent}]
  BY DEF IInv, TypeInv, TypeOK, LocalsAreSet, ReconcileSession, At, OpTypes,
         TaskInv, ReconcileGoesOn
<1>2. s # session => session \in Open /\ s \in Open /\ SessionMayBecome(session, s)
  BY DEF Reconciled, Open, SessionMayBecome, SessionTransitions
<1>3. /\ session \in Open \cup TerminalSession
      /\ session \notin TerminalSession => session = trace.session /\ trace.session \in Open
  BY <1>1 DEF SerialInv, SessionIsCurrent, Live
<1>4. Open \cap TerminalSession = {}
  BY DEF Open, TerminalSession
<1>5. s # session => t = [trace EXCEPT !.session = s]
  BY <1>2, <1>3, <1>4 DEF SessionStatusChanged
<1>6. s # session => /\ t.session = s /\ t.corrupt = trace.corrupt /\ t.call = trace.call
  BY <1>1, <1>5 DEF Traces
<1> HIDE DEF s, t
<1>7. /\ \/ s = session /\ UNCHANGED <<session, trace>> /\ Continue(op.next)
         \/ /\ s # session /\ session' = s /\ trace' \in {trace, t}
            /\ RaiseError \/ (trace' = t /\ Continue(op.next))
  BY <1>2, <1>3, <1>4 DEF ReconcileSession, Append, Raises, Rejects, s, t
<1>9. CallGoesOn /\ StatusStays
  BY TasksReconcile DEF OneByOne
<1>10. CallIsCurrent'
  BY <1>1, <1>9 DEF SerialInv, CallIsCurrent, CallGoesOn, StatusStays
<1>11. ~trace'.corrupt
  BY <1>6, <1>7 DEF SerialInv, TraceStaysLegal
<1>12. UNCHANGED context /\ NoneQueued'
  BY NoneQueuedStays DEF Pipeline
<1>13. SessionIsCurrent'
  <2>1. CASE s = session
    BY <1>3, <1>4, <1>7, <1>9, <2>1 DEF SessionIsCurrent, CallGoesOn
  <2>2. CASE s # session /\ RaiseError
    <3>1. op'.step = "raise" /\ trace'.session \in Open /\ session' \in Open
      BY <1>1, <1>2, <1>3, <1>4, <1>6, <1>7, <2>2, RaiseMoves DEF Moved
    <3> QED
      BY <3>1 DEF SessionIsCurrent
  <2>3. CASE s # session /\ trace' = t
    BY <1>2, <1>4, <1>6, <1>7, <2>3 DEF SessionIsCurrent
  <2> QED
    BY <1>7, <2>1, <2>2, <2>3
<1> QED
  BY <1>10, <1>11, <1>12, <1>13 DEF SerialInv, TraceStaysLegal

LEMMA SerialPipeline ==
  ASSUME OneByOne, IInv, StatusInv, TaskInv, SerialInv, Pipeline
  PROVE  SerialInv'
<1>1. CASE RecordToolStatus
  BY <1>1, SerialStatus
<1>2. CASE ReconcileSession
  BY <1>2, SerialReconcile
<1>3. /\ op.step # "free" /\ op.call \in CallIds
      /\ UNCHANGED context /\ NoneQueued'
  BY NoneQueuedStays
\* A session that is open in memory is open in the trace, and fails in both.
<1>4. CASE FailCall
  <2> DEFINE t == SessionStatusChanged(trace, "failed")
  <2>1. trace \in Traces
    BY DEF IInv, TypeInv, TypeOK
  <2>2. session \notin TerminalSession => trace.session \in Open
    BY <1>3 DEF SerialInv, SessionIsCurrent, Live
  <2>3. trace.session \in Open => SessionMayBecome(trace.session, "failed")
    BY DEF Open, SessionMayBecome, SessionTransitions
  <2>4. session \notin TerminalSession => t.corrupt = trace.corrupt /\ t.call = trace.call
    BY <2>1, <2>2, <2>3 DEF SessionStatusChanged, Traces
  <2> HIDE DEF t
  <2>5. /\ session' \in TerminalSession /\ op'.step = "free" /\ UNCHANGED held
        /\ trace' = trace \/ (session \notin TerminalSession /\ trace' = t)
    BY <1>4, IdleType DEF FailCall, Append, Raises, TerminalSession, t
  <2>6. ~trace'.corrupt
    BY <2>4, <2>5 DEF SerialInv, TraceStaysLegal
  <2>7. SessionIsCurrent' /\ CallIsCurrent'
    BY <2>5 DEF SessionIsCurrent, CallIsCurrent
  <2> QED
    BY <1>3, <2>6, <2>7 DEF SerialInv, TraceStaysLegal
<1>5. CASE /\ CallGoesOn /\ StatusStays /\ UNCHANGED session
           /\ trace'.session = trace.session /\ trace'.corrupt = trace.corrupt
           /\ op.step \notin {"free", "raise", "reconcile"}
  <2>1. CallIsCurrent'
    BY <1>5 DEF SerialInv, CallIsCurrent, CallGoesOn, StatusStays
  <2>2. SessionIsCurrent'
    BY <1>3, <1>5, SessionStays DEF SerialInv, CallGoesOn, Live
  <2> QED
    BY <1>3, <1>5, <2>1, <2>2 DEF SerialInv, TraceStaysLegal
<1> QED
  BY <1>1, <1>2, <1>4, <1>5, PlainPipeline DEF TaskInv

\* A session is opened before there is anything to disagree with, resumed from the
\* trace, and left, answered and ended while no governed call is at work.
LEMMA SerialContexts ==
  ASSUME OneByOne, IInv, TaskInv, SerialInv, Contexts \/ Unlocked
  PROVE  SerialInv'
<1> USE DEF memory, outside
<1>1. /\ trace \in Traces /\ op \in OpTypes
      /\ held \in [CallIds -> ApprovalDecisions \cup {Absent}]
  BY DEF IInv, TypeInv, TypeOK
<1>2. Open \cap TerminalSession = {}
  BY DEF Open, TerminalSession
<1>3. ASSUME NEW m, OpenSession(m) PROVE SerialInv'
  <2> DEFINE created == SessionCreated(trace)
             started == SessionStatusChanged(created, "running")
  <2>1. /\ context = "none" /\ op.step = "free" /\ trace.session = Absent
        /\ UNCHANGED <<op, held, queued, fin, leaving>>
    BY <1>3 DEF OpenSession, IInv, CreationIsFirst
  <2>2. /\ created \in Traces /\ created.session = "created"
        /\ created.call = trace.call /\ created.corrupt = trace.corrupt
    BY <1>1, SessionCreatedRows DEF SessionCreated, Traces, SameRows
  <2>3. SessionMayBecome("created", "running")
    BY DEF SessionMayBecome, SessionTransitions
  <2> HIDE DEF created
  <2>4. started = [created EXCEPT !.session = "running"]
    BY <2>2, <2>3 DEF SessionStatusChanged
  <2>5. /\ started.session = "running"
        /\ started.call = trace.call /\ started.corrupt = trace.corrupt
    BY <2>2, <2>4 DEF Traces
  <2> HIDE DEF started
  <2>6. /\ trace' \in {trace, created, started}
        /\ \/ context' = "none"
           \/ session' = "running" /\ trace' = started
    BY <1>3, <2>1 DEF OpenSession, Append, Raises, created, started
  <2>7. TraceStaysLegal' /\ NoneQueued'
    BY <2>1, <2>2, <2>5, <2>6 DEF SerialInv, TraceStaysLegal, NoneQueued
  <2>8. SessionIsCurrent' /\ CallIsCurrent'
    BY <2>1, <2>5, <2>6 DEF SessionIsCurrent, CallIsCurrent, Live, Open
  <2> QED
    BY <2>7, <2>8 DEF SerialInv
<1>4. ASSUME NEW c \in CallIds, NEW m, ResumeRun(c, m) PROVE SerialInv'
  <2>1. /\ context = "none" /\ op.step = "free" /\ UNCHANGED <<trace, op, queued, fin, leaving>>
        /\ session' = "waiting_approval" /\ trace.session = "waiting_approval"
    BY <1>4 DEF ResumeRun, Resumable
  <2> QED
    BY <2>1 DEF SerialInv, TraceStaysLegal, NoneQueued, SessionIsCurrent, CallIsCurrent, Open
\* The session and the calls are left alone.
<1>5. ASSUME UNCHANGED <<op, session, queued, context>>,
             trace'.session = trace.session, trace'.call = trace.call,
             trace'.corrupt = trace.corrupt
      PROVE  SerialInv'
  BY <1>5 DEF SerialInv, TraceStaysLegal, NoneQueued, SessionIsCurrent, CallIsCurrent, Live
<1>6. ASSUME NEW how, Exit(how) PROVE SerialInv'
  <2>1. UNCHANGED <<trace, op, session, queued, context>>
    BY <1>6 DEF Exit
  <2> QED
    BY <1>5, <2>1
<1>7. CASE Leave
  <2>1. /\ context' = "none" /\ UNCHANGED <<trace, op, queued>>
        /\ op.step = "free" \/ UNCHANGED session
    BY <1>7 DEF Leave
  <2> QED
    BY <2>1 DEF SerialInv, TraceStaysLegal, NoneQueued, SessionIsCurrent, CallIsCurrent, Live
<1>8. ASSUME NEW v \in {"verified", "unsupported"}, SubmitAnswer(v) PROVE SerialInv'
  <2> DEFINE t == GroundguardChecked(trace, v)
  <2>1. t.session = trace.session /\ t.call = trace.call /\ t.corrupt = trace.corrupt
    BY <1>1 DEF GroundguardChecked, Traces
  <2> HIDE DEF t
  <2>2. /\ trace' \in {trace, t} /\ UNCHANGED <<op, session, queued, context>>
    BY <1>8 DEF SubmitAnswer, Append, Raises, t
  <2> QED
    BY <1>5, <2>1, <2>2
<1>9. CASE TimeOut
  <2>1. UNCHANGED <<trace, op, session, queued, context>>
    BY <1>9 DEF TimeOut
  <2> QED
    BY <1>5, <2>1
\* No call but one whose handler runs is in progress, so that memory and trace
\* agree on the session that ends.
<1>10. CASE FinishSession
  <2> DEFINE t == SessionStatusChanged(trace, Target)
  <2>1. /\ context # "none" /\ op.step \in {"free", "running"}
        /\ UNCHANGED <<op, queued, context>>
        /\ Target \in {"completed", "failed"}
    BY <1>10 DEF FinishSession, Target, TaskInv, OthersWait, OneByOne, Coroutines, IInv, TypeInv,
       TypeOK
  <2>3. CASE UNCHANGED <<session, trace>>
    BY <1>5, <2>1, <2>3
  <2>4. CASE /\ SessionMayBecome(session, Target) /\ session' = Target
             /\ trace' \in {trace, t}
    <3>1. session \notin TerminalSession
      BY <2>4 DEF SessionMayBecome, SessionTransitions, TerminalSession
    <3>2. session = trace.session
      BY <2>1, <3>1 DEF SerialInv, SessionIsCurrent, Live
    <3>3. t.corrupt = trace.corrupt /\ t.call = trace.call
      BY <1>1, <2>4, <3>2 DEF SessionStatusChanged, Traces
    <3> HIDE DEF t
    <3>4. ~trace'.corrupt /\ trace'.call = trace.call /\ session' \in TerminalSession
      BY <2>1, <2>4, <3>3 DEF SerialInv, TraceStaysLegal, TerminalSession
    <3>5. TraceStaysLegal' /\ NoneQueued'
      BY <2>1, <3>4 DEF SerialInv, TraceStaysLegal, NoneQueued
    <3>6. SessionIsCurrent' /\ CallIsCurrent'
      BY <2>1, <3>4 DEF SerialInv, SessionIsCurrent, CallIsCurrent
    <3> QED
      BY <3>5, <3>6 DEF SerialInv
  <2>5. \/ UNCHANGED <<session, trace>>
        \/ /\ SessionMayBecome(session, Target) /\ session' = Target
           /\ trace' \in {trace, t}
    BY <1>10 DEF FinishSession, Append, Raises
  <2> QED
    BY <2>3, <2>4, <2>5
<1> QED
  BY <1>3, <1>4, <1>6, <1>7, <1>8, <1>9, <1>10 DEF Contexts, Unlocked

\* A new call has a new number; a resumed one still waits, as nothing moved it on
\* since the run was resumed.
LEMMA SerialStarts ==
  ASSUME OneByOne, IInv, StatusInv', TaskInv, SerialInv, Starts
  PROVE  SerialInv'
<1> USE DEF memory, outside
<1>1. trace \in Traces /\ op \in OpTypes
  BY DEF IInv, TypeInv, TypeOK
<1>2. Open \cap TerminalSession = {}
  BY DEF Open, TerminalSession
<1>3. CASE Execute
  <2> DEFINE c == sequence + 1
             t == ToolCallRequested(trace, c)
  <2>1. /\ c \in CallIds /\ op.step = "free" /\ context # "none" /\ session \in Open
        /\ UNCHANGED <<context, session, queued>>
    BY <1>3, BoundsAssumption
       DEF Execute, TaskMayRun, AcceptsCalls, Open, IInv, TypeInv, TypeOK
  <2>2. trace.call[c] = Absent
    BY <2>1, NextCallIsNew
  <2>3. t = [trace EXCEPT !.call[c] = "requested"]
    BY <2>2 DEF ToolCallRequested
  <2>4. /\ t.session = trace.session /\ t.corrupt = trace.corrupt
        /\ \A d \in CallIds : d # c => t.call[d] = trace.call[d]
    BY <1>1, <2>3 DEF Traces
  <2> HIDE DEF t
  <2>5. trace' \in {trace, t}
    BY <1>3 DEF Execute, Append, Raises, t
  <2>6. \/ UNCHANGED op
        \/ op'.step = "intent" /\ op'.kind = "execute"
    BY <1>3, <2>1, BeganType, "requested" \in CallStatuses DEF Execute, CallStatuses
  <2>7. TraceStaysLegal' /\ NoneQueued'
    BY <2>1, <2>4, <2>5 DEF SerialInv, TraceStaysLegal, NoneQueued
  <2>8. CallIsCurrent'
    BY <2>1, <2>6 DEF CallIsCurrent, StatusInv, StatusIsCurrent
  <2>9. SessionIsCurrent'
    BY <1>2, <2>1, <2>4, <2>5, <2>6 DEF SerialInv, SessionIsCurrent, Live
  <2> QED
    BY <2>7, <2>8, <2>9 DEF SerialInv
<1>4. ASSUME NEW c \in CallIds, ResumeCall(c) PROVE SerialInv'
  <2>1. /\ op.step = "free" /\ context # "none" /\ session = "waiting_approval"
        /\ held[c] \in {"approved", "denied"}
        /\ UNCHANGED <<trace, context, session, queued>>
    BY <1>4 DEF ResumeCall, MayResume
  <2>2. /\ op'.step = "intent" /\ op'.call = c /\ op'.kind = "resume"
        /\ op'.status = "waiting_approval"
    BY <1>4, ResponseType, BeganType, "waiting_approval" \in CallStatuses
       DEF ResumeCall, CallStatuses
  <2>3. trace.call[c] = "waiting_approval"
    BY <2>1 DEF TaskInv, HeldCallsWait, TerminalSession
  <2>4. TraceStaysLegal' /\ NoneQueued'
    BY <2>1 DEF SerialInv, TraceStaysLegal, NoneQueued
  <2>5. CallIsCurrent'
    BY <2>1, <2>2, <2>3 DEF CallIsCurrent
  <2>6. SessionIsCurrent'
    BY <2>1, <2>2 DEF SerialInv, SessionIsCurrent, Live, Open, TerminalSession
  <2> QED
    BY <2>4, <2>5, <2>6 DEF SerialInv
\* Where tasks switch, nothing waits for the lock.
<1>5. ASSUME NEW c \in CallIds, QueueResume(c) PROVE FALSE
  <2>1. op.step \in SwitchSteps /\ queued[c] < MaxQueued
    BY <1>5 DEF QueueResume, MayResume, TaskMayRun
  <2> QED
    BY <2>1 DEF OneByOne, IInv, TypeInv, TypeOK
<1>6. ASSUME NEW c \in CallIds, DequeueResume(c) PROVE FALSE
  BY <1>6 DEF DequeueResume, SerialInv, NoneQueued
<1> QED
  BY <1>3, <1>4, <1>5, <1>6 DEF Starts

\* People decide pending approvals; a run is cancelled, and its process dies, with
\* nothing left in memory.
LEMMA SerialEnvironment ==
  ASSUME OneByOne, IInv, TaskInv, SerialInv, Environment
  PROVE  SerialInv'
<1> USE DEF outside, sessionOnly, memory
<1>1. trace \in Traces
  BY DEF IInv, TypeInv, TypeOK
<1>2. ASSUME UNCHANGED <<op, session, queued, context>>,
             trace'.session = trace.session, trace'.call = trace.call,
             trace'.corrupt = trace.corrupt
      PROVE  SerialInv'
  BY <1>2 DEF SerialInv, TraceStaysLegal, NoneQueued, SessionIsCurrent, CallIsCurrent, Live
<1>3. ASSUME NEW c \in CallIds, Expire(c) PROVE SerialInv'
  BY <1>2, <1>3 DEF Expire
<1>4. ASSUME NEW c \in CallIds, NEW d \in Approvers, Decide(c, d) PROVE SerialInv'
  <2> DEFINE decision == IF c \in expired THEN "denied" ELSE d
  <2>1. /\ trace' = [trace EXCEPT !.approval[c] = decision]
        /\ UNCHANGED <<op, session, queued, context>>
    BY <1>4 DEF Decide, Append, ApprovalDecided
  <2> QED
    BY <1>1, <1>2, <2>1 DEF Traces
<1>5. CASE CancelRun
  <2>1. /\ context = "none" /\ op.step = "free"
        /\ UNCHANGED <<op, session, queued, context>>
        /\ trace'.corrupt = trace.corrupt
    BY <1>1, <1>5 DEF CancelRun, Append, CancelledPart, OneByOne, Coroutines, Traces
  <2> QED
    BY <2>1 DEF SerialInv, TraceStaysLegal, NoneQueued, SessionIsCurrent, CallIsCurrent, Live
<1>6. CASE Crash
  <2>1. /\ context' = "none" /\ op'.step = "free"
        /\ trace' = trace /\ \A c \in CallIds : queued'[c] = 0
    BY <1>6, IdleType DEF Crash
  <2> QED
    BY <2>1 DEF SerialInv, TraceStaysLegal, NoneQueued, SessionIsCurrent, CallIsCurrent, Live
<1> QED
  BY <1>3, <1>4, <1>5, <1>6 DEF Environment

LEMMA SerialInit == Init => SerialInv
BY IdleType DEF Init, EmptyTrace, SerialInv, TraceStaysLegal, NoneQueued, SessionIsCurrent,
   CallIsCurrent, Live

LEMMA SerialStep ==
  ASSUME OneByOne, IInv, StatusInv, StatusInv', TaskInv, SerialInv, [Next]_vars
  PROVE  SerialInv'
<1>1. CASE UNCHANGED vars
  <2>1. UNCHANGED <<trace, op, session, queued, context>>
    BY <1>1 DEF vars
  <2> QED
    BY <2>1 DEF SerialInv, TraceStaysLegal, NoneQueued, SessionIsCurrent, CallIsCurrent, Live
<1> QED
  BY <1>1, SerialContexts, SerialStarts, SerialPipeline, SerialEnvironment DEF Next

LEMMA SerialAlways ==
  ASSUME OneByOne
  PROVE  Spec => []SerialInv
<1>1. Init => SerialInv
  BY SerialInit
<1>2. IInv /\ StatusInv /\ StatusInv' /\ TaskInv /\ SerialInv /\ [Next]_vars => SerialInv'
  BY SerialStep
<1>3. Spec => []StatusInv /\ []TaskInv
  BY StatusAlways, TasksAlways DEF OneByOne, Coroutines
<1> QED
  BY <1>1, <1>2, <1>3, IInvAlways, PTL DEF Spec

\* The trace stays a history that replay_events accepts, when the operations of a
\* session are one at a time: whatever appends raise and whenever the process
\* dies, memory never says more than the trace about a status that it goes on from.
THEOREM HistoriesAreLegal ==
  ASSUME OneByOne
  PROVE  Spec => []TraceStaysLegal
<1>1. SerialInv => TraceStaysLegal
  BY DEF SerialInv
<1> QED
  BY <1>1, SerialAlways, PTL

-----------------------------------------------------------------------------
(* One caller: settled histories. *)

\* No task of the process runs while a governed call is in progress.
Sequential == SwitchSteps = {} /\ ~LiveCancel

\* A call is only in progress in an open session of a context that is entered.
MemoryIsOpen ==
  /\ context = "none" => session = Absent /\ pending = {} /\ op.step = "free"
  /\ op.step # "free" => session \notin TerminalSession

\* The pending set is the set of the waiting calls, and the session waits exactly
\* when there are some, or is about to.
PendingIsWaiting ==
  faults = 0 /\ session \in Open =>
    /\ pending = WaitingCalls(trace)
    /\ op.step # "reconcile" => (session = "waiting_approval" <=> pending # {})

\* A call on its way to its handler or back is the one in progress, unless the
\* session failed on it.
UnsettledIsInProgress ==
  faults = 0 =>
    \A c \in CallIds : trace.call[c] \in {"requested", "approved", "executing"} =>
      (op.step # "free" /\ op.call = c) \/ trace.session = "failed"

SettledInv ==
  /\ MemoryIsOpen
  /\ PendingIsWaiting
  /\ UnsettledIsInProgress
  /\ CompletedRunsAreSettled

LEMMA SequentialIsOneByOne == Sequential => OneByOne
BY DEF Sequential, OneByOne, Coroutines

\* Faults are counted.
LEMMA FaultsGrow ==
  ASSUME IInv, [Next]_vars
  PROVE  faults' = 0 => faults = 0
<1>1. faults \in Nat
  BY BoundsAssumption DEF IInv, TypeInv, TypeOK
<1>2. faults' \in {faults, faults + 1}
  <2>1. CASE UNCHANGED vars
    BY <2>1 DEF vars
  <2>2. CASE Contexts \/ Unlocked \/ Starts
    BY <2>2 DEF Contexts, Unlocked, Starts, OpenSession, ResumeRun, Exit, Leave, SubmitAnswer,
       TimeOut, FinishSession, Execute, ResumeCall, QueueResume, DequeueResume, Append, Raises
  <2>3. CASE Pipeline
    BY <2>3 DEF Pipeline, RecordIntent, Evaluate, RecordToolStatus, ReconcileSession, Prompt,
       DecidePermission, RequestApproval, CheckSandbox, InvokeHandler, HandlerReturns,
       RecordResult, RecordFacts, FailCall, Append, Raises, Rejects
  <2>4. CASE Environment
    BY <2>4 DEF Environment, Expire, Decide, CancelRun, Crash, Append
  <2> QED
    BY <2>1, <2>2, <2>3, <2>4 DEF Next
<1> QED
  BY <1>1, <1>2

\* A step that leaves the calls, the approvals and the session alone.
LEMMA SettledKept ==
  ASSUME SettledInv, faults' = 0 => faults = 0,
         UNCHANGED <<context, session, pending, op>>,
         trace'.session = trace.session, trace'.call = trace.call,
         trace'.approval = trace.approval
  PROVE  SettledInv'
<1>1. WaitingCalls(trace') = WaitingCalls(trace) /\ PendingApprovals(trace') = PendingApprovals(trace)
  BY DEF WaitingCalls, PendingApprovals
<1> QED
  BY <1>1 DEF SettledInv, MemoryIsOpen, PendingIsWaiting, UnsettledIsInProgress,
     CompletedRunsAreSettled

\* While a call is in progress the session is open, in memory and in the trace.
LEMMA CallsRunInOpenSessions ==
  ASSUME SerialInv, SettledInv, op.step # "free"
  PROVE  context # "none" /\ session \in Open /\ trace.session \in Open
BY DEF SerialInv, SettledInv, MemoryIsOpen, SessionIsCurrent, Live

LEMMA SettledContexts ==
  ASSUME Sequential, IInv, StatusInv, TaskInv, SerialInv, SettledInv, Contexts \/ Unlocked
  PROVE  SettledInv'
<1> USE DEF memory, outside
<1>1. trace \in Traces /\ op \in OpTypes /\ (faults' = 0 => faults = 0) /\ faults \in Nat
  BY FaultsGrow, BoundsAssumption DEF Next, IInv, TypeInv, TypeOK
<1>2. ASSUME NEW m, OpenSession(m) PROVE SettledInv'
  <2> DEFINE created == SessionCreated(trace)
             started == SessionStatusChanged(created, "running")
  <2>1. /\ context = "none" /\ op.step = "free" /\ pending = {}
        /\ session = Absent
        /\ \A c \in CallIds : trace.call[c] = Absent
        /\ UNCHANGED <<op, pending>>
    BY <1>2 DEF OpenSession, IInv, CreationIsFirst, SettledInv, MemoryIsOpen
  <2>2. /\ created \in Traces /\ created.session = "created" /\ created.call = trace.call
    BY <1>1, SessionCreatedRows DEF SameRows
  <2> HIDE DEF created
  <2>3. started.call = trace.call /\ started.session \in {"running", "created"}
    BY <2>2, SessionStatusRows DEF SessionStatuses, SameRows
  <2> HIDE DEF started
  <2>4. \/ context' # "none" /\ session' = "running" /\ trace' = started
        \/ context' = "none" /\ session' = session /\ faults' # 0
    BY <1>1, <1>2, <2>1 DEF OpenSession, Append, Raises, created, started
  <2>5. CASE context' # "none" /\ session' = "running" /\ trace' = started
    <3>1. \A c \in CallIds : trace'.call[c] = Absent
      BY <2>1, <2>3, <2>5
    <3>2. WaitingCalls(trace') = {}
      BY <3>1 DEF WaitingCalls, Absent
    <3>3. MemoryIsOpen' /\ PendingIsWaiting'
      BY <2>1, <2>5, <3>2 DEF MemoryIsOpen, PendingIsWaiting
    <3>4. UnsettledIsInProgress' /\ CompletedRunsAreSettled'
      BY <2>3, <2>5, <3>1 DEF UnsettledIsInProgress, CompletedRunsAreSettled, Absent
    <3> QED
      BY <3>3, <3>4 DEF SettledInv
  <2>6. CASE context' = "none" /\ session' = session /\ faults' # 0
    BY <2>1, <2>6 DEF SettledInv, MemoryIsOpen, PendingIsWaiting, UnsettledIsInProgress,
       CompletedRunsAreSettled
  <2> QED
    BY <2>4, <2>5, <2>6
\* The run waits, so that some call does.
<1>3. ASSUME NEW c \in CallIds, NEW m, ResumeRun(c, m) PROVE SettledInv'
  <2>1. /\ context' # "none" /\ op.step = "free" /\ UNCHANGED <<trace, op, faults>>
        /\ session' = "waiting_approval" /\ trace.session = "waiting_approval"
        /\ pending' = WaitingCalls(trace) /\ WaitingCalls(trace) # {}
    BY <1>3 DEF ResumeRun, Resumable
  <2> QED
    BY <2>1 DEF SettledInv, MemoryIsOpen, PendingIsWaiting, UnsettledIsInProgress,
       CompletedRunsAreSettled
<1>4. ASSUME NEW how, Exit(how) PROVE SettledInv'
  BY <1>1, <1>4, SettledKept DEF Exit
<1>5. CASE Leave
  <2>1. op.step = "free"
    BY <1>5 DEF Leave, TaskInv, OthersWait, Sequential
  <2>2. /\ session' = Absent /\ pending' = {} /\ UNCHANGED <<trace, op, faults>>
    BY <1>5, <2>1 DEF Leave, NoMemory, SerialInv, NoneQueued
  <2>3. Absent \notin Open
    BY DEF Open, Absent
  <2> QED
    BY <2>1, <2>2, <2>3 DEF SettledInv, MemoryIsOpen, PendingIsWaiting, UnsettledIsInProgress,
       CompletedRunsAreSettled
<1>6. ASSUME NEW v \in {"verified", "unsupported"}, SubmitAnswer(v) PROVE SettledInv'
  <2> DEFINE t == GroundguardChecked(trace, v)
  <2>1. t.session = trace.session /\ t.call = trace.call /\ t.approval = trace.approval
    BY <1>1 DEF GroundguardChecked, Traces
  <2> HIDE DEF t
  <2>2. trace' \in {trace, t} /\ UNCHANGED <<context, session, pending, op>>
    BY <1>6 DEF SubmitAnswer, Append, Raises, t
  <2> QED
    BY <1>1, <2>1, <2>2, SettledKept
<1>7. CASE TimeOut
  BY <1>1, <1>7, SettledKept DEF TimeOut
\* A session completes while it runs: no call waits, and none is in progress.
<1>8. CASE FinishSession
  <2> DEFINE t == SessionStatusChanged(trace, Target)
  <2>1. /\ context # "none" /\ op.step = "free" /\ UNCHANGED <<op, pending, context>>
        /\ Target \in {"completed", "failed"}
    BY <1>8 DEF FinishSession, Target, TaskInv, OthersWait, Sequential, IInv, TypeInv, TypeOK
  <2>2. \/ UNCHANGED <<session, trace>>
        \/ /\ SessionMayBecome(session, Target) /\ session' = Target
           /\ trace' = t \/ faults' # 0
    BY <1>1, <1>8 DEF FinishSession, Append, Raises
  <2>3. CASE UNCHANGED <<session, trace>>
    BY <1>1, <2>1, <2>3, SettledKept
  <2>4. CASE /\ SessionMayBecome(session, Target) /\ session' = Target
             /\ trace' = t \/ faults' # 0
    <3>1. MemoryIsOpen'
      BY <2>1 DEF MemoryIsOpen
    <3>2. PendingIsWaiting'
      BY <2>1, <2>4 DEF PendingIsWaiting, Open
    <3>3. /\ session \in Open /\ (Target = "completed" => session = "running")
      BY <2>1, <2>4 DEF SessionMayBecome, SessionTransitions, SerialInv, SessionIsCurrent, Live,
         Open, TerminalSession
    <3>4. session = trace.session
      BY <2>1, <3>3, OpenIsNotOver DEF SerialInv, SessionIsCurrent, Live
    <3>5. t = [trace EXCEPT !.session = Target]
      BY <2>4, <3>4 DEF SessionStatusChanged
    <3>6. t.session = Target /\ t.call = trace.call /\ t.approval = trace.approval
      BY <1>1, <3>5 DEF Traces
    <3> HIDE DEF t
    <3>7. UnsettledIsInProgress'
      BY <1>1, <2>1, <2>4, <3>3, <3>4, <3>6, OpenIsNotOver DEF SettledInv, UnsettledIsInProgress
    <3>8. CompletedRunsAreSettled'
      <4> SUFFICES ASSUME faults' = 0, trace'.session = "completed"
                   PROVE  /\ \A c \in CallIds :
                               trace.call[c] \notin {"waiting_approval", "approved", "executing"}
                          /\ PendingApprovals(trace') = {}
        BY <2>4, <3>6 DEF CompletedRunsAreSettled
      <4>1. faults = 0 /\ trace' = t /\ session = "running" /\ trace.session # "failed"
        BY <1>1, <2>4, <3>3, <3>4, <3>6
      <4>2. WaitingCalls(trace) = {}
        BY <2>1, <3>3, <4>1 DEF SettledInv, PendingIsWaiting
      <4>3. \A c \in CallIds : trace.call[c] \notin {"waiting_approval", "approved", "executing"}
        BY <2>1, <4>1, <4>2 DEF SettledInv, UnsettledIsInProgress, WaitingCalls
      <4>4. PendingApprovals(trace) = {}
        BY <4>3 DEF StatusInv, PendingCallsWait, PendingApprovals
      <4>5. PendingApprovals(trace') = {}
        BY <3>6, <4>1, <4>4 DEF PendingApprovals
      <4> QED
        BY <4>3, <4>5
    <3> QED
      BY <3>1, <3>2, <3>7, <3>8 DEF SettledInv
  <2> QED
    BY <2>2, <2>3, <2>4
<1> QED
  BY <1>2, <1>3, <1>4, <1>5, <1>6, <1>7, <1>8 DEF Contexts, Unlocked

LEMMA SettledStarts ==
  ASSUME Sequential, IInv, SerialInv, SettledInv, Starts
  PROVE  SettledInv'
<1> USE DEF memory, outside
<1>1. trace \in Traces /\ op \in OpTypes /\ (faults' = 0 => faults = 0) /\ faults \in Nat
  BY FaultsGrow, BoundsAssumption DEF Next, IInv, TypeInv, TypeOK
<1>2. CASE Execute
  <2> DEFINE c == sequence + 1
             t == ToolCallRequested(trace, c)
  <2>1. /\ c \in CallIds /\ op.step = "free" /\ context # "none" /\ session \in Open
        /\ UNCHANGED <<context, session, pending>>
    BY <1>2, BoundsAssumption DEF Execute, AcceptsCalls, Open, IInv, TypeInv, TypeOK
  <2>2. trace.call[c] = Absent
    BY <2>1, NextCallIsNew
  <2>3. t = [trace EXCEPT !.call[c] = "requested"]
    BY <2>2 DEF ToolCallRequested
  <2>4. /\ t.session = trace.session /\ t.call[c] = "requested"
        /\ \A d \in CallIds : d # c => t.call[d] = trace.call[d]
    BY <1>1, <2>1, <2>3 DEF Traces
  <2> HIDE DEF t
  <2>5. \/ /\ trace' = t /\ op'.step = "intent" /\ op'.call = c
        \/ /\ trace' \in {trace, t} /\ faults' # 0 /\ UNCHANGED op
    BY <1>1, <1>2, <2>1, BeganType, "requested" \in CallStatuses
       DEF Execute, Append, Raises, t, CallStatuses
  <2>6. MemoryIsOpen'
    BY <2>1, OpenIsNotOver DEF MemoryIsOpen
  <2>7. PendingIsWaiting'
    <3>1. WaitingCalls(t) = WaitingCalls(trace)
      BY <2>2, <2>4 DEF WaitingCalls, Absent
    <3> QED
      BY <1>1, <2>1, <2>5, <3>1 DEF SettledInv, PendingIsWaiting
  <2>8. UnsettledIsInProgress'
    BY <1>1, <2>1, <2>4, <2>5 DEF SettledInv, UnsettledIsInProgress
  <2>9. CompletedRunsAreSettled'
    <3>1. trace.session # "completed"
      BY <2>1, OpenIsNotOver DEF SerialInv, SessionIsCurrent, Live
    <3> QED
      BY <2>4, <2>5, <3>1 DEF CompletedRunsAreSettled
  <2> QED
    BY <2>6, <2>7, <2>8, <2>9 DEF SettledInv
<1>3. ASSUME NEW c \in CallIds, ResumeCall(c) PROVE SettledInv'
  <2>1. /\ op.step = "free" /\ context # "none" /\ session = "waiting_approval"
        /\ UNCHANGED <<trace, context, session, pending, faults>>
    BY <1>3 DEF ResumeCall, MayResume
  <2>2. op'.step = "intent"
    BY <1>3, ResponseType, BeganType, "waiting_approval" \in CallStatuses
       DEF ResumeCall, CallStatuses
  <2> QED
    BY <2>1, <2>2 DEF SettledInv, MemoryIsOpen, PendingIsWaiting, UnsettledIsInProgress,
       CompletedRunsAreSettled, TerminalSession
<1>4. ASSUME NEW c \in CallIds, QueueResume(c) \/ DequeueResume(c) PROVE FALSE
  BY <1>4 DEF QueueResume, DequeueResume, MayResume, TaskMayRun, Sequential,
     SerialInv, NoneQueued
<1> QED
  BY <1>2, <1>3, <1>4 DEF Starts

\* The pending set follows the status, and the session is to follow the set.
LEMMA SettledStatus ==
  ASSUME Sequential, IInv, SerialInv, SettledInv, RecordToolStatus
  PROVE  SettledInv'
<1> DEFINE c == op.call
           t == ToolCallStatusChanged(trace, c, NewStatus)
           waiting == IF op.step = "ask" THEN pending \cup {c} ELSE pending \ {c}
<1>1. /\ c \in CallIds /\ op.step \in StatusSteps /\ op.step \notin {"free", "raise", "reconcile"}
      /\ op \in OpTypes /\ trace \in Traces
  BY DEF IInv, TypeInv, TypeOK, LocalsAreSet, RecordToolStatus, StatusSteps
<1>2. (faults' = 0 => faults = 0) /\ faults \in Nat
  BY FaultsGrow, BoundsAssumption DEF Next, Pipeline, IInv, TypeInv, TypeOK
<1>3. context # "none" /\ session \in Open /\ trace.session \in Open
  BY <1>1, CallsRunInOpenSessions
<1>4. NewStatus \in CallStatuses /\ trace.call[c] = op.status
  BY <1>1, NewStatusType DEF SerialInv, CallIsCurrent
<1>5. CallMayBecome(op.status, NewStatus) =>
        /\ t.session = trace.session /\ t.call[c] = NewStatus
        /\ \A d \in CallIds : d # c => t.call[d] = trace.call[d]
  <2>1. CallMayBecome(op.status, NewStatus) => t = [trace EXCEPT !.call[c] = NewStatus]
    BY <1>4 DEF ToolCallStatusChanged
  <2> QED
    BY <1>1, <2>1 DEF Traces
<1> HIDE DEF t
<1>6. /\ UNCHANGED <<context, session>>
      /\ trace' = trace \/ (CallMayBecome(op.status, NewStatus) /\ trace' = t)
  BY <1>4 DEF RecordToolStatus, Append, Raises, Rejects, pipelineOnly, t
<1>7. MemoryIsOpen' /\ trace'.session = trace.session
  BY <1>3, <1>5, <1>6, OpenIsNotOver DEF MemoryIsOpen
<1>8. CompletedRunsAreSettled'
  BY <1>3, <1>7, OpenIsNotOver DEF CompletedRunsAreSettled
\* Nothing was appended, or the append did not raise.
<1>9. faults' = 0 =>
        \/ UNCHANGED <<trace, pending>> /\ op'.step = "raise" /\ op'.call = c
        \/ /\ trace' = t /\ pending' = waiting /\ CallMayBecome(op.status, NewStatus)
           /\ \/ op'.step = "reconcile" /\ op'.call = c
              \/ /\ Reconciled(waiting) = session
                 /\ \/ op'.step = "free" /\ AfterStatus = "return"
                    \/ op'.step = AfterStatus /\ op'.step # "free" /\ op'.call = c
  <2> SUFFICES ASSUME faults' = 0
               PROVE  \/ UNCHANGED <<trace, pending>> /\ op'.step = "raise" /\ op'.call = c
                      \/ /\ trace' = t /\ pending' = waiting /\ CallMayBecome(op.status, NewStatus)
                         /\ \/ op'.step = "reconcile" /\ op'.call = c
                            \/ /\ Reconciled(waiting) = session
                               /\ \/ op'.step = "free" /\ AfterStatus = "return"
                                  \/ op'.step = AfterStatus /\ op'.step # "free" /\ op'.call = c
    OBVIOUS
  <2>1. ~Raises(t)
    BY <1>2 DEF Raises
  <2>2. \/ UNCHANGED <<trace, pending>> /\ RaiseError
        \/ /\ trace' = t /\ pending' = waiting /\ CallMayBecome(op.status, NewStatus)
           /\ \/ op' = [op EXCEPT !.step = "reconcile", !.next = AfterStatus, !.status = NewStatus]
              \/ Reconciled(waiting) = session /\ AfterStatus = "return" /\ Continue("return")
              \/ /\ Reconciled(waiting) = session
                 /\ op' = [op EXCEPT !.step = AfterStatus, !.status = NewStatus]
    BY <1>4, <2>1 DEF RecordToolStatus, Append, t
  <2>3. AfterStatus # "free"
    BY <1>1, NewStatusType
  <2>4. RaiseError => op'.step = "raise" /\ op'.call = c
    BY <1>1 DEF RaiseError, OpTypes
  <2>5. Continue("return") => op'.step = "free"
    BY IdleType DEF Continue
  <2> QED
    BY <1>1, <2>2, <2>3, <2>4, <2>5 DEF OpTypes
<1>10. CallMayBecome(op.status, NewStatus) /\ pending = WaitingCalls(trace)
         => waiting = WaitingCalls(t)
  <2>1. NewStatus = "waiting_approval" <=> op.step = "ask"
    BY <1>1 DEF StatusSteps, NewStatus
  <2> QED
    BY <1>1, <1>5, <2>1 DEF WaitingCalls
<1>11. Reconciled(waiting) = session => (session = "waiting_approval" <=> waiting # {})
  BY <1>3 DEF Reconciled, Open
<1> HIDE DEF waiting
<1>12. PendingIsWaiting'
  <2> SUFFICES ASSUME faults' = 0
               PROVE  /\ pending' = WaitingCalls(trace')
                      /\ op'.step # "reconcile" => (session' = "waiting_approval" <=> pending' # {})
    BY DEF PendingIsWaiting
  <2>1. /\ pending = WaitingCalls(trace)
        /\ session = "waiting_approval" <=> pending # {}
    BY <1>1, <1>2, <1>3 DEF SettledInv, PendingIsWaiting
  <2> QED
    BY <1>6, <1>9, <1>10, <1>11, <2>1
<1>13. UnsettledIsInProgress'
  <2> SUFFICES ASSUME faults' = 0, NEW d \in CallIds,
                      trace'.call[d] \in {"requested", "approved", "executing"}
               PROVE  op'.step # "free" /\ op'.call = d
    BY DEF UnsettledIsInProgress
  <2>1. d = c
    <3>1. d # c => trace.call[d] = trace'.call[d]
      BY <1>5, <1>6
    <3> QED
      BY <1>2, <1>3, <3>1, OpenIsNotOver DEF SettledInv, UnsettledIsInProgress
  <2>2. AfterStatus = "return" => NewStatus \in {"policy_denied", "sandbox_denied"}
    BY <1>1 DEF StatusSteps, AfterStatus, NewStatus
  <2> QED
    BY <1>5, <1>9, <2>1, <2>2
<1> QED
  BY <1>7, <1>8, <1>12, <1>13 DEF SettledInv

\* The session follows the pending set.
LEMMA SettledReconcile ==
  ASSUME Sequential, IInv, StatusInv, TaskInv, SerialInv, SettledInv, ReconcileSession
  PROVE  SettledInv'
<1> DEFINE s == Reconciled(pending)
           t == SessionStatusChanged(trace, s)
<1>1. /\ op.step = "reconcile" /\ op \in OpTypes /\ trace \in Traces /\ op.call \in CallIds
      /\ op.next \notin {"free", "reconcile"}
  BY DEF IInv, TypeInv, TypeOK, LocalsAreSet, ReconcileSession, At, TaskInv, ReconcileGoesOn
<1>2. (faults' = 0 => faults = 0) /\ faults \in Nat
  BY FaultsGrow, BoundsAssumption DEF Next, Pipeline, IInv, TypeInv, TypeOK
<1>3. /\ context # "none" /\ session \in Open /\ trace.session \in Open
      /\ trace.session = session
  BY <1>1, CallsRunInOpenSessions, OpenIsNotOver DEF SerialInv, SessionIsCurrent, Live
<1>4. s \in Open /\ (s # session => SessionMayBecome(session, s))
  BY <1>3 DEF Reconciled, Open, SessionMayBecome, SessionTransitions
<1>5. s # session => t = [trace EXCEPT !.session = s]
  BY <1>3, <1>4 DEF SessionStatusChanged
<1>6. s # session => t.session = s /\ t.call = trace.call
  BY <1>1, <1>5 DEF Traces
<1>7. /\ UNCHANGED <<context, pending>> /\ session' = s
      /\ \/ s = session /\ trace' = trace
         \/ s # session /\ trace' \in {trace, t}
      /\ Continue(op.next) \/ RaiseError
  BY DEF ReconcileSession, Append, Raises, Rejects, pipelineOnly
<1>8. (s = "waiting_approval" <=> pending # {})
  BY <1>3 DEF Reconciled, Open
<1> HIDE DEF s, t
<1>9. trace'.call = trace.call /\ trace'.session \in Open
  BY <1>3, <1>4, <1>6, <1>7
<1>10. /\ op'.step = "free" => op.next = "return"
       /\ op'.step # "free" => op'.call = op.call
  BY <1>1, <1>7, IdleType DEF Continue, RaiseError, OpTypes
<1>11. MemoryIsOpen'
  BY <1>3, <1>4, <1>7, OpenIsNotOver DEF MemoryIsOpen
<1>12. PendingIsWaiting'
  <2>1. WaitingCalls(trace') = WaitingCalls(trace)
    BY <1>9 DEF WaitingCalls
  <2> QED
    BY <1>2, <1>3, <1>7, <1>8, <2>1 DEF SettledInv, PendingIsWaiting
<1>13. UnsettledIsInProgress'
  <2> SUFFICES ASSUME faults' = 0, NEW d \in CallIds,
                      trace.call[d] \in {"requested", "approved", "executing"}
               PROVE  op'.step # "free" /\ op'.call = d
    BY <1>9 DEF UnsettledIsInProgress
  <2>1. d = op.call
    BY <1>2, <1>3, OpenIsNotOver DEF SettledInv, UnsettledIsInProgress
  <2>2. op.next = "return" => trace.call[d] \in TerminalCall
    BY <1>1, <2>1 DEF StatusInv, StatusFits, Steps, SerialInv, CallIsCurrent
  <2> QED
    BY <1>10, <2>1, <2>2 DEF TerminalCall
<1>14. CompletedRunsAreSettled'
  BY <1>9, OpenIsNotOver DEF CompletedRunsAreSettled
<1> QED
  BY <1>11, <1>12, <1>13, <1>14 DEF SettledInv

LEMMA SettledPipeline ==
  ASSUME Sequential, IInv, StatusInv, TaskInv, SerialInv, SettledInv, Pipeline
  PROVE  SettledInv'
<1>1. CASE RecordToolStatus
  BY <1>1, SettledStatus
<1>2. CASE ReconcileSession
  BY <1>2, SettledReconcile
<1>3. /\ op.step # "free" /\ op.call \in CallIds /\ UNCHANGED context /\ trace \in Traces
      /\ context # "none" /\ session \in Open /\ trace.session \in Open
  BY PipelineAlone, CallsRunInOpenSessions, SequentialIsOneByOne DEF OneByOne, IInv, TypeInv, TypeOK
<1>4. (faults' = 0 => faults = 0) /\ faults \in Nat
  BY FaultsGrow, BoundsAssumption DEF Next, IInv, TypeInv, TypeOK
\* Unless its append raises, the failure of the session is in the trace.
<1>5. CASE FailCall
  <2> DEFINE t == SessionStatusChanged(trace, "failed")
  <2>1. SessionMayBecome(trace.session, "failed")
    BY <1>3 DEF Open, SessionMayBecome, SessionTransitions
  <2>2. t.session = "failed"
    BY <1>3, <2>1 DEF SessionStatusChanged, Traces
  <2> HIDE DEF t
  <2>3. op'.step = "free" /\ session' = "failed" /\ (faults' = 0 => trace' = t)
    BY <1>3, <1>4, <1>5, OpenIsNotOver, IdleType DEF FailCall, Append, Raises, t
  <2> QED
    BY <1>3, <2>2, <2>3, OpenIsNotOver DEF SettledInv, MemoryIsOpen, PendingIsWaiting,
       UnsettledIsInProgress, CompletedRunsAreSettled
\* A call ends when it waits for a decision, or has its result.
<1>6. CASE /\ CallGoesOn /\ StatusStays /\ UNCHANGED <<session, pending>>
           /\ trace'.session = trace.session
           /\ op.step \notin {"free", "raise", "reconcile"} /\ op'.step # "reconcile"
           /\ op'.step = "free" => op.step \in {"request_approval", "facts"}
  <2>1. MemoryIsOpen' /\ CompletedRunsAreSettled'
    BY <1>3, <1>6, OpenIsNotOver DEF MemoryIsOpen, CompletedRunsAreSettled
  <2>2. PendingIsWaiting'
    <3>1. WaitingCalls(trace') = WaitingCalls(trace)
      BY <1>6 DEF StatusStays, WaitingCalls
    <3> QED
      BY <1>4, <1>6, <3>1 DEF SettledInv, PendingIsWaiting
  <2>3. UnsettledIsInProgress'
    <3> SUFFICES ASSUME faults' = 0, NEW d \in CallIds,
                        trace.call[d] \in {"requested", "approved", "executing"}
                 PROVE  op'.step # "free" /\ op'.call = d
      BY <1>6 DEF UnsettledIsInProgress, StatusStays
    <3>1. d = op.call
      BY <1>3, <1>4, OpenIsNotOver DEF SettledInv, UnsettledIsInProgress
    <3>2. trace.call[d] = op.status
      BY <1>6, <3>1 DEF SerialInv, CallIsCurrent
    <3>3. op'.step # "free"
      BY <1>6, <3>2 DEF StatusInv, StatusFits, Steps
    <3> QED
      BY <1>6, <3>1, <3>3 DEF CallGoesOn
  <2> QED
    BY <2>1, <2>2, <2>3 DEF SettledInv
<1> QED
  BY <1>1, <1>2, <1>5, <1>6, PlainPipeline DEF TaskInv

LEMMA SettledEnvironment ==
  ASSUME Sequential, IInv, SerialInv, SettledInv, Environment
  PROVE  SettledInv'
<1> USE DEF outside, sessionOnly, memory
<1>1. trace \in Traces /\ (faults' = 0 => faults = 0) /\ faults \in Nat
  BY FaultsGrow, BoundsAssumption DEF Next, IInv, TypeInv, TypeOK
<1>2. ASSUME NEW c \in CallIds, Expire(c) PROVE SettledInv'
  BY <1>1, <1>2, SettledKept DEF Expire
<1>3. ASSUME NEW c \in CallIds, NEW d \in Approvers, Decide(c, d) PROVE SettledInv'
  <2> DEFINE decision == IF c \in expired THEN "denied" ELSE d
  <2>1. decision # "pending"
    BY ChoiceAssumption
  <2>2. /\ trace' = [trace EXCEPT !.approval[c] = decision]
        /\ UNCHANGED <<op, session, pending, context, faults>>
    BY <1>3 DEF Decide, Append, ApprovalDecided
  <2> HIDE DEF decision
  <2>3. /\ trace'.call = trace.call /\ trace'.session = trace.session
        /\ \A e \in CallIds : trace'.approval[e] \in {trace.approval[e], decision}
    BY <1>1, <2>2 DEF Traces
  <2>4. WaitingCalls(trace') = WaitingCalls(trace)
    BY <2>3 DEF WaitingCalls
  <2>5. PendingApprovals(trace) = {} => PendingApprovals(trace') = {}
    BY <2>1, <2>3 DEF PendingApprovals
  <2> QED
    BY <2>2, <2>3, <2>4, <2>5 DEF SettledInv, MemoryIsOpen, PendingIsWaiting,
       UnsettledIsInProgress, CompletedRunsAreSettled
<1>4. CASE CancelRun
  <2>1. PICK a \in SUBSET PendingApprovals(trace), w \in SUBSET WaitingCalls(trace), done \in BOOLEAN :
           trace' = CancelledPart(a, w, done)
    BY <1>4 DEF CancelRun, Append
  <2>2. /\ context = "none" /\ op.step = "free" /\ trace.session \notin TerminalSession
        /\ UNCHANGED <<op, session, pending, context>>
    BY <1>4 DEF CancelRun, Sequential
  <2>3. /\ trace'.session \in {trace.session, "cancelled"}
        /\ \A c \in CallIds : trace'.call[c] \in {trace.call[c], "policy_denied"}
    BY <1>1, <2>1 DEF CancelledPart, Traces
  <2>4. "completed" \in TerminalSession /\ "failed" \in TerminalSession /\ Absent \notin Open
    BY DEF TerminalSession, Open, Absent
  <2>5. MemoryIsOpen' /\ PendingIsWaiting'
    BY <2>2, <2>4 DEF SettledInv, MemoryIsOpen, PendingIsWaiting
  <2>6. UnsettledIsInProgress'
    BY <1>1, <2>2, <2>3, <2>4 DEF SettledInv, UnsettledIsInProgress
  <2>7. CompletedRunsAreSettled'
    BY <2>2, <2>3, <2>4 DEF CompletedRunsAreSettled
  <2> QED
    BY <2>5, <2>6, <2>7 DEF SettledInv
<1>5. CASE Crash
  <2>1. /\ context' = "none" /\ op'.step = "free" /\ session' = Absent /\ pending' = {}
        /\ faults' # 0
    BY <1>1, <1>5, IdleType DEF Crash, NoMemory
  <2> QED
    BY <2>1 DEF SettledInv, MemoryIsOpen, PendingIsWaiting, UnsettledIsInProgress,
       CompletedRunsAreSettled
<1> QED
  BY <1>2, <1>3, <1>4, <1>5 DEF Environment

LEMMA SettledInit == Init => SettledInv
<1> SUFFICES ASSUME Init PROVE SettledInv
  OBVIOUS
<1>1. /\ session = Absent /\ pending = {} /\ op.step = "free" /\ trace.session = Absent
      /\ \A c \in CallIds : trace.call[c] = Absent
  BY IdleType DEF Init, EmptyTrace
<1> QED
  BY <1>1 DEF SettledInv, MemoryIsOpen, PendingIsWaiting, UnsettledIsInProgress,
     CompletedRunsAreSettled, Open, Absent

LEMMA SettledStep ==
  ASSUME Sequential, IInv, StatusInv, TaskInv, SerialInv, SettledInv, [Next]_vars
  PROVE  SettledInv'
<1>1. CASE UNCHANGED vars
  BY <1>1, SettledKept DEF vars
<1> QED
  BY <1>1, SettledContexts, SettledStarts, SettledPipeline, SettledEnvironment DEF Next

LEMMA SettledAlways ==
  ASSUME Sequential
  PROVE  Spec => [](IInv /\ SerialInv /\ SettledInv)
<1>1. Init => SettledInv
  BY SettledInit
<1>2. IInv /\ StatusInv /\ TaskInv /\ SerialInv /\ SettledInv /\ [Next]_vars => SettledInv'
  BY SettledStep
<1>3. Spec => []StatusInv
  BY StatusAlways DEF Sequential
<1>4. Spec => []TaskInv /\ []SerialInv
  BY SequentialIsOneByOne, TasksAlways, SerialAlways DEF OneByOne
<1> QED
  BY <1>1, <1>2, <1>3, <1>4, IInvAlways, PTL DEF Spec

\* A run with one caller that completed is settled: as long as no append raised
\* and no process died, no call of it waits, was approved or executes, and no
\* approval of it is undecided.
THEOREM CompletedIsSettled ==
  ASSUME Sequential
  PROVE  Spec => []CompletedRunsAreSettled
<1>1. SettledInv => CompletedRunsAreSettled
  BY DEF SettledInv
<1> QED
  BY <1>1, SettledAlways, PTL

\* Between the operations of its one caller, the session that a process has open,
\* its pending set and the trace agree on what waits, as long as nothing failed.
THEOREM WaitingIsPending ==
  ASSUME Sequential
  PROVE  Spec => []WaitingMeansPending
<1>1. SerialInv /\ SettledInv => WaitingMeansPending
  <2> SUFFICES ASSUME SerialInv, SettledInv, faults = 0, AtRest, session \in Open
               PROVE  /\ session = trace.session
                      /\ pending = WaitingCalls(trace)
                      /\ session = "waiting_approval" <=> pending # {}
    BY DEF WaitingMeansPending, Open
  <2>1. context # "none" /\ op.step = "free"
    BY DEF SettledInv, MemoryIsOpen, AtRest, Open, Absent
  <2>2. session = trace.session
    BY <2>1, OpenIsNotOver DEF SerialInv, SessionIsCurrent, Live
  <2> QED
    BY <2>1, <2>2 DEF SettledInv, PendingIsWaiting
<1> QED
  BY <1>1, SettledAlways, PTL
=============================================================================
