------------------------------ MODULE RunTrace ------------------------------
(***************************************************************************)
(* The evidence trace of one run, represented by what replay_events        *)
(* (adapters/evidence/replay.py) has reconstructed after each event.       *)
(*                                                                         *)
(* replay_events is a left fold over the events, so a trace is its fold:   *)
(* appending an event is applying one of the operators below.  An event    *)
(* that the fold refuses (an illegal status pair, a second request for a   *)
(* call, a decision on a decided approval) leaves the rows as they were    *)
(* and sets "corrupt": from then on replay_events raises on this trace.    *)
(* That is also how SQLiteStateProjection.apply_event treats the event, so *)
(* the rows are the projection's rows as well.                             *)
(*                                                                         *)
(* Three rows are evidence that replay does not use: the last              *)
(* permission_decision and sandbox_decision of each call and the last      *)
(* groundguard_check of the run.                                           *)
(***************************************************************************)
EXTENDS Lifecycle

CONSTANT CallIds     \* the tool_call_id values of the run

Absent == "absent"

ApprovalDecisions == {"pending", "approved", "denied"}

\* What a permission_decision event says: the final effect, and for "allow"
\* the reason finalize_permission gives for it.
Permits == {"deny", "ask", "policy_allow", "human_allow", "mock_allow"}

Granting == {"policy_allow", "human_allow", "mock_allow"}

Traces ==
  [session  : SessionStatuses \cup {Absent},
   call     : [CallIds -> CallStatuses \cup {Absent}],
   intent   : SUBSET CallIds,
   approval : [CallIds -> ApprovalDecisions \cup {Absent}],
   permit   : [CallIds -> Permits \cup {Absent}],
   sandbox  : [CallIds -> {"allow", "deny", Absent}],
   answer   : {"verified", "unsupported", Absent},
   corrupt  : BOOLEAN]

EmptyTrace ==
  [session  |-> Absent,
   call     |-> [c \in CallIds |-> Absent],
   intent   |-> {},
   approval |-> [c \in CallIds |-> Absent],
   permit   |-> [c \in CallIds |-> Absent],
   sandbox  |-> [c \in CallIds |-> Absent],
   answer   |-> Absent,
   corrupt  |-> FALSE]

Refused(t) == [t EXCEPT !.corrupt = TRUE]

SessionCreated(t) == [t EXCEPT !.session = "created"]

SessionStatusChanged(t, status) ==
  IF SessionMayBecome(t.session, status)
    THEN [t EXCEPT !.session = status]
    ELSE Refused(t)

ToolCallRequested(t, c) ==
  IF t.call[c] = Absent
    THEN [t EXCEPT !.call[c] = "requested"]
    ELSE Refused(t)

ToolIntentRecorded(t, c) == [t EXCEPT !.intent = @ \cup {c}]

ToolCallStatusChanged(t, c, status) ==
  IF CallMayBecome(t.call[c], status)
    THEN [t EXCEPT !.call[c] = status]
    ELSE Refused(t)

ApprovalRequested(t, c) ==
  IF t.call[c] # Absent /\ t.approval[c] = Absent
    THEN [t EXCEPT !.approval[c] = "pending"]
    ELSE Refused(t)

ApprovalDecided(t, c, decision) ==
  IF t.approval[c] = "pending"
    THEN [t EXCEPT !.approval[c] = decision]
    ELSE Refused(t)

PermissionDecided(t, c, permit) == [t EXCEPT !.permit[c] = permit]

SandboxDecided(t, c, verdict) == [t EXCEPT !.sandbox[c] = verdict]

GroundguardChecked(t, verdict) == [t EXCEPT !.answer = verdict]

\* replay_events returns (it raises for a trace that is not Replayable).
\* The last conjunct is the check made after the loop: every requested call
\* has a persisted tool_intent.
Replayable(t) ==
  /\ ~t.corrupt
  /\ t.session # Absent
  /\ \A c \in CallIds : t.call[c] # Absent => c \in t.intent

WaitingCalls(t) == {c \in CallIds : t.call[c] = "waiting_approval"}

PendingApprovals(t) == {c \in CallIds : t.approval[c] = "pending"}
=============================================================================
