---------------------------- MODULE StateTables ----------------------------
(***************************************************************************)
(* What one event of a run does to its rows in .agenttrust/state.db        *)
(* (adapters/evidence/sqlite_state.py), and which events may follow in its *)
(* trace. Identities, times and digests are left out: a call and its       *)
(* approval are one member of Call, a row is its status.                   *)
(***************************************************************************)
EXTENDS Lifecycle

CONSTANTS
    Call,       \* the tool calls of the run
    Absent      \* no such row

ASSUME AbsentAssumption ==
    Absent \notin SessionStatuses \union CallStatuses \union {"pending", "approved", "denied"}

ApprovalStatuses == {"pending", "approved", "denied"}

\* The tables sessions, tool_calls and approvals, as far as they are about the run.
Tables ==
    [session : SessionStatuses \union {Absent},
     call : [Call -> CallStatuses \union {Absent}],
     approval : [Call -> ApprovalStatuses \union {Absent}]]

NoRows ==
    [session |-> Absent,
     call |-> [c \in Call |-> Absent],
     approval |-> [c \in Call |-> Absent]]

\* The events that have a handler in _apply_event; all others change no row.
\* A created session, a requested call and a requested approval insert a row,
\* the others update one.
SessionEvents == [about : {"session"}, status : SessionStatuses]
CallEvents == [about : {"call"}, id : Call, status : CallStatuses]
ApprovalEvents == [about : {"approval"}, id : Call, status : ApprovalStatuses]
Event == SessionEvents \union CallEvents \union ApprovalEvents

IsInsert(e) ==
    \/ e.about = "session" /\ e.status = "created"
    \/ e.about = "call" /\ e.status = "requested"
    \/ e.about = "approval" /\ e.status = "pending"

\* Wrong: a decision is written into the call's status.
ProjectedOnCall(tables, e) ==
    IF e.about = "session" THEN [tables EXCEPT !.session = e.status]
                           ELSE [tables EXCEPT !.call[e.id] = e.status]

Projected(tables, e) ==
    CASE e.about = "session" -> [tables EXCEPT !.session = e.status]
      [] e.about = "call" -> [tables EXCEPT !.call[e.id] = e.status]
      [] e.about = "approval" -> [tables EXCEPT !.approval[e.id] = e.status]

\* The handler's reads before it writes: assert_session_transition and
\* assert_tool_call_transition on the row, which must be there.
Readable(tables, e) ==
    CASE e.about = "session" ->
            IF IsInsert(e) THEN tables.session = Absent ELSE SessionMayBecome(tables.session, e.status)
      [] e.about = "call" -> IsInsert(e) \/ CallMayBecome(tables.call[e.id], e.status)
      [] e.about = "approval" -> TRUE

\* The rows an UPDATE finds: it must change exactly one.
Matches(tables, e) ==
    CASE e.about = "session" -> tables.session # Absent
      [] e.about = "call" -> tables.call[e.id] # Absent
      [] e.about = "approval" -> tables.approval[e.id] = "pending"

\* The keys of an INSERT: the row is new and the row it refers to is there.
Insertable(tables, e) ==
    CASE e.about = "session" -> tables.session = Absent
      [] e.about = "call" -> tables.call[e.id] = Absent /\ tables.session # Absent
      [] e.about = "approval" -> tables.approval[e.id] = Absent /\ tables.call[e.id] # Absent

Fits(tables, e) == IF IsInsert(e) THEN Insertable(tables, e) ELSE Matches(tables, e)

\* The events the session and its approvals come to: the entities raise for
\* any other, and replay refuses it.
MayFollow(tables, e) ==
    CASE e.about = "session" ->
            IF IsInsert(e) THEN tables.session = Absent ELSE SessionMayBecome(tables.session, e.status)
      [] e.about = "call" ->
            IF IsInsert(e) THEN tables.call[e.id] = Absent /\ tables.session # Absent
                           ELSE CallMayBecome(tables.call[e.id], e.status)
      [] e.about = "approval" ->
            IF IsInsert(e) THEN tables.approval[e.id] = Absent /\ tables.call[e.id] = "waiting_approval"
                           ELSE tables.approval[e.id] = "pending"
=============================================================================
