-------------------------- MODULE MCStateProjection --------------------------
(* A run that has just requested its call. *)
EXTENDS StateProjection, TLC

CONSTANTS c1

RECURSIVE Recorded(_, _)
Recorded(rows, events) ==
    IF events = <<>> THEN <<>>
    ELSE LET next == Projected(rows, Head(events)) IN
         <<[event |-> Head(events), tables |-> next]>> \o Recorded(next, Tail(events))

Session(status) == [about |-> "session", status |-> status]
ToolCall(status) == [about |-> "call", id |-> c1, status |-> status]
Approval(status) == [about |-> "approval", id |-> c1, status |-> status]

Started == <<Session("created"), Session("running")>>
Requested == Started \o <<ToolCall("requested")>>

MCStarts == {Recorded(NoRows, Requested)}

MCAppended ==
    {ToolCall(status) : status \in {"waiting_approval", "approved", "policy_denied"}}
    \union {Approval(status) : status \in {"pending", "approved"}}
=============================================================================
