----------------------------- MODULE Lifecycle -----------------------------
(***************************************************************************)
(* The status tables of domain/lifecycle.py.  AgentSession.transition and  *)
(* SessionToolCall.transition raise LifecycleTransitionError for a pair    *)
(* that is not in them; nothing else changes a status.                     *)
(***************************************************************************)

SessionStatuses ==
  {"created", "running", "waiting_approval", "completed", "failed", "cancelled"}

CallStatuses ==
  {"requested", "policy_denied", "waiting_approval", "approved",
   "sandbox_denied", "executing", "succeeded", "failed"}

SessionTransitions ==
  {<<"created", "running">>, <<"created", "cancelled">>,
   <<"running", "waiting_approval">>, <<"running", "completed">>,
   <<"running", "failed">>, <<"running", "cancelled">>,
   <<"waiting_approval", "running">>, <<"waiting_approval", "failed">>,
   <<"waiting_approval", "cancelled">>}

CallTransitions ==
  {<<"requested", "policy_denied">>, <<"requested", "waiting_approval">>,
   <<"requested", "sandbox_denied">>, <<"requested", "executing">>,
   <<"requested", "failed">>,
   <<"waiting_approval", "approved">>, <<"waiting_approval", "policy_denied">>,
   <<"waiting_approval", "failed">>,
   <<"approved", "sandbox_denied">>, <<"approved", "executing">>,
   <<"approved", "failed">>,
   <<"executing", "succeeded">>, <<"executing", "failed">>}

SessionMayBecome(from, to) == <<from, to>> \in SessionTransitions

\* Two wrong tables: one lets a waiting call be launched without an approval, one
\* lets a finished call be approved again.
CallMayBecomeUnasked(from, to) ==
  <<from, to>> \in CallTransitions \cup {<<"waiting_approval", "executing">>}

CallMayBecomeAgain(from, to) ==
  <<from, to>> \in CallTransitions \cup {<<"succeeded", "approved">>}

CallMayBecome(from, to) == <<from, to>> \in CallTransitions

TerminalSession == {"completed", "failed", "cancelled"}

TerminalCall == {"policy_denied", "sandbox_denied", "succeeded", "failed"}
=============================================================================
