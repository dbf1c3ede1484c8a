------------------------------ MODULE ToolCalls ------------------------------
(***************************************************************************)
(* Tool calls from a program to an MCP server and back: ToolDispatch, in   *)
(* which the built-in tool mcp_tool runs as a call of McpTools, beside the *)
(* commands that change the trust in servers.                              *)
(***************************************************************************)
EXTENDS McpTools, ToolDispatch

ASSUME ToolCallsAssumption ==
    /\ Caller \subseteq Actor
    /\ \A p \in Programs : \A w \in p.wrappers : w.tool # "mcp_tool"

vars == <<mcpVars, dispatchVars>>

RunsMcp(c) == caller[c].step = "running" /\ caller[c].runs = {} /\ caller[c].call.tool = "mcp_tool"

\* mcp_tool goes on without its call, which was cancelled.
Abandoned(c) == task[c].step # "idle" /\ ~RunsMcp(c)

\* A call of mcp_tool and mcp_tool itself begin and end together, but for a
\* cancelled call, which has ended its session.
TypeOK ==
    /\ McpTypes /\ DispatchTypes
    /\ \A c \in program.callers :
          /\ RunsMcp(c) => task[c].step # "idle"
          /\ Abandoned(c) => program.async /\ failed

Init == McpInit /\ DispatchInit

\* The gateway calls mcp_tool...
EnterMcp(c) ==
    /\ Enter(c) /\ RunsMcp(c)'
    /\ \E s \in Server : SimulateCall(c, s) \/ BeginCall(c, s)

EnterOther(c) == Enter(c) /\ ~RunsMcp(c)' /\ UNCHANGED mcpVars

BuiltinResult(outcome) ==
    CASE outcome \in {"ok", "simulated"} -> "ok"
      [] outcome = "error" -> "failed"
      [] outcome \in {"raised", "interrupted"} -> "raised"

\* ...and gets its result, or an exception.
McpEnds(c) ==
    /\ RunsMcp(c) /\ Return(c)
    /\ BuiltinEnds(c, BuiltinResult(task[c].outcome))

\* In an async session mcp_tool runs in a thread, which nothing cancels: the
\* call raises CancelledError at once...
CancelMcp(c) ==
    /\ RunsMcp(c) /\ program.async
    /\ BuiltinEnds(c, "raised")
    /\ UNCHANGED mcpVars

\* ...and nobody waits for the result.
AbandonedEnds(c) ==
    /\ c \in program.callers /\ Abandoned(c)
    /\ Return(c)
    /\ UNCHANGED dispatchVars

\* Wrong: a call may return while mcp_tool goes on.
OtherEndsAny(c) ==
    /\ \E outcome \in {"ok", "failed", "raised"} : BuiltinEnds(c, outcome)
    /\ UNCHANGED mcpVars

OtherEnds(c) ==
    /\ ~RunsMcp(c)
    /\ \E outcome \in {"ok", "failed", "raised"} : BuiltinEnds(c, outcome)
    /\ UNCHANGED mcpVars

\* Commands of a person at a terminal.
RunCommand(a) ==
    /\ a \notin program.callers
    /\ \E s \in Server : BeginTrust(a, s) \/ BeginConsent(a, s)
    /\ UNCHANGED dispatchVars

CommandEnds(a) == a \notin program.callers /\ Return(a) /\ UNCHANGED dispatchVars

\* KeyboardInterrupt reaches the main thread only, which in an async program
\* runs no mcp_tool; which one it is of the threads of another is left open.
Surroundings ==
    /\ \/ \E s \in Server : EditConfig(s)
       \/ \E a \in Actor : Serve(a)
       \/ \E a \in Actor : (a \in program.callers => ~program.async) /\ Interrupt(a)
    /\ UNCHANGED dispatchVars

\* The program dies with all its calls, or a command dies.
Death ==
    \/ Crash(program.callers) /\ ProgramDies
    \/ \E a \in Actor \ program.callers : Crash({a}) /\ UNCHANGED dispatchVars

Progress(a) ==
    \/ Work(a) /\ UNCHANGED dispatchVars
    \/ a \in Caller /\ (McpEnds(a) \/ AbandonedEnds(a))
    \/ CommandEnds(a)

Next ==
    \/ \E c \in Caller :
          \/ DispatchStep(c) /\ UNCHANGED mcpVars
          \/ EnterMcp(c) \/ EnterOther(c) \/ OtherEnds(c) \/ CancelMcp(c)
    \/ \E a \in Actor : RunCommand(a) \/ Progress(a)
    \/ Surroundings \/ Death

Spec == Init /\ [][Next]_vars /\ \A a \in Actor : WF_vars(Progress(a))
=============================================================================
