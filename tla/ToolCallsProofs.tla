-------------------------- MODULE ToolCallsProofs --------------------------
(***************************************************************************)
(* Theorems about ToolCalls: its steps are steps of McpTools and of        *)
(* ToolDispatch, so what these two promise holds of a program that calls   *)
(* tools on MCP servers; and mcp_tool goes on without its call only where  *)
(* the call was cancelled.                                                 *)
(***************************************************************************)
EXTENDS ToolCalls, McpToolsProofs, ToolDispatchProofs

Linked ==
    /\ \A c \in program.callers :
          /\ RunsMcp(c) => task[c].step # "idle"
          /\ Abandoned(c) => program.async /\ failed
          /\ task[c].step # "idle" => task[c].operation = "call"
    /\ \A c \in Caller \ program.callers : caller[c].step = "idle"

JInv == IInv /\ DInv /\ Linked

LEMMA CallersAct ==
    ASSUME DInv PROVE program.callers \subseteq Caller /\ program.callers \subseteq Actor
BY ToolCallsAssumption DEF DInv, DispatchTypes, IsProgram

\* A step that begins and ends no operation.
Ongoing ==
    \A a \in Actor : /\ task'[a].step = "idle" <=> task[a].step = "idle"
                     /\ task'[a].operation = task[a].operation

LEMMA GotoIsOngoing ==
    ASSUME McpTypes, NEW a \in Actor, task[a].step # "idle", NEW step, step # "idle", Goto(a, step)
    PROVE  Ongoing
BY DEF Goto, McpTypes, Task, Ongoing

LEMMA LeaveIsOngoing ==
    ASSUME McpTypes, NEW a \in Actor, task[a].step # "idle", NEW step, step # "idle", NEW outcome,
           Leave(a, outcome, step)
    PROVE  Ongoing
BY DEF Leave, McpTypes, Task, Ongoing

LEMMA WorkIsOngoing ==
    ASSUME McpTypes, NEW a \in Actor, Work(a) PROVE Ongoing
<1>0. task[a] \in Task
  BY DEF McpTypes
<1>1. CASE CheckTrust(a)
  BY <1>1, GotoIsOngoing, LeaveIsOngoing DEF CheckTrust
<1>2. CASE CheckConsent(a)
  <2>1. (IF task[a].operation = "call" THEN "record" ELSE "start") # "idle"
    OBVIOUS
  <2> QED  BY <1>2, <2>1, GotoIsOngoing, LeaveIsOngoing DEF CheckConsent
<1>3. CASE ReadRecord(a)
  <2>1. CASE \E entry : task' = [task EXCEPT ![a].step = "start", ![a].entry = entry]
    BY <1>3, <2>1 DEF ReadRecord, McpTypes, Task, Ongoing
  <2>2. CASE Leave(a, "raised", "done") \/ Leave(a, "error", "done") \/ Leave(a, "error", "read")
    BY <1>3, <2>2, LeaveIsOngoing DEF ReadRecord
  <2> QED  BY <1>3, <2>1, <2>2 DEF ReadRecord
<1>4. CASE Launch(a)
  BY <1>4, GotoIsOngoing, LeaveIsOngoing DEF Launch
<1>5. CASE Skip(a) \/ ReaderDies(a)
  BY <1>5 DEF Skip, ReaderDies, Ongoing
<1>6. CASE Malformed(a) \/ NoAnswer(a) \/ SendFails(a)
  <2>1. Leave(a, "error", "close") /\ task[a].step # "idle"
    BY <1>6 DEF Malformed, NoAnswer, SendFails, Waiting
  <2> QED  BY <2>1, LeaveIsOngoing
<1>7. CASE Initialized(a)
  BY <1>7, GotoIsOngoing DEF Initialized, Answered
<1>8. CASE ListedForCall(a)
  BY <1>8, GotoIsOngoing, LeaveIsOngoing DEF ListedForCall, Answered
<1>9. CASE ListedForTrust(a)
  <2>1. task[a].step # "idle"
    BY <1>9 DEF ListedForTrust, Answered
  <2>2. CASE task' = [task EXCEPT ![a].step = "close", ![a].entry.surface = Incoming(a).surface]
    BY <2>1, <2>2 DEF McpTypes, Task, Ongoing
  <2>3. CASE Goto(a, "close") \/ Leave(a, "error", "close")
    BY <2>1, <2>3, GotoIsOngoing, LeaveIsOngoing
  <2> QED  BY <1>9, <2>2, <2>3 DEF ListedForTrust
<1>10. CASE Invoked(a)
  BY <1>10, LeaveIsOngoing DEF Invoked, Answered
<1>11. CASE Close(a)
  <2>1. AfterClose(a, task[a].outcome) # "idle"
    BY <1>0 DEF AfterClose, Task
  <2> QED  BY <1>11, <2>1, GotoIsOngoing, LeaveIsOngoing DEF Close
<1>12. CASE ReadToChange(a)
  BY <1>12, GotoIsOngoing, LeaveIsOngoing DEF ReadToChange
<1>13. CASE Truncate(a)
  BY <1>13, GotoIsOngoing DEF Truncate
<1>14. CASE Fill(a)
  <2> DEFINE f == FileOf(a)
             now == [ledger EXCEPT ![f] = Changed(a, @)]
             more == [q \in Actor |-> task[q].entitled
                         \union (IF Allows(now, f, task[q].server) THEN {f} ELSE {})]
             step == IF task[a].operation = "call" THEN "close" ELSE "done"
             outcome == IF task[a].operation = "call" THEN task[a].outcome ELSE "ok"
  <2>1. task' = [q \in Actor |->
             IF q = a THEN [task[a] EXCEPT !.step = step, !.outcome = outcome,
                                           !.entitled = more[a]]
             ELSE IF task[q].step = "idle" THEN task[q]
             ELSE [task[q] EXCEPT !.entitled = more[q]]]
    BY <1>14 DEF Fill
  <2>3. step \in {"close", "done"}
    OBVIOUS
  <2> HIDE DEF more, step, outcome
  <2>2. task[a].step = "fill"
    BY <1>14 DEF Fill
  <2> QED  BY <2>1, <2>2, <2>3 DEF McpTypes, Task, Ongoing
<1>15. CASE ReadProfile(a)
  BY <1>15, GotoIsOngoing, LeaveIsOngoing DEF ReadProfile
<1> QED
  BY <1>1, <1>2, <1>3, <1>4, <1>5, <1>6, <1>7, <1>8, <1>9, <1>10, <1>11, <1>12, <1>13, <1>14, <1>15
  DEF Work

LEMMA InterruptIsOngoing ==
    ASSUME McpTypes, NEW a \in Actor, Interrupt(a) PROVE Ongoing
BY LeaveIsOngoing DEF Interrupt

LEMMA ServeIsOngoing ==
    ASSUME McpTypes, NEW a \in Actor, Serve(a) PROVE Ongoing
<1>1. CASE Answer(a) \/ Exit(a)
  BY <1>1 DEF Answer, Exit, Ongoing
<1>2. CASE ReadsOn(a)
  BY <1>2, GotoIsOngoing, LeaveIsOngoing DEF ReadsOn
<1> QED  BY <1>1, <1>2 DEF Serve

----------------------------------------------------------------------------
(* Steps of both *)

\* A dispatch goes on, but no call of mcp_tool begins or ends.
LEMMA DispatchKeepsMcp ==
    ASSUME DInv, NEW c \in Caller, DispatchStep(c)
    PROVE  /\ \A d \in Caller : RunsMcp(d)' <=> RunsMcp(d)
           /\ \A d \in Caller \ program.callers : caller[d].step = "idle" => caller'[d].step = "idle"
           /\ program' = program /\ (failed => failed')
<1>0. failed => failed'
  BY DEF DispatchStep, CallWrapper, CallDirect, FunctionFails, FunctionAborts, FunctionReturns, TaskReturns,
         EnterRefused, CancelEntering, Resume, LeavePending, TakeValue, GetResult
<1> USE DEF RunsMcp
<1>1. /\ caller \in [Caller -> CallsIn(program)] /\ caller[c] \in CallsIn(program)
      /\ CallFits(caller[c], program, registry, half, mixed) /\ program \in Programs
  BY DEF DInv, DispatchTypes
<1>2. ASSUME NEW m, caller' = [caller EXCEPT ![c] = m], program' = program,
             ~(m.step = "running" /\ m.runs = {} /\ m.call.tool = "mcp_tool"), ~RunsMcp(c),
             caller[c].step # "idle" \/ c \in program.callers
      PROVE  /\ \A d \in Caller : RunsMcp(d)' <=> RunsMcp(d)
             /\ \A d \in Caller \ program.callers : caller[d].step = "idle" => caller'[d].step = "idle"
             /\ program' = program
  <2>1. caller'[c] = m /\ \A d \in Caller \ {c} : caller'[d] = caller[d]
    BY <1>1, <1>2
  <2> QED  BY <1>2, <2>1
<1>3. ASSUME NEW outcome, Finish(c, outcome), program' = program, ~RunsMcp(c),
             caller[c].step # "idle" \/ c \in program.callers
      PROVE  /\ \A d \in Caller : RunsMcp(d)' <=> RunsMcp(d)
             /\ \A d \in Caller \ program.callers : caller[d].step = "idle" => caller'[d].step = "idle"
             /\ program' = program
  <2> DEFINE m == [caller[c] EXCEPT !.step = "returned", !.outcome = outcome]
  <2>1. caller' = [caller EXCEPT ![c] = m] /\ m.step = "returned"
    BY <1>1, <1>3 DEF Finish, CallsIn
  <2> HIDE DEF m
  <2> QED  BY <1>2, <1>3, <2>1
<1>4. ASSUME NEW w, CallWrapper(c, w) PROVE c \in program.callers /\ caller[c].step = "idle"
      /\ program' = program /\ \E m : caller' = [caller EXCEPT ![c] = m] /\ m.step # "running"
  <2>1. PICK refused \in BOOLEAN : StartCall(c, {w}, CallOf(w), ~w.shared, refused)
    BY <1>4 DEF CallWrapper
  <2> DEFINE m == [NoCall EXCEPT !.step = IF refused THEN "returned" ELSE "entering",
                                 !.outcome = IF refused THEN "refused" ELSE "none",
                                 !.wrapper = {w}, !.call = CallOf(w), !.fresh = ~w.shared,
                                 !.serial = calls + 1]
  <2>2. caller' = [caller EXCEPT ![c] = m] /\ c \in program.callers /\ caller[c].step = "idle"
    BY <2>1 DEF StartCall
  <2>3. m.step # "running"
    BY DEF NoCall
  <2> HIDE DEF m
  <2> QED  BY <1>4, <2>2, <2>3 DEF CallWrapper
<1>5. ASSUME NEW call, CallDirect(c, call) PROVE c \in program.callers /\ caller[c].step = "idle"
      /\ program' = program /\ \E m : caller' = [caller EXCEPT ![c] = m] /\ m.step # "running"
  <2> DEFINE m == [NoCall EXCEPT !.step = "entering", !.outcome = "none", !.wrapper = {},
                                 !.call = call, !.fresh = FALSE, !.serial = calls + 1]
  <2>1. caller' = [caller EXCEPT ![c] = m] /\ c \in program.callers /\ caller[c].step = "idle"
    BY <1>5 DEF CallDirect, StartCall
  <2>2. m.step # "running"
    BY DEF NoCall
  <2> HIDE DEF m
  <2> QED  BY <1>5, <2>1, <2>2 DEF CallDirect
<1>6. ASSUME NEW w, FunctionFails(c, w) \/ FunctionAborts(c, w) \/ FunctionReturns(c, w) \/ TaskReturns(c, w)
      PROVE  /\ caller[c].step = "running" /\ caller[c].runs # {} /\ program' = program
             /\ \E m : caller' = [caller EXCEPT ![c] = m] /\ m.step # "running"
  <2>1. caller[c].step = "running" /\ caller[c].runs # {} /\ program' = program
    BY <1>6 DEF FunctionFails, FunctionAborts, FunctionReturns, TaskReturns, Runs
  <2>2. CASE \E outcome : Finish(c, outcome)
    <3>1. PICK outcome : caller' = [caller EXCEPT ![c] = [caller[c] EXCEPT
              !.step = "returned", !.outcome = outcome]]
      BY <2>2 DEF Finish
    <3>2. [caller[c] EXCEPT !.step = "returned", !.outcome = outcome].step = "returned"
      BY <1>1 DEF CallsIn
    <3> QED  BY <2>1, <3>1, <3>2
  <2>3. CASE caller' = [caller EXCEPT ![c].step = "stored"]
    <3>1. caller' = [caller EXCEPT ![c] = [caller[c] EXCEPT !.step = "stored"]]
      BY <2>3
    <3>2. [caller[c] EXCEPT !.step = "stored"].step = "stored"
      BY <1>1 DEF CallsIn
    <3> QED  BY <2>1, <3>1, <3>2
  <2>4. CASE \E value : caller' = [caller EXCEPT ![c].step = "returned", ![c].outcome = "value",
                                                 ![c].value = value]
    <3>1. PICK value : caller' = [caller EXCEPT ![c] = [caller[c] EXCEPT
              !.step = "returned", !.outcome = "value", !.value = value]]
      BY <2>4
    <3>2. [caller[c] EXCEPT !.step = "returned", !.outcome = "value", !.value = value].step = "returned"
      BY <1>1 DEF CallsIn
    <3> QED  BY <2>1, <3>1, <3>2
  <2> QED  BY <1>6, <2>2, <2>3, <2>4 DEF FunctionFails, FunctionAborts, FunctionReturns, TaskReturns
<1>7. CASE \E w \in program.wrappers :
          \/ CallWrapper(c, w) \/ FunctionFails(c, w) \/ FunctionAborts(c, w)
          \/ FunctionReturns(c, w) \/ TaskReturns(c, w)
  BY <1>0, <1>2, <1>4, <1>6, <1>7
<1>8. CASE \E call \in program.direct : CallDirect(c, call)
  BY <1>0, <1>2, <1>5, <1>8
<1>9. CASE EnterRefused(c) \/ CancelEntering(c)
  BY <1>0, <1>3, <1>9 DEF EnterRefused, CancelEntering, MayEnter
<1>10. CASE Resume(c)
  <2>1. caller[c].step = "pending" /\ caller[c].fresh /\ program' = program
    BY <1>10 DEF Resume
  <2>2. caller[c].call.tool # "mcp_tool"
    <3>1. PICK w \in program.wrappers : caller[c].call = CallOf(w)
      BY <1>1, <2>1 DEF CallFits
    <3>2. CallOf(w).tool = w.tool /\ w.tool # "mcp_tool"
      BY <1>1, ToolCallsAssumption DEF CallOf
    <3> QED  BY <3>1, <3>2
  <2>3. PICK m : caller' = [caller EXCEPT ![c] = m] /\ m.call = caller[c].call
    <3> DEFINE call == caller[c].call
               RegOf(tools) == IF tools = {} THEN NothingRegistered
                               ELSE Registered(NothingRegistered, CHOOSE w \in tools : TRUE)
    <3>0. PICK tools \in {{}} \union {{w} : w \in program.wrappers}, agreed \in BOOLEAN :
          LET default == Default(RegOf(tools), call.tool)
              runs == HandlerOf(RegOf(tools), call.tool, \E w \in tools : w.async)
              verdict == IF Hooked(program.hooks, call) THEN "denied"
                         ELSE ResumedVerdict(Decide(program.rules, default, call), agreed) IN
          caller' = [caller EXCEPT ![c] = [@ EXCEPT
              !.wrapper = {}, !.default = default, !.runs = runs, !.agreed = agreed,
              !.step = IF verdict = "running" THEN "running" ELSE "returned",
              !.outcome = IF verdict = "running" THEN "none" ELSE verdict]]
      BY <1>10 DEF Resume
    <3> DEFINE default == Default(RegOf(tools), call.tool)
               runs == HandlerOf(RegOf(tools), call.tool, \E w \in tools : w.async)
               verdict == IF Hooked(program.hooks, call) THEN "denied"
                          ELSE ResumedVerdict(Decide(program.rules, default, call), agreed)
               step == IF verdict = "running" THEN "running" ELSE "returned"
               outcome == IF verdict = "running" THEN "none" ELSE verdict
               m == [caller[c] EXCEPT !.wrapper = {}, !.default = default, !.runs = runs,
                                      !.agreed = agreed, !.step = step, !.outcome = outcome]
    <3>1. caller' = [caller EXCEPT ![c] = m]
      BY <3>0
    <3> HIDE DEF default, runs, verdict, step, outcome
    <3>2. m.call = caller[c].call
      BY <1>1 DEF CallsIn
    <3> HIDE DEF m
    <3> QED  BY <3>1, <3>2
  <2> QED  BY <1>0, <1>2, <2>1, <2>2, <2>3
<1>11. CASE LeavePending(c) \/ GetResult(c)
  BY <1>0, <1>2, <1>11 DEF LeavePending, GetResult, NoCall
<1>12. CASE TakeValue(c)
  <2>1. caller[c].step = "stored" /\ program' = program
    BY <1>12 DEF TakeValue
  <2>2. CASE \E outcome : Finish(c, outcome)
    BY <1>0, <1>3, <2>1, <2>2
  <2>3. CASE \E value : caller' = [caller EXCEPT ![c].step = "returned", ![c].outcome = "value",
                                                 ![c].value = value]
    <3>1. PICK value : caller' = [caller EXCEPT ![c] = [caller[c] EXCEPT
              !.step = "returned", !.outcome = "value", !.value = value]]
      BY <2>3
    <3>2. [caller[c] EXCEPT !.step = "returned", !.outcome = "value", !.value = value].step = "returned"
      BY <1>1 DEF CallsIn
    <3> QED  BY <1>0, <1>2, <2>1, <3>1, <3>2
  <2> QED  BY <1>12, <2>2, <2>3 DEF TakeValue
<1> QED  BY <1>0, <1>7, <1>8, <1>9, <1>10, <1>11, <1>12 DEF DispatchStep
\* A call enters its tool.
LEMMA EnterMoves ==
    ASSUME DInv, NEW c \in Caller, Enter(c)
    PROVE  /\ caller[c].step = "entering" /\ program' = program /\ failed' = failed
           /\ \A d \in Caller \ {c} : caller'[d] = caller[d]
<1>1. PICK number, default, runs, verdict, agreed : Proceed(c, number, default, runs, verdict, agreed)
  BY DEF Enter
<1> QED  BY <1>1 DEF Enter, MayEnter, Proceed, DInv, DispatchTypes

LEMMA FinishMoves ==
    ASSUME DInv, NEW c \in Caller, NEW outcome, Finish(c, outcome)
    PROVE  caller'[c].step = "returned" /\ \A d \in Caller \ {c} : caller'[d] = caller[d]
BY DEF Finish, DInv, DispatchTypes, CallsIn

LEMMA BeginMoves ==
    ASSUME McpTypes, NEW a \in Actor, NEW s \in Server,
           SimulateCall(a, s) \/ BeginCall(a, s) \/ BeginTrust(a, s) \/ BeginConsent(a, s)
    PROVE  /\ \A q \in Actor \ {a} : task'[q] = task[q]
           /\ SimulateCall(a, s) \/ BeginCall(a, s) =>
                 task'[a].step # "idle" /\ task'[a].operation = "call"
<1>1. ASSUME NEW operation, NEW tested, NEW step, NEW outcome, NEW entry,
             Begin(a, operation, s, tested, step, outcome, entry)
      PROVE  /\ task'[a].step = step /\ task'[a].operation = operation
             /\ \A q \in Actor \ {a} : task'[q] = task[q]
  BY <1>1 DEF Begin, McpTypes
<1>2. CASE SimulateCall(a, s)
  <2>1. PICK tested \in BOOLEAN, allowed \in BOOLEAN :
            Begin(a, "call", s, tested,
                  IF (tested \/ allowed) /\ ~tested THEN "profile" ELSE "done",
                  IF tested \/ allowed THEN "simulated" ELSE "error", None)
    BY <1>2 DEF SimulateCall
  <2> DEFINE step == IF (tested \/ allowed) /\ ~tested THEN "profile" ELSE "done"
             outcome == IF tested \/ allowed THEN "simulated" ELSE "error"
  <2>2. step # "idle"
    OBVIOUS
  <2>3. Begin(a, "call", s, tested, step, outcome, None)
    BY <2>1
  <2> HIDE DEF step, outcome
  <2> QED  BY <1>1, <2>2, <2>3
<1>3. CASE BeginCall(a, s)
  <2>1. PICK tested \in BOOLEAN :
            \/ Begin(a, "call", s, tested, "done", IF tested THEN "simulated" ELSE "error", None)
            \/ Begin(a, "call", s, tested, IF tested THEN "record" ELSE "permission", "none", None)
    BY <1>3 DEF BeginCall
  <2> DEFINE outcome == IF tested THEN "simulated" ELSE "error"
             step == IF tested THEN "record" ELSE "permission"
  <2>2. step # "idle"
    OBVIOUS
  <2>3. Begin(a, "call", s, tested, "done", outcome, None)
        \/ Begin(a, "call", s, tested, step, "none", None)
    BY <2>1
  <2> HIDE DEF step, outcome
  <2> QED  BY <1>1, <2>2, <2>3
<1>4. CASE BeginTrust(a, s) /\ ~SimulateCall(a, s) /\ ~BeginCall(a, s)
  <2>1. PICK step, entry : Begin(a, "trust", s, FALSE, step, "none", entry)
    BY <1>4 DEF BeginTrust
  <2> QED  BY <1>1, <1>4, <2>1
<1>5. CASE BeginConsent(a, s) /\ ~SimulateCall(a, s) /\ ~BeginCall(a, s)
  <2>1. PICK operation : Begin(a, operation, s, FALSE, "read", "none", None)
    BY <1>5 DEF BeginConsent
  <2> QED  BY <1>1, <1>5, <2>1
<1> QED  BY <1>2, <1>3, <1>4, <1>5

LEMMA ReturnMoves ==
    ASSUME McpTypes, NEW a \in Actor, Return(a)
    PROVE  task'[a].step = "idle" /\ \A q \in Actor \ {a} : task'[q] = task[q]
BY DEF Return, Quiet, McpTypes

LEMMA CrashMoves ==
    ASSUME McpTypes, NEW dead, Crash(dead)
    PROVE  /\ \A a \in Actor : a \in dead => task'[a].step = "idle"
           /\ \A a \in Actor : a \notin dead => task'[a] = task[a]
BY DEF Crash, Quiet, McpTypes

\* Every step is one of McpTools and one of ToolDispatch, or leaves it alone.
LEMMA StepsOfBoth ==
    ASSUME JInv, [Next]_vars
    PROVE  [McpNext]_mcpVars /\ [DispatchNext]_dispatchVars
<1>1. program.callers \subseteq Caller /\ program.callers \subseteq Actor /\ Caller \subseteq Actor
  BY CallersAct, ToolCallsAssumption DEF JInv
<1>2. ASSUME NEW c \in Caller, DispatchStep(c) /\ UNCHANGED mcpVars
      PROVE  [McpNext]_mcpVars /\ [DispatchNext]_dispatchVars
  BY <1>2 DEF DispatchNext
<1>3. ASSUME NEW c \in Caller, EnterMcp(c) PROVE [McpNext]_mcpVars /\ [DispatchNext]_dispatchVars
  BY <1>1, <1>3 DEF EnterMcp, DispatchNext, McpNext, BeginOperation
<1>4. ASSUME NEW c \in Caller, EnterOther(c) PROVE [McpNext]_mcpVars /\ [DispatchNext]_dispatchVars
  BY <1>4 DEF EnterOther, DispatchNext
<1>5. ASSUME NEW c \in Caller, OtherEnds(c) \/ CancelMcp(c)
      PROVE  [McpNext]_mcpVars /\ [DispatchNext]_dispatchVars
  BY <1>5 DEF OtherEnds, CancelMcp, DispatchNext
<1>6. ASSUME NEW a \in Actor, RunCommand(a) PROVE [McpNext]_mcpVars /\ [DispatchNext]_dispatchVars
  BY <1>6 DEF RunCommand, McpNext, BeginOperation
<1>7. ASSUME NEW a \in Actor, Progress(a) PROVE [McpNext]_mcpVars /\ [DispatchNext]_dispatchVars
  <2>1. CASE Work(a) /\ UNCHANGED dispatchVars
    BY <2>1 DEF McpNext
  <2>2. CASE a \in Caller /\ McpEnds(a)
    <3>1. /\ Return(a) /\ RunsMcp(a) /\ BuiltinEnds(a, BuiltinResult(task[a].outcome))
          /\ task[a].step = "done" /\ caller[a].step = "running"
      BY <2>2 DEF McpEnds, Return, RunsMcp
    <3>2. task[a].operation = "call"
      BY <2>2, <3>1 DEF JInv, Linked
    <3>3. task[a].outcome \in Outcomes /\ task[a].outcome # "none"
      BY <3>1, <3>2 DEF JInv, IInv, McpTypes, Task, ActorFits, ServerFits, BeforeStart, BeforeAnswer
    <3>4. BuiltinResult(task[a].outcome) \in {"ok", "failed", "raised"}
      BY <3>3 DEF BuiltinResult, Outcomes
    <3> QED  BY <2>2, <3>1, <3>4 DEF McpNext, DispatchNext
  <2>3. CASE CommandEnds(a) \/ AbandonedEnds(a)
    BY <2>3 DEF CommandEnds, AbandonedEnds, McpNext
  <2> QED  BY <1>7, <2>1, <2>2, <2>3 DEF Progress
<1>8. CASE Surroundings
  BY <1>8 DEF Surroundings, McpNext
<1>9. CASE Death
  <2>1. CASE Crash(program.callers) /\ ProgramDies
    BY <1>1, <2>1 DEF McpNext, DispatchNext
  <2>2. CASE \E a \in Actor \ program.callers : Crash({a}) /\ UNCHANGED dispatchVars
    <3>1. PICK a \in Actor : Crash({a}) /\ UNCHANGED dispatchVars
      BY <2>2
    <3>2. {a} \in SUBSET Actor
      OBVIOUS
    <3> QED  BY <3>1, <3>2 DEF McpNext
  <2> QED  BY <1>9, <2>1, <2>2 DEF Death
<1>10. CASE UNCHANGED vars
  BY <1>10 DEF vars
<1> QED  BY <1>2, <1>3, <1>4, <1>5, <1>6, <1>7, <1>8, <1>9, <1>10 DEF Next

----------------------------------------------------------------------------
(* mcp_tool and its call *)

\* mcp_tool runs in the program's session.
LEMMA McpIsShared ==
    ASSUME DInv, NEW c \in Caller, RunsMcp(c) PROVE ~caller[c].fresh
<1> SUFFICES ASSUME caller[c].fresh PROVE FALSE
  OBVIOUS
<1>1. CallFits(caller[c], program, registry, half, mixed) /\ program \in Programs
  BY DEF DInv
<1>2. PICK w \in program.wrappers : caller[c].call = CallOf(w)
  BY <1>1 DEF CallFits
<1>3. CallOf(w).tool = w.tool /\ w.tool # "mcp_tool"
  BY <1>1, ToolCallsAssumption DEF CallOf
<1> QED  BY <1>2, <1>3 DEF RunsMcp

LEMMA LinkedStep ==
    ASSUME JInv, [Next]_vars PROVE Linked'
<1> DEFINE Here(d) == /\ RunsMcp(d) => task[d].step # "idle"
                      /\ Abandoned(d) => program.async /\ failed
                      /\ task[d].step # "idle" => task[d].operation = "call"
<1> USE DEF Abandoned
<1>1. /\ program.callers \subseteq Caller /\ program.callers \subseteq Actor /\ Caller \subseteq Actor
      /\ McpTypes /\ DInv
      /\ \A d \in program.callers : Here(d)
      /\ \A d \in Caller \ program.callers : caller[d].step = "idle"
  BY CallersAct, ToolCallsAssumption DEF JInv, IInv, Linked
\* A caller of whom nothing changes.
<1>2. ASSUME NEW d \in program.callers, task'[d] = task[d], caller'[d] = caller[d],
             program' = program, failed => failed'
      PROVE  Here(d)'
  BY <1>1, <1>2 DEF RunsMcp
<1>3. ASSUME Ongoing, UNCHANGED dispatchVars PROVE Linked'
  <2>1. \A d \in program.callers : Here(d)'
    BY <1>1, <1>3 DEF Ongoing, RunsMcp, dispatchVars
  <2> QED  BY <1>1, <1>3, <2>1 DEF Linked, dispatchVars
<1>4. ASSUME NEW c \in Caller, DispatchStep(c), UNCHANGED mcpVars PROVE Linked'
  <2>1. /\ \A d \in Caller : RunsMcp(d)' <=> RunsMcp(d)
        /\ \A d \in Caller \ program.callers : caller[d].step = "idle" => caller'[d].step = "idle"
        /\ program' = program /\ task' = task /\ (failed => failed')
    BY <1>1, <1>4, DispatchKeepsMcp DEF mcpVars
  <2> QED  BY <1>1, <2>1 DEF Linked
<1>5. ASSUME NEW c \in Caller, Enter(c)
      PROVE  /\ c \in program.callers /\ ~RunsMcp(c)
             /\ program' = program /\ failed' = failed /\ \A d \in Caller \ {c} : caller'[d] = caller[d]
  <2>1. caller[c].step = "entering" /\ program' = program /\ failed' = failed
        /\ \A d \in Caller \ {c} : caller'[d] = caller[d]
    BY <1>1, <1>5, EnterMoves
  <2> QED  BY <1>1, <2>1 DEF RunsMcp
<1>6. ASSUME NEW c \in Caller, EnterMcp(c) PROVE Linked'
  <2>1. PICK s \in Server : SimulateCall(c, s) \/ BeginCall(c, s)
    BY <1>6 DEF EnterMcp
  <2>2. /\ \A q \in Actor \ {c} : task'[q] = task[q]
        /\ task'[c].step # "idle" /\ task'[c].operation = "call"
    BY <1>1, <2>1, BeginMoves
  <2>3. Enter(c) /\ RunsMcp(c)'
    BY <1>6 DEF EnterMcp
  <2>4. \A d \in program.callers : Here(d)'
    BY <1>1, <1>2, <1>5, <2>2, <2>3
  <2> QED  BY <1>1, <1>5, <2>3, <2>4 DEF Linked
<1>7. ASSUME NEW c \in Caller, EnterOther(c) PROVE Linked'
  <2>1. Enter(c) /\ ~RunsMcp(c)' /\ task' = task
    BY <1>7 DEF EnterOther, mcpVars
  <2>2. Here(c)'
    BY <1>1, <1>5, <2>1
  <2>3. \A d \in program.callers : Here(d)'
    BY <1>1, <1>2, <1>5, <2>1, <2>2
  <2> QED  BY <1>1, <1>5, <2>1, <2>3 DEF Linked
<1>8. ASSUME NEW c \in Caller, NEW outcome, BuiltinEnds(c, outcome)
      PROVE  /\ c \in program.callers /\ program' = program
             /\ failed' = (failed \/ (outcome = "raised" /\ ~caller[c].fresh))
             /\ caller'[c].step = "returned" /\ \A d \in Caller \ {c} : caller'[d] = caller[d]
             /\ ~RunsMcp(c)'
  <2>1. caller'[c].step = "returned" /\ \A d \in Caller \ {c} : caller'[d] = caller[d]
    BY <1>1, <1>8, FinishMoves DEF BuiltinEnds
  <2> QED  BY <1>1, <1>8, <2>1 DEF BuiltinEnds, RunsMcp
<1>9. ASSUME NEW c \in Caller, OtherEnds(c) PROVE Linked'
  <2>1. PICK outcome : BuiltinEnds(c, outcome)
    BY <1>9 DEF OtherEnds
  <2>2. ~RunsMcp(c) /\ task' = task
    BY <1>9 DEF OtherEnds, mcpVars
  <2>3. Here(c)'
    BY <1>1, <1>8, <2>1, <2>2
  <2>4. \A d \in program.callers : Here(d)'
    BY <1>1, <1>2, <1>8, <2>1, <2>2, <2>3
  <2> QED  BY <1>1, <1>8, <2>1, <2>4 DEF Linked
<1>9a. ASSUME NEW c \in Caller, CancelMcp(c) PROVE Linked'
  <2>1. BuiltinEnds(c, "raised") /\ RunsMcp(c) /\ program.async /\ task' = task
    BY <1>9a DEF CancelMcp, mcpVars
  <2>2. failed' /\ program' = program /\ ~RunsMcp(c)' /\ c \in program.callers
    BY <1>1, <1>8, <2>1, McpIsShared
  <2>3. Here(c)'
    BY <1>1, <2>1, <2>2
  <2>4. \A d \in program.callers : Here(d)'
    BY <1>1, <1>2, <1>8, <2>1, <2>2, <2>3
  <2> QED  BY <1>1, <1>8, <2>1, <2>4 DEF Linked
<1>10. ASSUME NEW a \in Actor, a \notin program.callers, UNCHANGED dispatchVars,
              \A q \in Actor \ {a} : task'[q] = task[q]
       PROVE  Linked'
  <2>1. \A d \in program.callers : Here(d)'
    BY <1>1, <1>2, <1>10 DEF dispatchVars
  <2> QED  BY <1>1, <1>10, <2>1 DEF Linked, dispatchVars
<1>11. ASSUME NEW a \in Actor, RunCommand(a) PROVE Linked'
  BY <1>1, <1>10, <1>11, BeginMoves DEF RunCommand
<1>12. ASSUME NEW a \in Actor, Progress(a) PROVE Linked'
  <2>1. CASE Work(a) /\ UNCHANGED dispatchVars
    BY <1>1, <1>3, <2>1, WorkIsOngoing
  <2>2. CASE a \in Caller /\ McpEnds(a)
    <3>1. Return(a) /\ RunsMcp(a) /\ BuiltinEnds(a, BuiltinResult(task[a].outcome))
      BY <2>2 DEF McpEnds
    <3>2. task'[a].step = "idle" /\ \A q \in Actor \ {a} : task'[q] = task[q]
      BY <1>1, <3>1, ReturnMoves
    <3>3. ~RunsMcp(a)'
      BY <1>8, <2>2, <3>1
    <3>4. \A d \in program.callers : Here(d)'
      BY <1>1, <1>2, <1>8, <2>2, <3>1, <3>2, <3>3
    <3> QED  BY <1>1, <1>8, <2>2, <3>1, <3>4 DEF Linked
  <2>3. CASE CommandEnds(a)
    BY <1>1, <1>10, <2>3, ReturnMoves DEF CommandEnds
  <2>4. CASE AbandonedEnds(a)
    <3>1. Return(a) /\ ~RunsMcp(a) /\ UNCHANGED dispatchVars
      BY <2>4 DEF AbandonedEnds
    <3>2. task'[a].step = "idle" /\ \A q \in Actor \ {a} : task'[q] = task[q]
      BY <1>1, <3>1, ReturnMoves
    <3>3. ~RunsMcp(a)'
      BY <3>1 DEF RunsMcp, dispatchVars
    <3>4. \A d \in program.callers : Here(d)'
      BY <1>1, <1>2, <3>1, <3>2, <3>3 DEF dispatchVars
    <3> QED  BY <1>1, <3>1, <3>4 DEF Linked, dispatchVars
  <2> QED  BY <1>12, <2>1, <2>2, <2>3, <2>4 DEF Progress
<1>13. CASE Surroundings
  <2>1. CASE \E s \in Server : EditConfig(s)
    BY <1>3, <1>13, <2>1 DEF Surroundings, EditConfig, Ongoing
  <2>2. CASE \E a \in Actor : Serve(a)
    BY <1>1, <1>3, <1>13, <2>2, ServeIsOngoing DEF Surroundings
  <2>3. CASE \E a \in Actor : Interrupt(a)
    BY <1>1, <1>3, <1>13, <2>3, InterruptIsOngoing DEF Surroundings
  <2> QED  BY <1>13, <2>1, <2>2, <2>3 DEF Surroundings
<1>14. CASE Death
  <2>1. CASE Crash(program.callers) /\ ProgramDies
    <3>1. program' = program /\ \A d \in Caller : caller'[d].step = "idle"
      BY <2>1 DEF ProgramDies, NoCall
    <3>2. \A d \in program.callers : task'[d].step = "idle"
      BY <1>1, <2>1, CrashMoves
    <3> QED  BY <1>1, <3>1, <3>2 DEF Linked, RunsMcp
  <2>2. CASE \E a \in Actor \ program.callers : Crash({a}) /\ UNCHANGED dispatchVars
    BY <1>1, <1>10, <2>2, CrashMoves
  <2> QED  BY <1>14, <2>1, <2>2 DEF Death
<1>15. CASE UNCHANGED vars
  BY <1>3, <1>15 DEF vars, mcpVars, Ongoing
<1> QED
  BY <1>4, <1>6, <1>7, <1>9, <1>9a, <1>11, <1>12, <1>13, <1>14, <1>15 DEF Next

LEMMA JointInitHolds == Init => JInv
<1> SUFFICES ASSUME Init PROVE JInv
  OBVIOUS
<1>1. IInv /\ DInv
  BY InitHolds, DispatchInitHolds DEF Init
<1>2. PICK s \in Server : task = [a \in Actor |-> Quiet(s)]
  BY DEF Init, McpInit
<1>3. caller = [c \in Caller |-> NoCall] /\ NoCall.step = "idle"
  BY DEF Init, DispatchInit, NoCall
<1>4. \A a \in Actor : task[a].step = "idle"
  BY <1>2 DEF Quiet
<1>5. program.callers \subseteq Caller /\ program.callers \subseteq Actor
  BY <1>1, CallersAct
<1> QED  BY <1>1, <1>3, <1>4, <1>5 DEF JInv, Linked, RunsMcp, Abandoned

LEMMA JointNextHolds == JInv /\ [Next]_vars => JInv'
BY StepsOfBoth, LinkedStep, NextStep, DispatchNextHolds DEF JInv

----------------------------------------------------------------------------
(* The theorems *)

LEMMA JointInvariant == Spec => []JInv
BY JointInitHolds, JointNextHolds, PTL DEF Spec

\* Types, and that mcp_tool is under way wherever the gateway waits for it,
\* and without its call only if that was cancelled, which has ended the
\* asynchronous session it was made in: nothing starts mcp_tool there again.
THEOREM CallsAreTyped == Spec => []TypeOK
<1>1. JInv => TypeOK
  BY InvariantImplies, DispatchInvariantImplies DEF JInv, TypeOK, Linked
<1> QED  BY <1>1, JointInvariant, PTL

\* No change of the trust or consent file is lost but by an overlap.
THEOREM ChangesAreKept == Spec => []FilesKeepEveryChange
<1>1. JInv => FilesKeepEveryChange
  BY InvariantImplies DEF JInv
<1> QED  BY <1>1, JointInvariant, PTL

\* What a server is asked to run, a person has approved as it is.
THEOREM CallsAreGranted == Spec => []CallsMatchGrants
<1>1. JInv => CallsMatchGrants
  BY InvariantImplies DEF JInv
<1> QED  BY <1>1, JointInvariant, PTL

\* A server starts only with trust and consent.
THEOREM StartsAreEntitled == Spec => []OnlyEntitledServersStart
<1>1. JInv => OnlyEntitledServersStart
  BY InvariantImplies DEF JInv
<1> QED  BY <1>1, JointInvariant, PTL

\* A result is an answer to the call.
THEOREM ResultsAreAnswers == Spec => []OkMeansAnswered
<1>1. JInv => OkMeansAnswered
  BY InvariantImplies DEF JInv
<1> QED  BY <1>1, JointInvariant, PTL

\* No server is left running by an operation that returned or raised, but for
\* interrupts in the launch, in the handshake and inside close(); nor by one
\* whose call was cancelled, once its thread is through.
THEOREM ServersEnd == Spec => []ServersAreStopped
<1>1. JInv => ServersAreStopped
  BY InvariantImplies DEF JInv
<1> QED  BY <1>1, JointInvariant, PTL

\* What runs is permitted, as a reader of the policy takes it: nothing that
\* rules, hooks or the tool's own declaration forbid, and nothing without the
\* agreement they ask for.
THEOREM RunsStayPermitted == Spec => []RunsArePermitted
<1>1. JInv => RunsArePermitted
  BY DispatchInvariantImplies DEF JInv
<1> QED  BY <1>1, JointInvariant, PTL

\* What a wrapped function returns reaches the call that ran it.
THEOREM ValuesAreOwn == Spec => []ValuesReachTheirCallers
<1>1. JInv => ValuesReachTheirCallers
  BY DispatchInvariantImplies DEF JInv
<1> QED  BY <1>1, JointInvariant, PTL
=============================================================================
