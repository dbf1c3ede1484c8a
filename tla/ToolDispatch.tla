---------------------------- MODULE ToolDispatch ----------------------------
(***************************************************************************)
(* From a call of a governed function, or of a session's execute, to the   *)
(* tool that runs and back to the caller: govern and govern_async          *)
(* (governance.py), the registration of tools in a session                 *)
(* (interfaces/python_api.py, permissions/engine.py), and the gateway      *)
(* (adapters/tools/gateway.py).                                            *)
(*                                                                         *)
(* The callers are threads of one program, or tasks of its event loop. The *)
(* wrappers they call share one session of the program or open a session   *)
(* for each call; what a wrapped function returns goes through a           *)
(* dictionary of its wrapper, keyed by the number of the call in its       *)
(* session. The pipeline of a session (GovernedSession) is one step here.  *)
(***************************************************************************)
EXTENDS PolicyEngine

CONSTANTS
    Caller,
    Programs        \* what the program may be

\* govern(): the tool's name, the default effect it declares, whether it is
\* govern_async, and whether it was given a session (or a runtime).
\* `name` tells two functions apart.
Wrapper == [name : STRING, tool : STRING, effect : Effects, async : BOOLEAN, shared : BOOLEAN]

\* The program: which callers there are and how many calls they make (a
\* bound), its wrappers, its direct calls of the session they share and of
\* which kind that is, its policy, and the approval mode of its sessions.
IsProgram(p) ==
    /\ DOMAIN p = {"callers", "calls", "wrappers", "direct", "async", "rules", "hooks", "mode"}
    /\ p.callers \subseteq Caller /\ p.calls \in Nat /\ p.wrappers \subseteq Wrapper
    /\ GlobsMatchText(p.rules, p.hooks)
    /\ \A call \in p.direct : IsTuple(call.argv)
    /\ \A rule \in p.rules : \A pattern \in rule.argvs : IsTuple(pattern)
    /\ p.async \in BOOLEAN /\ p.mode \in {"deferred", "inline_prompt"}
    /\ \A w \in p.wrappers : w.async /\ w.shared => p.async   \* no other can be registered

ASSUME DispatchAssumption == \A p \in Programs : IsProgram(p)

VARIABLES
    program,
    registry,       \* of the shared session: handlers and specs, by tool
    failed,         \* whether an exception has ended the shared session
    sequence,       \* the number of its last call
    caller,
    results,        \* the wrappers' dictionaries
    calls,          \* how many calls there have been
    half,           \* history: a tool's handler was registered and its spec refused
    mixed           \* history: sync calls of one wrapper, in sessions of their own,
                    \* were between storing a value and taking it at once

dispatchVars == <<program, registry, failed, sequence, caller, results, calls, half, mixed>>

CallerSteps == {"idle", "entering", "running", "stored", "pending", "returned"}
CallerOutcomes == {"none", "refused", "denied", "failed", "raised", "ok", "value", "missing"}

\* A call in flight: the wrapper that was called, if it was one, and whether
\* it opened a session; its serial number, which is the value it computes;
\* its number in its session; the wrapped function that runs (none for a
\* built-in tool), under which default effect, and whether a person agreed.
NoCall ==
    [step |-> "idle", wrapper |-> {}, call |-> Absent, fresh |-> FALSE, serial |-> 0,
     number |-> 0, runs |-> {}, default |-> "deny", agreed |-> FALSE,
     outcome |-> "none", value |-> 0]

\* A wrapped call has no path, command or argv.
CallOf(w) == [tool |-> w.tool, path |-> Absent, command |-> Absent, argv |-> <<>>]

CallsIn(p) ==
    [step : CallerSteps, wrapper : SUBSET p.wrappers,
     call : {Absent} \union p.direct \union {CallOf(w) : w \in p.wrappers},
     fresh : BOOLEAN, serial : Nat, number : Nat, runs : SUBSET p.wrappers,
     default : Effects, agreed : BOOLEAN, outcome : CallerOutcomes, value : Nat]

RegistriesIn(p) ==
    [handlers : SUBSET p.wrappers, asyncs : SUBSET p.wrappers,
     specs : SUBSET [tool : STRING, effect : Effects, async : BOOLEAN]]

DispatchTypes ==
    /\ IsProgram(program)
    /\ registry \in RegistriesIn(program)
    /\ failed \in BOOLEAN /\ half \in BOOLEAN /\ mixed \in BOOLEAN
    /\ sequence \in Nat /\ calls \in 0 .. program.calls
    /\ results \subseteq [wrapper : program.wrappers, number : Nat, value : Nat]
    /\ caller \in [Caller -> CallsIn(program)]

----------------------------------------------------------------------------
(* The registration of tools *)

NothingRegistered == [handlers |-> {}, asyncs |-> {}, specs |-> {}]

SpecOf(w) == [tool |-> w.tool, effect |-> w.effect, async |-> w.async]

\* ToolGateway.register, register_async: the tool has another handler of this
\* kind. The built-in tools have sync ones.
Taken(reg, w) ==
    IF w.async THEN \E v \in reg.asyncs : v.tool = w.tool /\ v # w
    ELSE w.tool \in DOMAIN BuiltinDefault \/ \E v \in reg.handlers : v.tool = w.tool /\ v # w

\* PermissionEngine.register_tool_spec: the tool has another spec.
Conflicts(reg, w) == \E spec \in reg.specs : spec.tool = w.tool /\ spec # SpecOf(w)

Accepts(reg, w) == ~Taken(reg, w) /\ ~Conflicts(reg, w)

\* register_tool, register_async_tool: the handler first, then the spec.
Registered(reg, w) ==
    IF Taken(reg, w) THEN reg
    ELSE [handlers |-> reg.handlers \union (IF w.async THEN {} ELSE {w}),
          asyncs   |-> reg.asyncs \union (IF w.async THEN {w} ELSE {}),
          specs    |-> IF \E spec \in reg.specs : spec.tool = w.tool THEN reg.specs
                       ELSE reg.specs \union {SpecOf(w)}]

\* _default_tool_decision: a tool that nobody registered is denied.
Default(reg, tool) ==
    IF \E spec \in reg.specs : spec.tool = tool
      THEN (CHOOSE spec \in reg.specs : spec.tool = tool).effect
    ELSE IF tool \in DOMAIN BuiltinDefault THEN BuiltinDefault[tool]
    ELSE "deny"

\* ToolGateway.execute, execute_async: an async session prefers async handlers.
HandlerOf(reg, tool, async) ==
    LET native == {w \in reg.asyncs : w.tool = tool} IN
    IF async /\ native # {} THEN native ELSE {w \in reg.handlers : w.tool = tool}

----------------------------------------------------------------------------
(* Calls *)

DispatchInit ==
    /\ program \in Programs
    /\ registry = NothingRegistered
    /\ failed = FALSE /\ half = FALSE /\ mixed = FALSE
    /\ sequence = 0 /\ calls = 0
    /\ caller = [c \in Caller |-> NoCall]
    /\ results = {}

Finish(c, outcome) ==
    caller' = [caller EXCEPT ![c].step = "returned", ![c].outcome = outcome]

StartCall(c, wrapper, call, fresh, refused) ==
    /\ c \in program.callers /\ caller[c].step = "idle"
    /\ calls < program.calls /\ calls' = calls + 1
    /\ caller' = [caller EXCEPT ![c] = [NoCall EXCEPT
          !.step = IF refused THEN "returned" ELSE "entering",
          !.outcome = IF refused THEN "refused" ELSE "none",
          !.wrapper = wrapper, !.call = call, !.fresh = fresh, !.serial = calls + 1]]

\* wrapped(): the tool is registered first; then arguments that are no JSON
\* are refused.
CallWrapper(c, w) ==
    /\ \E json \in BOOLEAN :
          StartCall(c, {w}, CallOf(w), ~w.shared,
                    ~json \/ ~Accepts(IF w.shared THEN registry ELSE NothingRegistered, w))
    /\ registry' = IF w.shared THEN Registered(registry, w) ELSE registry
    /\ half' = (half \/ (w.shared /\ ~Taken(registry, w) /\ Conflicts(registry, w)))
    /\ UNCHANGED <<program, failed, sequence, results, mixed>>

\* session.execute, session.execute_async.
CallDirect(c, call) ==
    /\ StartCall(c, {}, call, FALSE, FALSE)
    /\ UNCHANGED <<program, registry, failed, sequence, results, half, mixed>>

IsAsync(c) ==
    IF caller[c].fresh THEN \E w \in caller[c].wrapper : w.async ELSE program.async

RegistryOf(c) ==
    IF caller[c].fresh THEN Registered(NothingRegistered, CHOOSE w \in caller[c].wrapper : TRUE)
    ELSE registry

\* A session runs one call at a time: _operation_lock, _async_operation_lock.
MayEnter(c) ==
    /\ caller[c].step = "entering"
    /\ caller[c].fresh \/ \A d \in Caller : caller[d].step = "running" => caller[d].fresh

\* An async session has no execute, an ended one runs no tools.
Refuses(c) ==
    ~caller[c].fresh /\ (failed \/ (program.async /\ \E w \in caller[c].wrapper : ~w.async))

EnterRefused(c) ==
    /\ MayEnter(c) /\ Refuses(c)
    /\ Finish(c, "refused")
    /\ UNCHANGED <<program, registry, failed, sequence, results, calls, half, mixed>>

\* A task is cancelled while it waits for its turn.
CancelEntering(c) ==
    /\ caller[c].step = "entering" /\ IsAsync(c)
    /\ Finish(c, "raised")
    /\ UNCHANGED <<program, registry, failed, sequence, results, calls, half, mixed>>

\* How an admitted call goes on: denied, waiting for a person, or running.
Proceed(c, number, default, runs, verdict, agreed) ==
    caller' = [caller EXCEPT ![c] = [@ EXCEPT
        !.number = number, !.default = default, !.runs = runs, !.agreed = agreed,
        !.step = IF verdict \in {"running", "pending"} THEN verdict ELSE "returned",
        !.outcome = IF verdict \in {"running", "pending"} THEN "none" ELSE verdict]]

\* RunToolUseCase.execute up to the final permission.
Verdicts(default, call) ==
    LET decision == Decide(program.rules, default, call) IN
    IF decision = "deny" \/ Hooked(program.hooks, call) THEN {"denied"}
    ELSE IF decision = "allow" THEN {"running"}
    ELSE IF program.mode = "deferred" THEN {"pending"} ELSE {"running", "denied"}

Enter(c) ==
    /\ MayEnter(c) /\ ~Refuses(c)
    /\ LET me == caller[c]
           default == Default(RegistryOf(c), me.call.tool)
           runs == HandlerOf(RegistryOf(c), me.call.tool, IsAsync(c)) IN
       \E verdict \in Verdicts(default, me.call) :
          Proceed(c, IF me.fresh THEN 1 ELSE sequence + 1, default, runs, verdict,
                  verdict = "running" /\ Decide(program.rules, default, me.call) = "ask")
    /\ sequence' = IF caller[c].fresh THEN sequence ELSE sequence + 1
    /\ UNCHANGED <<program, registry, failed, results, calls, half, mixed>>

\* Wrong: an allowed call needs no agreement, although it has been suspended.
ResumedVerdictUnbound(decision, agreed) ==
    IF decision = "deny" \/ (decision = "ask" /\ ~agreed) THEN "denied" ELSE "running"

\* finalize_permission, and the table of statuses: a waiting call that is now
\* simply allowed cannot become executing.
ResumedVerdict(decision, agreed) ==
    IF decision = "deny" \/ (decision = "ask" /\ ~agreed) THEN "denied"
    ELSE IF decision = "allow" THEN "raised"
    ELSE "running"

\* A person decides, and the program resumes the run of a wrapped call in a
\* session of its own, with one tool registered again, or another, or none.
\* Nobody takes the value.
Resume(c) ==
    /\ caller[c].step = "pending" /\ caller[c].fresh
    /\ \E tools \in {{}} \union {{w} : w \in program.wrappers}, agreed \in BOOLEAN :
          LET reg == IF tools = {} THEN NothingRegistered
                     ELSE Registered(NothingRegistered, CHOOSE w \in tools : TRUE)
              call == caller[c].call
              default == Default(reg, call.tool)
              runs == HandlerOf(reg, call.tool, \E w \in tools : w.async)
              verdict == IF Hooked(program.hooks, call) THEN "denied"
                         ELSE ResumedVerdict(Decide(program.rules, default, call), agreed) IN
          caller' = [caller EXCEPT ![c] = [@ EXCEPT
              !.wrapper = {}, !.default = default, !.runs = runs, !.agreed = agreed,
              !.step = IF verdict = "running" THEN "running" ELSE "returned",
              !.outcome = IF verdict = "running" THEN "none" ELSE verdict]]
    /\ UNCHANGED <<program, registry, failed, sequence, results, calls, half, mixed>>

\* The program leaves a suspended call alone.
LeavePending(c) ==
    /\ caller[c].step = "pending"
    /\ caller' = [caller EXCEPT ![c] = NoCall]
    /\ UNCHANGED <<program, registry, failed, sequence, results, calls, half, mixed>>

----------------------------------------------------------------------------
(* The tool *)

Slot(c, w) == {r \in results : r.wrapper = w /\ r.number = caller[c].number}

Stored(c, w) ==
    (results \ Slot(c, w)) \union {[wrapper |-> w, number |-> caller[c].number, value |-> caller[c].serial]}

Runs(c, w) == caller[c].step = "running" /\ caller[c].runs = {w}

\* A wrapped function raises an Exception: the handler makes that a result.
FunctionFails(c, w) ==
    /\ Runs(c, w)
    /\ Finish(c, "failed")
    /\ UNCHANGED <<program, registry, failed, sequence, results, calls, half, mixed>>

\* It raises what is no Exception, or the task of the call is cancelled: that
\* ends the session. The thread of a sync function goes on in an async
\* session and may still store its value, under a number that no other call
\* of the wrapper has.
FunctionAborts(c, w) ==
    /\ Runs(c, w)
    /\ Finish(c, "raised")
    /\ failed' = (failed \/ ~caller[c].fresh)
    /\ results' \in {results} \union (IF IsAsync(c) /\ ~w.async THEN {Stored(c, w)} ELSE {})
    /\ UNCHANGED <<program, registry, sequence, calls, half, mixed>>

\* The handler of govern() stores the value; the session goes on to record the
\* result and lets other calls in.
FunctionReturns(c, w) ==
    /\ Runs(c, w) /\ ~w.async
    /\ results' = Stored(c, w)
    /\ caller' = [caller EXCEPT ![c].step = "stored"]
    /\ mixed' = (mixed \/ \E d \in Caller \ {c} :
          /\ caller[d].step = "stored" /\ caller[d].wrapper = {w}
          /\ caller[d].number = caller[c].number
          /\ caller[c].fresh \/ caller[d].fresh)
    /\ UNCHANGED <<program, registry, failed, sequence, calls, half>>

\* ...and the wrapper takes it out again, if it was called.
TakeValue(c) ==
    /\ caller[c].step = "stored"
    /\ IF caller[c].wrapper = {} THEN Finish(c, "ok") /\ UNCHANGED results
       ELSE \E w \in caller[c].wrapper :
              /\ results' = results \ Slot(c, w)
              /\ IF Slot(c, w) = {} THEN Finish(c, "missing")
                 ELSE \E r \in Slot(c, w) :
                        caller' = [caller EXCEPT ![c].step = "returned", ![c].outcome = "value",
                                                 ![c].value = r.value]
    /\ UNCHANGED <<program, registry, failed, sequence, calls, half, mixed>>

\* Wrong: other tasks run between storing the value and taking it.
TaskReturnsInTwo(c, w) ==
    /\ Runs(c, w) /\ w.async
    /\ results' = Stored(c, w)
    /\ caller' = [caller EXCEPT ![c].step = "stored"]
    /\ UNCHANGED <<program, registry, failed, sequence, calls, half, mixed>>

\* govern_async: nothing is awaited between the two.
TaskReturns(c, w) ==
    /\ Runs(c, w) /\ w.async
    /\ IF caller[c].wrapper = {w}
         THEN /\ results' = results \ Slot(c, w)
              /\ caller' = [caller EXCEPT ![c].step = "returned", ![c].outcome = "value",
                                          ![c].value = caller[c].serial]
         ELSE results' = Stored(c, w) /\ Finish(c, "ok")
    /\ UNCHANGED <<program, registry, failed, sequence, calls, half, mixed>>

\* A built-in tool ends; an exception ends its session as well.
BuiltinEnds(c, outcome) ==
    /\ caller[c].step = "running" /\ caller[c].runs = {}
    /\ Finish(c, outcome)
    /\ failed' = (failed \/ (outcome = "raised" /\ ~caller[c].fresh))
    /\ UNCHANGED <<program, registry, sequence, results, calls, half, mixed>>

GetResult(c) ==
    /\ caller[c].step = "returned"
    /\ caller' = [caller EXCEPT ![c] = NoCall]
    /\ UNCHANGED <<program, registry, failed, sequence, results, calls, half, mixed>>

\* The program dies, and starts anew.
ProgramDies ==
    /\ registry' = NothingRegistered
    /\ failed' = FALSE /\ half' = FALSE /\ mixed' = FALSE
    /\ sequence' = 0
    /\ caller' = [c \in Caller |-> NoCall]
    /\ results' = {}
    /\ UNCHANGED <<program, calls>>

----------------------------------------------------------------------------

\* All but a built-in tool.
DispatchStep(c) ==
    \/ \E w \in program.wrappers :
          \/ CallWrapper(c, w)
          \/ FunctionFails(c, w) \/ FunctionAborts(c, w) \/ FunctionReturns(c, w) \/ TaskReturns(c, w)
    \/ \E call \in program.direct : CallDirect(c, call)
    \/ EnterRefused(c) \/ CancelEntering(c) \/ Resume(c) \/ LeavePending(c) \/ TakeValue(c) \/ GetResult(c)

DispatchNext ==
    \/ ProgramDies
    \/ \E c \in Caller :
          \/ DispatchStep(c)
          \/ Enter(c)
          \/ \E outcome \in {"ok", "failed", "raised"} : BuiltinEnds(c, outcome)

DispatchSpec == DispatchInit /\ [][DispatchNext]_dispatchVars

----------------------------------------------------------------------------
(* Properties *)

\* The default effect that the function which runs was declared with, unless
\* a registration has gone half through.
DeclaredEffect(c) ==
    IF half \/ caller[c].runs = {} THEN caller[c].default
    ELSE (CHOOSE w \in caller[c].runs : TRUE).effect

\* A call that waited for a person.
Resumed(c) == caller[c].fresh /\ caller[c].wrapper = {}

\* No tool runs that a rule, a hook or its own declaration denies, whatever
\* else was registered or resumed; none runs without a person's agreement
\* where they ask for it, or where one was waited for.
RunsArePermitted ==
    \A c \in Caller : caller[c].step \in {"running", "stored"} =>
        /\ ~Forbidden(program.rules, program.hooks, DeclaredEffect(c), caller[c].call)
        /\ NeedsConsent(program.rules, DeclaredEffect(c), caller[c].call) \/ Resumed(c) =>
              caller[c].agreed

\* What a wrapped call returns is what its own function returned, and it does
\* return it, unless two threads were in one govern() wrapper with sessions of
\* their own: their calls have the same number.
ValuesReachTheirCallers ==
    \A c \in Caller : caller[c].outcome \in {"value", "missing"} /\ ~mixed =>
        caller[c].outcome = "value" /\ caller[c].value = caller[c].serial
=============================================================================
