----------------------------- MODULE MCToolCalls -----------------------------
(* Instances of ToolCalls for TLC. *)
EXTENDS ToolCalls

CONSTANTS a, b, s, c, u, v

\* Nothing, or a trusted tool of the server and consent.
MCEarlier ==
    {[trust |-> [t \in {s} |-> None], consent |-> {}],
     [trust |-> [t \in {s} |-> [status |-> "trusted", allowed |-> TRUE, command |-> c, surface |-> u]],
      consent |-> {s}]}

Allow(operations, edits, noise, faults) ==
    [operations |-> operations, edits |-> edits, noise |-> noise, faults |-> faults]
NoMcp == Allow(0, 0, 0, 0)

\* One call and a noisy server; two operations side by side, with an edit of
\* the configuration or a fault. Calls that may be cancelled get less noise.
MCAllowance ==
    {NoMcp, Allow(1, 0, 2, 1), Allow(1, 0, 1, 1), Allow(2, 1, 0, 0), Allow(2, 0, 0, 1), Allow(2, 0, 0, 0)}

Function(name, tool, effect, async, shared) ==
    [name |-> name, tool |-> tool, effect |-> effect, async |-> async, shared |-> shared]

Call(tool, path, command, argv) ==
    [tool |-> tool, path |-> path, command |-> command, argv |-> argv]

Rule(tool, effect, paths, commands, argvs) ==
    [tool |-> tool, effect |-> effect, paths |-> paths, commands |-> commands, argvs |-> argvs]

Program(callers, most, wrappers, direct, async, rules, hooks, mode) ==
    [callers |-> callers, calls |-> most, wrappers |-> wrappers, direct |-> direct, async |-> async,
     rules |-> rules, hooks |-> hooks, mode |-> mode]

\* Argument patterns against argument lists.
Words == {"rm", "x"}
Argvs == UNION {[1 .. n -> Words] : n \in 0 .. 2}
Patterns == UNION {[1 .. n -> {{"rm"}, Words, Many}] : n \in 1 .. 3}
ArgvPrograms ==
    {Program({a}, 1, {}, {Call("shell", Absent, Absent, argv) : argv \in Argvs}, FALSE,
             {Rule("shell", effect, {}, {}, {pattern})}, {}, "inline_prompt") :
        effect \in {"deny", "allow"}, pattern \in Patterns}

\* Rules of all kinds against built-in, unregistered and wrapped tools.
RuleCalls ==
    {Call(tool, path, command, <<>>) :
        tool \in {"read_file", "write_file", "unsafe_shell_command", "unknown"},
        path \in {"in", "secret", Absent}, command \in {<<"rm">>, Absent}}
RulePrograms ==
    {Program({a}, 1, {}, RuleCalls, FALSE,
        {Rule(tool, one, {{"secret"}}, {}, {}), Rule(tool, other, {}, commands, {})},
        hooks, "inline_prompt") :
            tool \in {"read_file", "write_file", "unsafe_shell_command", "unknown"},
            one \in Effects, other \in Effects, commands \in {{}, {{<<"rm">>}}},
            hooks \in {{}, {[tool |-> AnyTool, path |-> {"secret"}]}}}

\* Governed functions, two callers.
FunctionPrograms ==
    {Program({a, b}, 2, {Function("f", "f", one, async, shared), Function("g", tool, other, async2, shared)},
             {Call("f", Absent, Absent, <<>>)}, async \/ async2, {}, {}, "deferred") :
        one \in {"allow", "ask"}, other \in Effects, tool \in {"f", "git_diff"},
        async \in BOOLEAN, async2 \in BOOLEAN, shared \in BOOLEAN}

McpPrograms ==
    {Program(callers, 2, {}, {Call("mcp_tool", Absent, Absent, <<>>)}, async,
             {Rule("mcp_tool", "allow", {}, {}, {})}, {}, "inline_prompt") :
        callers \in {{a}, {a, b}}, async \in BOOLEAN}

MCPrograms == ArgvPrograms \union RulePrograms \union FunctionPrograms \union McpPrograms

MCInit ==
    /\ Init
    /\ (program \in McpPrograms) <=> (left # NoMcp)
    /\ left = Allow(1, 0, 2, 1) => program.callers = {a} /\ ~program.async
    /\ left = Allow(1, 0, 1, 1) => program.callers = {a} /\ program.async
    \* an edit beside a call of a and a command of b
    /\ left = Allow(2, 1, 0, 0) => program.callers = {a} /\ ~program.async /\ granted # {}
    /\ left = Allow(2, 0, 0, 1) => ~program.async
    /\ left = Allow(2, 0, 0, 0) => program.callers = {a, b} /\ program.async
    /\ left = NoMcp => granted = {} /\ config = [t \in {s} |-> None]

MCSpec == MCInit /\ [][Next]_vars /\ \A x \in Actor : WF_vars(Progress(x))
=============================================================================
