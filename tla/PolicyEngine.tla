---------------------------- MODULE PolicyEngine ----------------------------
(***************************************************************************)
(* What the policy says of a tool call: domain/policy.py (rules, hooks),   *)
(* permissions/engine.py (precedence), permissions/hooks.py and the        *)
(* built-in tools of tools/registry.py.                                    *)
(*                                                                         *)
(* A glob is the set of what it matches. A call is                         *)
(*   [tool, path, command, argv]                                           *)
(* where path and command are Absent if the argument is no string, and     *)
(* argv is <<>> unless it is a list of words; a word stands for all its    *)
(* spellings that _normalized_argv makes equal. A rule is                  *)
(*   [tool, effect, paths, commands, argvs]                                *)
(* with sets of globs, and sequences of globs and Many ("**") for argvs; a *)
(* hook is [tool, path], its path Absent if it has no path_glob. The order *)
(* of rules only matters for the one that is reported.                     *)
(***************************************************************************)
EXTENDS Integers, Sequences

CONSTANTS
    Absent,
    Many,       \* the token ** of argv patterns
    AnyTool     \* the tool * of hooks

Effects == {"allow", "ask", "deny"}

\* What is no string matches no glob.
GlobsMatchText(rules, hooks) ==
    /\ \A rule \in rules : Absent \notin UNION (rule.paths \union rule.commands)
    /\ \A hook \in hooks : hook.path # Absent => Absent \notin hook.path

\* Arguments and argv patterns are tuples.
IsTuple(list) == list \in Seq({list[i] : i \in DOMAIN list})

BuiltinDefault ==
    [tool \in {"read_file", "write_file", "shell", "unsafe_shell_command",
               "git_diff", "mcp_tool", "skill_context"} |->
        CASE tool \in {"read_file", "git_diff", "skill_context"} -> "allow"
          [] tool \in {"write_file", "shell", "mcp_tool"}        -> "ask"
          [] tool = "unsafe_shell_command"                       -> "deny"]

\* _argv_pattern_matches: ** stands for any number of words. matches(i, j) of
\* the code is i \in matches[j].
ArgvPatternMatches(argv, pattern) ==
    LET matches[j \in 0 .. Len(pattern)] ==
            IF j = Len(pattern) THEN {Len(argv)}
            ELSE {i \in 0 .. Len(argv) :
                     IF pattern[j + 1] = Many THEN \E k \in i .. Len(argv) : k \in matches[j + 1]
                     ELSE i < Len(argv) /\ argv[i + 1] \in pattern[j + 1] /\ i + 1 \in matches[j + 1]}
    IN  0 \in matches[0]

\* A command that is no string is the list of words, joined.
CommandText(call) ==
    IF call.command # Absent THEN call.command
    ELSE IF call.argv # <<>> THEN call.argv ELSE Absent

\* PolicyRule.matches: all that the rule restricts must match.
RuleMatches(rule, call) ==
    /\ rule.tool = call.tool
    /\ rule.paths # {} => call.path # Absent /\ \E glob \in rule.paths : call.path \in glob
    /\ rule.commands # {} =>
          CommandText(call) # Absent /\ \E glob \in rule.commands : CommandText(call) \in glob
    /\ rule.argvs # {} =>
          call.argv # <<>> /\ \E pattern \in rule.argvs : ArgvPatternMatches(call.argv, pattern)

\* HookRule.matches. Hooks may only deny.
HookMatches(hook, call) ==
    /\ hook.tool \in {AnyTool, call.tool}
    /\ hook.path # Absent => call.path # Absent /\ call.path \in hook.path

Hooked(hooks, call) == \E hook \in hooks : HookMatches(hook, call)

MatchingEffects(rules, call) == {rule.effect : rule \in {r \in rules : RuleMatches(r, call)}}

\* PermissionEngine.evaluate, for a tool with this default effect.
Decide(rules, default, call) ==
    LET effects == MatchingEffects(rules, call) IN
    IF "deny" \in effects \/ default = "deny" THEN "deny"
    ELSE IF "ask" \in effects THEN "ask"
    ELSE IF "allow" \in effects THEN "allow"
    ELSE default

----------------------------------------------------------------------------
(* What a reader of a policy expects of it *)

\* A word for word reading of an argv pattern: the words can be cut into
\* consecutive pieces, one for each token, of one word unless it is Many.
ReadsAs(argv, pattern) ==
    \E cut \in [0 .. Len(pattern) -> 0 .. Len(argv)] :
        /\ cut[0] = 0 /\ cut[Len(pattern)] = Len(argv)
        /\ \A j \in 1 .. Len(pattern) :
              IF pattern[j] = Many THEN cut[j - 1] <= cut[j]
              ELSE cut[j] = cut[j - 1] + 1 /\ argv[cut[j]] \in pattern[j]

Concerns(rule, call) ==
    /\ rule.tool = call.tool
    /\ rule.paths = {} \/ call.path \in UNION rule.paths
    /\ rule.commands = {} \/ CommandText(call) \in UNION rule.commands
    /\ rule.argvs = {} \/ (call.argv # <<>> /\ \E pattern \in rule.argvs : ReadsAs(call.argv, pattern))

\* This call must not run at all...
Forbidden(rules, hooks, default, call) ==
    \/ default = "deny"
    \/ \E rule \in rules : rule.effect = "deny" /\ Concerns(rule, call)
    \/ \E hook \in hooks : hook.tool \in {AnyTool, call.tool}
                           /\ (hook.path = Absent \/ call.path \in hook.path)

\* ...or not before a person has agreed.
NeedsConsent(rules, default, call) ==
    \/ \E rule \in rules : rule.effect = "ask" /\ Concerns(rule, call)
    \/ default = "ask" /\ ~\E rule \in rules : rule.effect = "allow" /\ Concerns(rule, call)
=============================================================================
