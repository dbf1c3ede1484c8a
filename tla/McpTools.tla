------------------------------ MODULE McpTools ------------------------------
(***************************************************************************)
(* Calls of tools on local MCP servers, and the files that allow them:     *)
(* mcp_tool (adapters/tools/mcp.py), the check of fingerprints             *)
(* (adapters/mcp/runtime.py), the stdio client (adapters/mcp/stdio.py),    *)
(* mcp-trust.json and mcp-consent.json (mcp_lite.py), and the commands     *)
(* `agenttrust mcp trust` and `mcp consent` (interfaces/cli.py).           *)
(*                                                                         *)
(* An actor, which is a thread of an agent program or a command, runs one  *)
(* operation at a time. It reads the two files whenever it needs an answer *)
(* from them, without a lock, and changes one by reading all of it,        *)
(* truncating it and writing it again. A server is started for one         *)
(* operation: it answers when and what it likes, before it is asked and    *)
(* again, hangs, exits, or does not read what it is sent.                  *)
(*                                                                         *)
(* A hash is what was hashed. One tool of each server is looked at.        *)
(***************************************************************************)
EXTENDS Integers, Sequences, FiniteSets

CONSTANTS
    Actor,          \* what calls tools or runs commands
    Server,         \* names of servers
    Command,        \* command lines a configuration may give for a server
    Surface,        \* fingerprints that the tool may have
    None,           \* no configuration, no record, no hash, no such tool
    Allowance,      \* bounds: how many operations, edits of the configuration, extra
                    \* lines or exits of servers, deaths or interrupts there may be
    MaxPipe,        \* bound: lines that wait to be read
    Earlier         \* contents of the two files that commands have left

Files == {"trust", "consent"}

\* What mcp-trust.json says of a server. A server trusted without a
\* configuration has no hash, one trusted for other tools no fingerprint.
Record ==
    [status : {"trusted", "trust_stale"}, allowed : BOOLEAN,
     command : Command \union {None}, surface : Surface \union {None}]
Trust == [Server -> Record \union {None}]
Consent == SUBSET Server

Allowances == [operations : Nat, edits : Nat, noise : Nat, faults : Nat]

ASSUME McpAssumption ==
    /\ None \notin Command \union Surface \union Record
    /\ Earlier \subseteq [trust : Trust, consent : Consent]
    /\ Allowance \subseteq Allowances /\ MaxPipe \in Nat

Operations == {"call", "trust", "grant", "revoke"}
Outcomes == {"none", "ok", "simulated", "error", "raised", "interrupted"}
Steps ==
    {"idle",
     "permission", "consent", "record", "start",     \* before a server runs
     "initialize", "list", "invoke",                 \* waiting for its answer
     "send",                                         \* waiting until it reads a call
     "read", "truncate", "fill",                     \* changing a file
     "close", "profile", "done"}

\* A call or command. entry is the record that `mcp trust` writes, or the one
\* that a call goes by. entitled is history: the files that allowed it since
\* it began.
Task ==
    [step : Steps, operation : Operations, server : Server, tested : BOOLEAN,
     command : Command \union {None}, entry : Record \union {None},
     outcome : Outcomes, entitled : SUBSET Files]

\* A line of a server: the id of the request it answers (0 if none), and what
\* it answers; a surface is the tool in the result of tools/list. An
\* undecodable line is not UTF-8, a malformed one no message. The answer of a
\* request that is over only matters if it is one of these.
Line ==
    [id : 0 .. 3, kind : {"undecodable", "malformed", "error", "object", "listing"},
     surface : Surface \union {None}]

\* A server process, the id of the last request it got (1 is initialize, 2
\* tools/list, 3 tools/call), whether the client's reader is dead, and
\* history: the ids it has written, and the surface it answered tools/list with.
Child ==
    [state : {"none", "running", "exited", "killed"}, asked : 0 .. 3,
     pipe : Seq(Line), deaf : BOOLEAN,
     answered : SUBSET (1 .. 3), listed : Surface \union {None}]

VARIABLES
    config,         \* the command that the configuration gives for each server
    file,           \* contents of the two files
    torn,           \* those that are truncated, or two writes mixed
    task, child,
    copy,           \* the file as an actor has read it to change it
    left,           \* of the allowance
    ledger,         \* history: what the changes add up to, in the order of their writes
    granted,        \* history: what `mcp trust` has approved
    overlapped      \* history: files that two actors were changing at once

files == <<file, torn, ledger, granted, overlapped>>
mcpVars == <<config, files, task, child, copy, left>>

NoChild ==
    [state |-> "none", asked |-> 0, pipe |-> <<>>, deaf |-> FALSE,
     answered |-> {}, listed |-> None]

NoFiles == [f \in Files |-> IF f = "trust" THEN [s \in Server |-> None] ELSE {}]

AreFiles(contents) ==
    /\ DOMAIN contents = Files
    /\ contents["trust"] \in Trust /\ contents["consent"] \in Consent

McpTypes ==
    /\ config \in [Server -> Command \union {None}]
    /\ AreFiles(file) /\ AreFiles(ledger)
    /\ torn \subseteq Files /\ overlapped \subseteq Files
    /\ task \in [Actor -> Task]
    /\ DOMAIN copy = Actor /\ \A a \in Actor : AreFiles(copy[a])
    /\ child \in [Actor -> Child]
    /\ left \in Allowances
    /\ granted \subseteq [server : Server, command : Command, surface : Surface]

\* Whether a file allows calls of a server's tool: is_mcp_tool_trusted,
\* has_mcp_consent.
Allows(contents, f, s) ==
    IF f = "trust"
      THEN contents[f][s] # None /\ contents[f][s].status = "trusted" /\ contents[f][s].allowed
      ELSE s \in contents[f]

Quiet(s) ==
    [step |-> "idle", operation |-> "call", server |-> s, tested |-> FALSE,
     command |-> None, entry |-> None,
     outcome |-> "none", entitled |-> {}]

Grants(trust) ==
    {grant \in [server : Server, command : Command, surface : Surface] :
        /\ trust[grant.server] # None
        /\ trust[grant.server].command = grant.command
        /\ trust[grant.server].surface = grant.surface}

\* The files are as earlier commands have left them.
McpInit ==
    /\ config \in [Server -> Command \union {None}]
    /\ \E earlier \in Earlier :
          /\ file = [f \in Files |-> IF f = "trust" THEN earlier.trust ELSE earlier.consent]
          /\ granted = Grants(earlier.trust)
    /\ ledger = file
    /\ torn = {} /\ overlapped = {}
    /\ \E s \in Server : task = [a \in Actor |-> Quiet(s)]
    /\ child = [a \in Actor |-> NoChild] /\ copy = [a \in Actor |-> NoFiles]
    /\ left \in Allowance

----------------------------------------------------------------------------
(* The beginning of calls and commands *)

Spend(what) == left[what] > 0 /\ left' = [left EXCEPT ![what] = @ - 1]

Goto(a, step) == task' = [task EXCEPT ![a].step = step]

\* The operation is over with this outcome, except for what `step` does.
Leave(a, outcome, step) ==
    task' = [task EXCEPT ![a].outcome = outcome, ![a].step = step]

\* A person edits the configuration.
EditConfig(s) ==
    /\ Spend("edits")
    /\ \E command \in (Command \union {None}) \ {config[s]} :
          config' = [config EXCEPT ![s] = command]
    /\ UNCHANGED <<files, task, child, copy>>

Begin(a, operation, s, tested, step, outcome, entry) ==
    /\ task[a].step = "idle"
    /\ Spend("operations")
    /\ task' = [task EXCEPT ![a] =
          [step |-> step, operation |-> operation, server |-> s, tested |-> tested,
           command |-> config[s], entry |-> entry, outcome |-> outcome,
           entitled |-> {f \in Files : Allows(ledger, f, s)}]]
    /\ UNCHANGED <<config, files, child, copy>>

\* mcp_tool, explicitly simulated: refused unless the runtime simulates.
SimulateCall(a, s) ==
    \E tested, allowed \in BOOLEAN :
        LET simulated == tested \/ allowed IN
        Begin(a, "call", s, tested,
              IF simulated /\ ~tested THEN "profile" ELSE "done",
              IF simulated THEN "simulated" ELSE "error", None)

\* mcp_tool otherwise. A test mode trusts everybody, but calls a configured
\* server all the same.
BeginCall(a, s) ==
    \E tested \in BOOLEAN :
        IF config[s] = None
          THEN Begin(a, "call", s, tested, "done", IF tested THEN "simulated" ELSE "error", None)
          ELSE Begin(a, "call", s, tested, IF tested THEN "record" ELSE "permission", "none", None)

\* `mcp trust`; trust_mcp_server, if there is no configuration.
BeginTrust(a, s) ==
    \E allowed \in BOOLEAN :
        LET entry == [status |-> "trusted", allowed |-> allowed, command |-> config[s], surface |-> None] IN
        Begin(a, "trust", s, FALSE, IF config[s] = None THEN "read" ELSE "consent", "none", entry)

\* `mcp consent grant`, `mcp consent revoke`.
BeginConsent(a, s) ==
    \E operation \in {"grant", "revoke"} : Begin(a, operation, s, FALSE, "read", "none", None)

\* Wrong: a call's consent is not looked at.
CheckTrustOnly(a) ==
    /\ task[a].step = "permission"
    /\ IF "trust" \in torn THEN Leave(a, "raised", "done")
       ELSE IF Allows(file, "trust", task[a].server) THEN Goto(a, "record")
       ELSE Leave(a, "error", "done")
    /\ UNCHANGED <<config, files, child, copy, left>>

\* _consent_records raises ValueError for a file that is no JSON.
CheckTrust(a) ==
    /\ task[a].step = "permission"
    /\ IF "trust" \in torn THEN Leave(a, "raised", "done")
       ELSE IF Allows(file, "trust", task[a].server) THEN Goto(a, "consent")
       ELSE Leave(a, "error", "done")
    /\ UNCHANGED <<config, files, child, copy, left>>

CheckConsent(a) ==
    /\ task[a].step = "consent"
    /\ IF "consent" \in torn THEN Leave(a, "raised", "done")
       ELSE IF Allows(file, "consent", task[a].server)
         THEN Goto(a, IF task[a].operation = "call" THEN "record" ELSE "start")
       ELSE Leave(a, "error", "done")
    /\ UNCHANGED <<config, files, child, copy, left>>

\* The record is read again, and its command compared. (A call whose input is
\* no object ends here as well.)
ReadRecord(a) ==
    /\ task[a].step = "record"
    /\ LET record == file["trust"][task[a].server] IN
       \/ "trust" \in torn /\ Leave(a, "raised", "done")
       \/ "trust" \notin torn /\ Leave(a, "error", "done")
       \/ /\ "trust" \notin torn /\ record # None
          /\ IF record.command = task[a].command
               THEN task' = [task EXCEPT ![a].step = "start", ![a].entry = record]
               ELSE Leave(a, "error", "read")
    /\ UNCHANGED <<config, files, child, copy, left>>

----------------------------------------------------------------------------
(* The client and its server *)

\* McpStdioClient.__enter__: the server is launched and asked to initialize.
Launch(a) ==
    /\ task[a].step = "start"
    /\ \/ /\ child' = [child EXCEPT ![a] = [NoChild EXCEPT !.state = "running", !.asked = 1]]
          /\ Goto(a, "initialize")
       \/ UNCHANGED child /\ Leave(a, "error", "close")
    /\ UNCHANGED <<config, files, copy, left>>

Waiting(a) == task[a].step \in {"initialize", "list", "invoke"} /\ ~child[a].deaf
Incoming(a) == Head(child[a].pipe)
Read(a) == [child EXCEPT ![a].pipe = Tail(@)]

Parses(a) == Incoming(a).kind \notin {"undecodable", "malformed"}

\* Wrong: the next answer is taken, whatever it answers.
IsAnswerWhateverId(a) == Parses(a)

IsAnswer(a) == Parses(a) /\ Incoming(a).id = child[a].asked

\* A line that answers another request, or none, is skipped.
Skip(a) ==
    /\ Waiting(a) /\ child[a].pipe # <<>>
    /\ Parses(a) /\ ~IsAnswer(a)
    /\ child' = Read(a)
    /\ UNCHANGED <<config, files, task, copy, left>>

\* A line that is no message, an error, or a tools/list without tools.
Malformed(a) ==
    /\ Waiting(a) /\ child[a].pipe # <<>>
    /\ \/ Incoming(a).kind = "malformed"
       \/ IsAnswer(a) /\ Incoming(a).kind = "error"
       \/ IsAnswer(a) /\ Incoming(a).kind = "object" /\ task[a].step = "list"
    /\ child' = Read(a)
    /\ Leave(a, "error", "close")
    /\ UNCHANGED <<config, files, copy, left>>

\* A line that is not UTF-8 ends the reader thread with an exception, and takes
\* with it the lines that were read in one piece with it. The client goes on
\* to wait for what the reader should have left in the queue.
ReaderDies(a) ==
    /\ Waiting(a)
    /\ \E i \in DOMAIN child[a].pipe : child[a].pipe[i].kind = "undecodable"
    /\ child' = [child EXCEPT ![a].deaf = TRUE]
    /\ UNCHANGED <<config, files, task, copy, left>>

Answered(a, step) ==
    /\ task[a].step = step /\ Waiting(a) /\ child[a].pipe # <<>>
    /\ IsAnswer(a) /\ Incoming(a).kind \in {"object", "listing"}

Initialized(a) ==
    /\ Answered(a, "initialize")
    /\ child' = [Read(a) EXCEPT ![a].asked = 2]
    /\ Goto(a, "list")
    /\ UNCHANGED <<config, files, copy, left>>

\* Wrong: a tool without a trusted fingerprint passes.
MatchesIfKnown(a) == task[a].entry.surface \in {None, Incoming(a).surface}

Matches(a) == Incoming(a).surface # None /\ task[a].entry.surface = Incoming(a).surface

\* list_tools in a call: the tool is called only if it is as it was trusted,
\* otherwise its trust is about to become stale. A call may be too long for
\* the pipe to the server; the other requests are not.
ListedForCall(a) ==
    /\ Answered(a, "list") /\ Incoming(a).kind = "listing"
    /\ task[a].operation = "call"
    /\ IF Matches(a)
         THEN \E step \in {"send", "invoke"} :
              /\ child' = [Read(a) EXCEPT ![a].asked = IF step = "invoke" THEN 3 ELSE @,
                                          ![a].listed = Incoming(a).surface]
              /\ Goto(a, step)
         ELSE /\ child' = Read(a)
              /\ Leave(a, "error", "read")
    /\ UNCHANGED <<config, files, copy, left>>

\* list_tools in `mcp trust`: a tool to be trusted must be there.
ListedForTrust(a) ==
    /\ Answered(a, "list") /\ Incoming(a).kind = "listing"
    /\ task[a].operation = "trust"
    /\ child' = Read(a)
    /\ IF ~task[a].entry.allowed THEN Goto(a, "close")
       ELSE IF Incoming(a).surface = None THEN Leave(a, "error", "close")
       ELSE task' = [task EXCEPT ![a].step = "close", ![a].entry.surface = Incoming(a).surface]
    /\ UNCHANGED <<config, files, copy, left>>

\* The server reads the rest of the call, or closes its input.
ReadsOn(a) ==
    /\ task[a].step = "send" /\ child[a].state = "running"
    /\ \/ /\ child' = [child EXCEPT ![a].asked = 3]
          /\ Goto(a, "invoke")
       \/ UNCHANGED child /\ Leave(a, "error", "close")
    /\ UNCHANGED <<config, files, copy, left>>

SendFails(a) ==
    /\ task[a].step = "send" /\ child[a].state # "running"
    /\ Leave(a, "error", "close")
    /\ UNCHANGED <<config, files, child, copy, left>>

Invoked(a) ==
    /\ Answered(a, "invoke")
    /\ child' = Read(a)
    /\ Leave(a, "ok", "close")
    /\ UNCHANGED <<config, files, copy, left>>

\* Wrong: a silent server is waited for as long as it runs.
NoAnswerWhileRunning(a) ==
    /\ Waiting(a) /\ child[a].state # "running"
    /\ Leave(a, "error", "close")
    /\ UNCHANGED <<config, files, child, copy, left>>

\* No line within the time-out, though one may come too late; or the server
\* has closed its output or its input.
NoAnswer(a) ==
    /\ Waiting(a)
    /\ Leave(a, "error", "close")
    /\ UNCHANGED <<config, files, child, copy, left>>

AfterClose(a, outcome) ==
    CASE outcome = "raised" -> "done"
      [] outcome # "raised" /\ task[a].operation = "call" -> "profile"
      [] outcome = "none" /\ task[a].operation # "call" -> "read"
      [] OTHER -> "done"

\* Wrong: a server that does not end within a second is left alone.
CloseOnce(a) ==
    /\ task[a].step = "close"
    /\ \E state \in {"exited", child[a].state} :
          child' = [child EXCEPT ![a].state = state]
    /\ Goto(a, AfterClose(a, task[a].outcome))
    /\ UNCHANGED <<config, files, copy, left>>

\* McpStdioClient.close: a server that is still there is terminated, and
\* killed a second later; TimeoutExpired of the second wait is an exception.
Close(a) ==
    /\ task[a].step = "close"
    /\ \/ /\ child' = [child EXCEPT ![a].state = IF @ = "running" THEN "exited" ELSE @]
          /\ Goto(a, AfterClose(a, task[a].outcome))
       \/ /\ child[a].state = "running"
          /\ child' = [child EXCEPT ![a].state = "killed"]
          /\ Leave(a, "raised", "done")
    /\ UNCHANGED <<config, files, copy, left>>

----------------------------------------------------------------------------
(* Changing a file *)

FileOf(a) == IF task[a].operation \in {"call", "trust"} THEN "trust" ELSE "consent"

Changing(a) == task[a].step \in {"truncate", "fill"}

\* Wrong: a call writes the record it read before the server was started.
ReadToChangeFromCall(a) ==
    /\ task[a].step = "read"
    /\ LET f == FileOf(a)
           known == IF task[a].operation = "call" /\ task[a].entry # None
                      THEN [file EXCEPT !["trust"][task[a].server] = task[a].entry] ELSE file IN
       IF f \in torn
         THEN Leave(a, "raised", "close") /\ UNCHANGED <<overlapped, copy>>
         ELSE /\ Goto(a, "truncate")
              /\ copy' = [copy EXCEPT ![a] = [NoFiles EXCEPT ![f] = known[f]]]
              /\ overlapped' = IF \E q \in Actor \ {a} : Changing(q) /\ FileOf(q) = f
                                 THEN overlapped \union {f} ELSE overlapped
    /\ UNCHANGED <<config, file, torn, ledger, granted, child, left>>

\* mark_mcp_trust_stale, trust_mcp_server(_surface), grant_mcp_consent,
\* revoke_mcp_consent: the records are read...
ReadToChange(a) ==
    /\ task[a].step = "read"
    /\ LET f == FileOf(a) IN
       IF \/ f \in torn
          \/ task[a].operation = "call" /\ file[f][task[a].server] = None
         THEN /\ Leave(a, "raised", "close")
              /\ UNCHANGED <<overlapped, copy>>
         ELSE /\ Goto(a, "truncate")
              /\ copy' = [copy EXCEPT ![a] = [NoFiles EXCEPT ![f] = file[f]]]
              /\ overlapped' = IF \E q \in Actor \ {a} : Changing(q) /\ FileOf(q) = f
                                 THEN overlapped \union {f} ELSE overlapped
    /\ UNCHANGED <<config, file, torn, ledger, granted, child, left>>

\* ...the file is opened, which truncates it...
Truncate(a) ==
    /\ task[a].step = "truncate"
    /\ torn' = torn \union {FileOf(a)}
    /\ Goto(a, "fill")
    /\ UNCHANGED <<config, file, ledger, granted, overlapped, child, copy, left>>

Changed(a, contents) ==
    CASE task[a].operation = "grant" -> contents \union {task[a].server}
      [] task[a].operation = "revoke" -> contents \ {task[a].server}
      [] task[a].operation = "trust" -> [contents EXCEPT ![task[a].server] = task[a].entry]
      [] task[a].operation = "call" ->
            [contents EXCEPT ![task[a].server] = IF @ = None THEN None ELSE [@ EXCEPT !.status = "trust_stale"]]

Approved(a) ==
    IF task[a].operation = "trust" /\ task[a].entry.surface # None
      THEN {[server |-> task[a].server, command |-> task[a].entry.command,
             surface |-> task[a].entry.surface]}
      ELSE {}

\* ...and all of it is written. Over what another actor wrote meanwhile,
\* the longer of the two may show through.
Fill(a) ==
    /\ task[a].step = "fill"
    /\ LET f == FileOf(a)
           now == [ledger EXCEPT ![f] = Changed(a, @)]
           step == IF task[a].operation = "call" THEN "close" ELSE "done"
           outcome == IF task[a].operation = "call" THEN task[a].outcome ELSE "ok" IN
       /\ file' = [file EXCEPT ![f] = Changed(a, copy[a][f])]
       /\ torn' \in {torn \ {f}} \union (IF f \in torn THEN {} ELSE {torn \union {f}})
       /\ ledger' = now
       /\ task' = [q \in Actor |->
             LET entitled == task[q].entitled
                             \union (IF Allows(now, f, task[q].server) THEN {f} ELSE {}) IN
             IF q = a THEN [task[a] EXCEPT !.step = step, !.outcome = outcome,
                                           !.entitled = entitled]
             ELSE IF task[q].step = "idle" THEN task[q]
             ELSE [task[q] EXCEPT !.entitled = entitled]]
    /\ granted' = granted \union Approved(a)
    /\ copy' = [copy EXCEPT ![a] = NoFiles]
    /\ UNCHANGED <<config, overlapped, child, left>>

\* mcp_sandbox_profile reads the file once more for the result's metadata.
ReadProfile(a) ==
    /\ task[a].step = "profile"
    /\ IF "trust" \in torn THEN Leave(a, "raised", "done") ELSE Goto(a, "done")
    /\ UNCHANGED <<config, files, child, copy, left>>

Return(a) ==
    /\ task[a].step = "done"
    /\ task' = [task EXCEPT ![a] = Quiet(task[a].server)]
    /\ child' = [child EXCEPT ![a] = NoChild]
    /\ UNCHANGED <<config, files, copy, left>>

----------------------------------------------------------------------------
(* The server, interrupts and deaths *)

Noise(a, line) == line.id # child[a].asked \/ line.id \in child[a].answered

\* A server writes what it likes: it answers a request it has got, again
\* perhaps, one it has not got yet, or none.
Answer(a) ==
    /\ child[a].state = "running"
    /\ Len(child[a].pipe) < MaxPipe
    /\ \E line \in Line :
          /\ line.id < child[a].asked => line.kind \in {"object", "malformed", "undecodable"}
          /\ line.kind \in {"malformed", "undecodable"} => line.id = 0
          /\ line.kind = "listing" => line.id = 2
          /\ line.surface # None => line.kind = "listing"
          /\ IF Noise(a, line) THEN Spend("noise") ELSE UNCHANGED left
          /\ child' = [child EXCEPT
                ![a].pipe = Append(@, line),
                ![a].answered = @ \union ({line.id} \ {0})]
    /\ UNCHANGED <<config, files, task, copy>>

Exit(a) ==
    /\ child[a].state = "running"
    /\ Spend("noise")
    /\ child' = [child EXCEPT ![a].state = "exited"]
    /\ UNCHANGED <<config, files, task, copy>>

\* What launching and closing a server may have come to.
LeftBehind(a) ==
    {child[a].state}
    \union (IF task[a].step = "start" THEN {"running"} ELSE {})
    \union (IF task[a].step = "close" /\ child[a].state = "running" THEN {"exited", "killed"} ELSE {})

\* KeyboardInterrupt, at any moment of an operation. It is no Exception:
\* __enter__ does not close the server that it has launched, and close has
\* forgotten the server before it terminates it and waits for its end.
Interrupt(a) ==
    /\ Spend("faults")
    /\ \/ /\ task[a].step \notin {"idle", "done", "start", "initialize"}
          /\ Leave(a, "raised", "close")
          /\ UNCHANGED child
       \/ /\ task[a].step \in {"start", "initialize", "close"}
          /\ Leave(a, "interrupted", "done")
          /\ \E state \in LeftBehind(a) : child' = [child EXCEPT ![a].state = state]
    /\ copy' = [copy EXCEPT ![a] = NoFiles]
    /\ UNCHANGED <<config, files>>

\* A process dies with all its threads, or several do. What becomes of their
\* servers is not followed.
Crash(dead) ==
    /\ Spend("faults")
    /\ \E a \in dead : task[a].step # "idle"
    /\ task' = [a \in Actor |-> IF a \in dead THEN Quiet(task[a].server) ELSE task[a]]
    /\ child' = [a \in Actor |-> IF a \in dead THEN NoChild ELSE child[a]]
    /\ copy' = [a \in Actor |-> IF a \in dead THEN NoFiles ELSE copy[a]]
    /\ UNCHANGED <<config, files>>

----------------------------------------------------------------------------

\* What an actor does by itself in an operation.
Work(a) ==
    \/ CheckTrust(a) \/ CheckConsent(a) \/ ReadRecord(a)
    \/ Launch(a) \/ Skip(a) \/ Malformed(a) \/ ReaderDies(a)
    \/ Initialized(a) \/ ListedForCall(a) \/ ListedForTrust(a) \/ SendFails(a) \/ Invoked(a)
    \/ NoAnswer(a) \/ Close(a)
    \/ ReadToChange(a) \/ Truncate(a) \/ Fill(a)
    \/ ReadProfile(a)

\* What its server does; nothing says that it ever does.
Serve(a) == Answer(a) \/ ReadsOn(a) \/ Exit(a)

BeginOperation(a) ==
    \E s \in Server : SimulateCall(a, s) \/ BeginCall(a, s) \/ BeginTrust(a, s) \/ BeginConsent(a, s)

McpNext ==
    \/ \E s \in Server : EditConfig(s)
    \/ \E a \in Actor :
          BeginOperation(a) \/ Work(a) \/ Return(a) \/ Serve(a) \/ Interrupt(a)
    \/ \E dead \in SUBSET Actor : Crash(dead)

McpSpec ==
    McpInit /\ [][McpNext]_mcpVars /\ \A a \in Actor : WF_mcpVars(Work(a) \/ Return(a))

----------------------------------------------------------------------------
(* Properties *)

\* A change of a file is never lost, unless two actors were changing the
\* file at once (nothing locks it), or it is unreadable.
FilesKeepEveryChange == \A f \in Files \ (torn \union overlapped) : file[f] = ledger[f]

\* A tool is only called on a server whose command line, and the tool's
\* fingerprint as this very server listed it, some `mcp trust` has approved,
\* however the files were changed meanwhile.
CallsMatchGrants ==
    \A a \in Actor : task[a].step \in {"send", "invoke"} =>
        [server |-> task[a].server, command |-> task[a].command, surface |-> child[a].listed]
            \in granted

\* A server is only started if it was trusted (for a call) and consented to
\* at some moment since the call or command began; the test mode excepted.
OnlyEntitledServersStart ==
    \A a \in Actor : child[a].state # "none" /\ ~task[a].tested =>
        {"consent"} \union (IF task[a].operation = "call" THEN {"trust"} ELSE {})
            \subseteq task[a].entitled \union overlapped

\* A call that returns a result got it from a line with its own id (however
\* early the server wrote that): an answer of an earlier request, a repeated
\* or a late one, is never taken for it.
OkMeansAnswered ==
    \A a \in Actor : task[a].operation = "call" /\ task[a].outcome = "ok" => 3 \in child[a].answered

\* No server is left running when mcp_tool or a command has returned or
\* raised, however it ended: of the interrupts, only those that strike while
\* a server is launched, in the handshake or inside close() may leave one. (A
\* cancelled asynchronous call ends before its mcp_tool does, see ToolCalls;
\* its server runs until its thread has closed it.)
ServersAreStopped ==
    \A a \in Actor : task[a].step = "done" /\ task[a].outcome # "interrupted" =>
        child[a].state # "running"

\* The two waits without a deadline: for a reader that a line which is not
\* UTF-8 has killed, and for a running server to read a long call.
WaitsForever(a) ==
    \/ task[a].step \in {"initialize", "list", "invoke"} /\ child[a].deaf
    \/ task[a].step = "send" /\ child[a].state = "running"

\* Every call and every command comes to an end, whether the server answers,
\* hangs or exits, unless it comes to one of these two waits.
CallsEnd == \A a \in Actor : task[a].step # "idle" ~> task[a].step = "idle" \/ WaitsForever(a)
=============================================================================
