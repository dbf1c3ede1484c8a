--------------------------- MODULE McpToolsProofs ---------------------------
(***************************************************************************)
(* Theorems about McpTools, for any servers, commands, surfaces, actors    *)
(* and budgets: calls match grants, started servers are entitled to, a     *)
(* result is an answer, servers are stopped, and files keep every change.  *)
(***************************************************************************)
EXTENDS McpTools, SequenceTheorems, TLAPS

----------------------------------------------------------------------------
(* What the steps do to an actor's task and server *)

\* The other actors' tasks and servers are as they were.
Alone(a) == \A q \in Actor \ {a} : task'[q] = task[q] /\ child'[q] = child[q]

LEMMA Moves ==
    ASSUME task \in [Actor -> Task], NEW a \in Actor, NEW t, task' = [task EXCEPT ![a] = t]
    PROVE  task'[a] = t /\ \A q \in Actor \ {a} : task'[q] = task[q]
OBVIOUS

LEMMA GotoMoves ==
    ASSUME task \in [Actor -> Task], NEW a \in Actor, NEW step \in Steps, Goto(a, step)
    PROVE  /\ task' \in [Actor -> Task]
           /\ task'[a] = [task[a] EXCEPT !.step = step]
           /\ \A q \in Actor \ {a} : task'[q] = task[q]
BY DEF Goto, Task

LEMMA LeaveMoves ==
    ASSUME task \in [Actor -> Task], NEW a \in Actor,
           NEW outcome \in Outcomes, NEW step \in Steps, Leave(a, outcome, step)
    PROVE  /\ task' \in [Actor -> Task]
           /\ task'[a] = [task[a] EXCEPT !.step = step, !.outcome = outcome]
           /\ \A q \in Actor \ {a} : task'[q] = task[q]
<1> DEFINE left_task == [task[a] EXCEPT !.step = step, !.outcome = outcome]
<1>1. left_task \in Task
  BY DEF Task
<1>2. task' = [task EXCEPT ![a] = left_task]
  BY DEF Leave, Task
<1> HIDE DEF left_task
<1>3. /\ task' \in [Actor -> Task] /\ task'[a] = left_task
      /\ \A q \in Actor \ {a} : task'[q] = task[q]
  BY <1>1, <1>2
<1> QED  BY <1>3 DEF left_task

LEMMA ReadMoves ==
    ASSUME child \in [Actor -> Child], NEW a \in Actor, child[a].pipe # <<>>, child' = Read(a)
    PROVE  /\ child' \in [Actor -> Child]
           /\ Incoming(a) \in Line
           /\ child'[a] = [child[a] EXCEPT !.pipe = Tail(@)]
           /\ \A q \in Actor \ {a} : child'[q] = child[q]
<1>1. child[a] \in Child /\ child[a].pipe \in Seq(Line)
  BY DEF Child
<1>2. Tail(child[a].pipe) \in Seq(Line) /\ Head(child[a].pipe) \in Line
  BY <1>1
<1>3. child' = [child EXCEPT ![a] = [child[a] EXCEPT !.pipe = Tail(@)]]
  BY DEF Read
<1>4. [child[a] EXCEPT !.pipe = Tail(@)] \in Child
  BY <1>1, <1>2 DEF Child
<1> QED  BY <1>2, <1>3, <1>4 DEF Incoming

LEMMA AfterCloseCases ==
    ASSUME NEW a, NEW outcome
    PROVE  /\ AfterClose(a, outcome) \in {"done", "profile", "read"}
           /\ AfterClose(a, outcome) = "read" => task[a].operation # "call"
BY DEF AfterClose

LEMMA SpendingType ==
    ASSUME left \in Allowances, NEW what \in {"operations", "edits", "noise", "faults"}, Spend(what)
    PROVE  left' \in Allowances
BY DEF Spend, Allowances

----------------------------------------------------------------------------
(* Types *)

LEMMA QuietType ==
    ASSUME NEW s \in Server
    PROVE  Quiet(s) \in Task
BY McpAssumption DEF Quiet, Task, Steps, Operations, Outcomes, Files

LEMMA NoChildType == NoChild \in Child
<1>1. <<>> \in Seq(Line)
  OBVIOUS
<1> QED  BY <1>1 DEF NoChild, Child

LEMMA NoFilesType == AreFiles(NoFiles)
BY DEF NoFiles, AreFiles, Trust, Consent, Files

LEMMA ChangedType ==
    ASSUME task \in [Actor -> Task], NEW a \in Actor, NEW contents, AreFiles(contents)
    PROVE  LET f == FileOf(a) IN
           /\ f \in Files
           /\ f = "trust" /\ (task[a].operation = "trust" => task[a].entry # None) => Changed(a, contents[f]) \in Trust
           /\ f = "consent" => Changed(a, contents[f]) \in Consent
<1> DEFINE f == FileOf(a)
<1>1. f \in Files
  BY DEF FileOf, Files
<1>2. task[a] \in Task
  OBVIOUS
<1>3. CASE task[a].operation = "call"
  <2> DEFINE t == contents["trust"]
             s == task[a].server
  <2>1. t \in Trust /\ s \in Server /\ f = "trust"
    BY <1>2, <1>3 DEF AreFiles, Task, FileOf
  <2>2. Changed(a, t) = [t EXCEPT ![s] = IF t[s] = None THEN None ELSE [t[s] EXCEPT !.status = "trust_stale"]]
    BY <1>3 DEF Changed
  <2>3. t[s] # None => [t[s] EXCEPT !.status = "trust_stale"] \in Record
    BY <2>1 DEF Trust, Record
  <2> HIDE DEF t, s
  <2>4. Changed(a, t) \in Trust
    BY <2>1, <2>2, <2>3 DEF Trust
  <2> QED  BY <2>1, <2>4, <1>1 DEF t
<1>4. CASE task[a].operation = "trust"
  BY <1>2, <1>4 DEF FileOf, Changed, Trust, Task, Files, AreFiles
<1>5. CASE task[a].operation \in {"grant", "revoke"}
  BY <1>2, <1>5 DEF FileOf, Changed, Consent, Task, Files, AreFiles
<1> QED  BY <1>1, <1>2, <1>3, <1>4, <1>5 DEF Task, Operations

----------------------------------------------------------------------------
(* The inductive invariant *)

BeforeStart == {"idle", "permission", "consent", "record", "start"}
BeforeAnswer == {"permission", "consent", "record", "start", "initialize", "list", "send", "invoke"}

\* The server runs in its part of the operation only; a call's result comes
\* from an answer.
ServerFits(t, c) ==
    /\ t.step \in BeforeStart \/ t.operation \in {"grant", "revoke"} => c.state = "none"
    /\ t.step \in BeforeStart => t.outcome = "none"
    /\ t.step \in BeforeAnswer => t.operation \in {"call", "trust"}
    /\ t.step \in {"permission", "record", "send", "invoke"} => t.operation = "call"
    /\ t.step = "invoke" => c.asked = 3
    /\ \/ t.step \in {"read", "truncate", "fill"} /\ t.operation # "call"
       \/ t.step = "profile"
       \/ t.step = "done" /\ t.outcome # "interrupted"
       => c.state # "running"
    /\ t.operation = "call" /\ t.outcome = "ok" => 3 \in c.answered
    /\ t.operation = "call" /\ t.step \notin BeforeStart \union BeforeAnswer => t.outcome # "none"

\* A record that an operation goes by, or writes.
EntryFits(t, grants) ==
    /\ t.step \in BeforeAnswer => t.command # None
    /\ t.operation = "call" /\ t.step \in {"start", "initialize", "list", "send", "invoke"} =>
          /\ t.entry # None /\ t.entry.command = t.command
          /\ t.entry.surface # None =>
                [server |-> t.server, command |-> t.command, surface |-> t.entry.surface] \in grants
    /\ t.operation = "trust" =>
          /\ t.entry # None /\ t.entry.command = t.command
          /\ t.entry.surface # None => t.command # None

\* What waits to be read was written by the server, and a call is sent to a
\* server that has listed the trusted tool.
PipeFits(t, c) ==
    /\ \A i \in 1 .. Len(c.pipe) : c.pipe[i].id # 0 => c.pipe[i].id \in c.answered
    /\ t.step \in {"send", "invoke"} => c.listed # None /\ t.entry.surface = c.listed

\* What has been checked was so at some moment.
EntitledFits(t, c, contents, over) ==
    /\ t.step # "idle" =>
          \A f \in Files : Allows(contents, f, t.server) => f \in t.entitled
    /\ ~t.tested /\ t.operation = "call"
          /\ (t.step \in {"consent", "record", "start"} \/ c.state # "none") =>
          "trust" \in t.entitled \union over
    /\ ~t.tested /\ (t.step \in {"record", "start"} \/ c.state # "none") =>
          "consent" \in t.entitled \union over

ActorFits(t, c, grants, contents, over) ==
    ServerFits(t, c) /\ EntryFits(t, grants) /\ PipeFits(t, c) /\ EntitledFits(t, c, contents, over)

\* Every record's command and surface have been approved together.
Backed(trust, grants) ==
    \A s \in Server :
        trust[s] # None /\ trust[s].command # None /\ trust[s].surface # None =>
            [server |-> s, command |-> trust[s].command, surface |-> trust[s].surface] \in grants

\* Who alone changes a file has read what its changes add up to.
ChangesFit ==
    /\ Backed(file["trust"], granted)
    /\ \A a \in Actor : Backed(copy[a]["trust"], granted)
    /\ FilesKeepEveryChange
    /\ \A a \in Actor : Changing(a) /\ FileOf(a) \notin overlapped =>
          /\ copy[a][FileOf(a)] = ledger[FileOf(a)]
          /\ \A q \in Actor \ {a} : ~(Changing(q) /\ FileOf(q) = FileOf(a))

IInv ==
    /\ McpTypes
    /\ ChangesFit
    /\ \A a \in Actor : ActorFits(task[a], child[a], granted, ledger, overlapped)

LEMMA QuietFits ==
    ASSUME NEW s \in Server, NEW grants, NEW contents, NEW over
    PROVE  ActorFits(Quiet(s), NoChild, grants, contents, over)
BY DEF ActorFits, ServerFits, EntryFits, PipeFits, EntitledFits, Quiet, NoChild, BeforeStart, BeforeAnswer

\* An actor that takes no part keeps what it has.
LEMMA OthersKeep ==
    ASSUME NEW t, NEW c, NEW grants, NEW contents, NEW over, NEW grants2, NEW over2,
           ActorFits(t, c, grants, contents, over), grants \subseteq grants2, over \subseteq over2
    PROVE  ActorFits(t, c, grants2, contents, over2)
BY DEF ActorFits, EntryFits, EntitledFits

LEMMA InitHolds == McpInit => IInv
<1> SUFFICES ASSUME McpInit PROVE IInv
  OBVIOUS
<1>1. PICK earlier \in Earlier :
          /\ file = [f \in Files |-> IF f = "trust" THEN earlier.trust ELSE earlier.consent]
          /\ granted = Grants(earlier.trust)
  BY DEF McpInit
<1>2. earlier.trust \in Trust /\ earlier.consent \in Consent
  BY McpAssumption
<1>3. AreFiles(file) /\ file["trust"] = earlier.trust
  BY <1>1, <1>2 DEF AreFiles, Files
<1>4. PICK s \in Server : task = [a \in Actor |-> Quiet(s)]
  BY DEF McpInit
<1>5. McpTypes
  <2>1. granted \subseteq [server : Server, command : Command, surface : Surface]
    BY <1>1 DEF Grants
  <2>2. left \in Allowances
    BY McpAssumption DEF McpInit
  <2> QED  BY <1>3, <1>4, <2>1, <2>2, QuietType, NoChildType, NoFilesType DEF McpInit, McpTypes
<1>6. Backed(file["trust"], granted)
  <2> SUFFICES ASSUME NEW t \in Server, earlier.trust[t] # None, earlier.trust[t].command # None,
                      earlier.trust[t].surface # None
               PROVE  [server |-> t, command |-> earlier.trust[t].command,
                       surface |-> earlier.trust[t].surface] \in granted
    BY <1>3 DEF Backed
  <2>1. earlier.trust[t] \in Record
    BY <1>2 DEF Trust
  <2>2. earlier.trust[t].command \in Command /\ earlier.trust[t].surface \in Surface
    BY <2>1 DEF Record
  <2> QED  BY <1>1, <2>2 DEF Grants
<1>7. ChangesFit
  <2>1. \A a \in Actor : Backed(copy[a]["trust"], granted)
    BY DEF McpInit, NoFiles, Files, Backed
  <2>2. \A a \in Actor : ~Changing(a)
    BY <1>4 DEF Changing, Quiet
  <2> QED  BY <1>6, <2>1, <2>2 DEF ChangesFit, FilesKeepEveryChange, McpInit
<1>8. \A a \in Actor : ActorFits(task[a], child[a], granted, ledger, overlapped)
  BY <1>4, QuietFits DEF McpInit
<1> QED  BY <1>5, <1>7, <1>8 DEF IInv

\* A step of one actor that changes no file.
Calm(a) ==
    /\ Alone(a)
    /\ UNCHANGED <<config, files, copy>>
    /\ task' \in [Actor -> Task] /\ child' \in [Actor -> Child] /\ left' \in Allowances
    /\ task'[a] = task[a] \/ task'[a].step \notin {"truncate", "fill"}

LEMMA CalmKeeps ==
    ASSUME IInv, NEW a \in Actor, Calm(a),
           ActorFits(task'[a], child'[a], granted, ledger, overlapped)
    PROVE  IInv'
<1>1. McpTypes'
  BY DEF IInv, McpTypes, Calm, files, AreFiles
<1>2. ChangesFit'
  <2>1. \A q \in Actor : Changing(q)' => Changing(q) /\ FileOf(q)' = FileOf(q)
    BY DEF Changing, Calm, Alone, FileOf
  <2>2. UNCHANGED <<file, torn, ledger, granted, overlapped, copy>>
    BY DEF Calm, files
  <2>3. FilesKeepEveryChange'
    BY <2>2 DEF IInv, ChangesFit, FilesKeepEveryChange
  <2> QED  BY <2>1, <2>2, <2>3 DEF IInv, ChangesFit
<1>3. \A q \in Actor : ActorFits(task[q], child[q], granted, ledger, overlapped)'
  BY DEF IInv, Calm, Alone, files
<1> QED  BY <1>1, <1>2, <1>3 DEF IInv

LEMMA ActorSteps ==
    ASSUME IInv, NEW a \in Actor, UNCHANGED <<config, files, copy>>, left' \in Allowances,
           NEW t \in Task, task' = [task EXCEPT ![a] = t],
           t = task[a] \/ t.step \notin {"truncate", "fill"},
           NEW c \in Child, child' = [child EXCEPT ![a] = c],
           ActorFits(t, c, granted, ledger, overlapped)
    PROVE  IInv'
<1>1. task \in [Actor -> Task] /\ child \in [Actor -> Child]
  BY DEF IInv, McpTypes
<1>2. Calm(a) /\ task'[a] = t /\ child'[a] = c
  BY <1>1 DEF Calm, Alone
<1> QED  BY <1>2, CalmKeeps

\* The same for steps that leave the server alone.
LEMMA TaskSteps ==
    ASSUME IInv, NEW a \in Actor, UNCHANGED <<config, files, child, copy>>, left' \in Allowances,
           NEW t \in Task, task' = [task EXCEPT ![a] = t], t.step \notin {"truncate", "fill"},
           ActorFits(t, child[a], granted, ledger, overlapped)
    PROVE  IInv'
<1>1. child[a] \in Child /\ child' = [child EXCEPT ![a] = child[a]]
  BY DEF IInv, McpTypes
<1> QED  BY <1>1, ActorSteps

\* An operation may end in an error wherever no server runs, and goes on to
\* close it wherever one may run.
LEMMA FailingFits ==
    ASSUME NEW t \in Task, NEW c \in Child, NEW grants, NEW contents, NEW over,
           ActorFits(t, c, grants, contents, over), t.step # "idle",
           NEW outcome \in {"error", "raised"}, NEW step \in {"done", "close"},
           step = "done" => c.state # "running"
    PROVE  /\ [t EXCEPT !.step = step, !.outcome = outcome] \in Task
           /\ ActorFits([t EXCEPT !.step = step, !.outcome = outcome], c, grants, contents, over)
<1> DEFINE u == [t EXCEPT !.step = step, !.outcome = outcome]
<1>1. u \in Task
  BY DEF Task, Steps, Outcomes
<1>2. /\ u.step = step /\ u.outcome = outcome /\ u.operation = t.operation /\ u.server = t.server
      /\ u.tested = t.tested /\ u.command = t.command /\ u.entry = t.entry /\ u.entitled = t.entitled
  BY DEF Task
<1> HIDE DEF u
<1>3. ActorFits(u, c, grants, contents, over)
  BY <1>2 DEF ActorFits, ServerFits, EntryFits, PipeFits, EntitledFits, BeforeStart, BeforeAnswer
<1> QED  BY <1>1, <1>3 DEF u

----------------------------------------------------------------------------
(* Steps of the client that read no line of the server *)

LEMMA LeaveSteps ==
    ASSUME IInv, NEW a \in Actor, UNCHANGED <<config, files, child, copy, left>>,
           task[a].step # "idle",
           NEW outcome \in {"error", "raised"}, NEW step \in {"done", "close"},
           step = "done" => child[a].state # "running",
           Leave(a, outcome, step)
    PROVE  IInv'
<1>1. /\ task[a] \in Task /\ child[a] \in Child /\ left' \in Allowances
      /\ ActorFits(task[a], child[a], granted, ledger, overlapped)
  BY DEF IInv, McpTypes
<1>2. task' = [task EXCEPT ![a] = [task[a] EXCEPT !.step = step, !.outcome = outcome]]
  BY DEF Leave, IInv, McpTypes, Task
<1> DEFINE u == [task[a] EXCEPT !.step = step, !.outcome = outcome]
<1>3. u \in Task /\ ActorFits(u, child[a], granted, ledger, overlapped) /\ u.step = step
  BY <1>1, FailingFits DEF Task
<1> HIDE DEF u
<1>4. task' = [task EXCEPT ![a] = u]
  BY <1>2 DEF u
<1> QED  BY <1>1, <1>3, <1>4, TaskSteps

LEMMA CheckTrustStep ==
    ASSUME IInv, NEW a \in Actor, CheckTrust(a) PROVE IInv'
<1> DEFINE t == [task[a] EXCEPT !.step = "consent"]
<1>1. /\ task[a] \in Task /\ child[a] \in Child /\ left' \in Allowances
      /\ ActorFits(task[a], child[a], granted, ledger, overlapped)
      /\ task[a].step = "permission"
      /\ UNCHANGED <<config, files, child, copy, left>>
  BY DEF IInv, McpTypes, CheckTrust
<1>2. child[a].state # "running"
  BY <1>1 DEF ActorFits, ServerFits, BeforeStart
<1>3. CASE \E outcome \in {"error", "raised"} : Leave(a, outcome, "done")
  BY <1>1, <1>2, <1>3, LeaveSteps
<1>4. CASE "trust" \notin torn /\ Allows(file, "trust", task[a].server) /\ Goto(a, "consent")
  <2>1. t \in Task /\ task' = [task EXCEPT ![a] = t]
    BY <1>1, <1>4 DEF Goto, Task, Steps
  <2>2. "trust" \in task[a].entitled \union overlapped
    <3> SUFFICES ASSUME "trust" \notin overlapped PROVE "trust" \in task[a].entitled
      OBVIOUS
    <3>1. file["trust"] = ledger["trust"]
      BY <1>4 DEF IInv, ChangesFit, FilesKeepEveryChange, Files
    <3>2. Allows(ledger, "trust", task[a].server)
      BY <1>4, <3>1 DEF Allows
    <3> QED  BY <1>1, <3>2 DEF ActorFits, EntitledFits, Files
  <2>3. ActorFits(t, child[a], granted, ledger, overlapped) /\ t.step = "consent"
    BY <1>1, <2>2 DEF ActorFits, ServerFits, EntryFits, PipeFits, EntitledFits, BeforeStart, BeforeAnswer, Task
  <2> HIDE DEF t
  <2> QED  BY <1>1, <2>1, <2>3, TaskSteps
<1> QED  BY <1>3, <1>4 DEF CheckTrust

LEMMA CheckConsentStep ==
    ASSUME IInv, NEW a \in Actor, CheckConsent(a) PROVE IInv'
<1> DEFINE t == [task[a] EXCEPT !.step = IF task[a].operation = "call" THEN "record" ELSE "start"]
<1>1. /\ task[a] \in Task /\ child[a] \in Child /\ left' \in Allowances
      /\ ActorFits(task[a], child[a], granted, ledger, overlapped)
      /\ task[a].step = "consent"
      /\ UNCHANGED <<config, files, child, copy, left>>
  BY DEF IInv, McpTypes, CheckConsent
<1>2. child[a].state # "running"
  BY <1>1 DEF ActorFits, ServerFits, BeforeStart
<1>3. CASE \E outcome \in {"error", "raised"} : Leave(a, outcome, "done")
  BY <1>1, <1>2, <1>3, LeaveSteps
<1>4. CASE /\ "consent" \notin torn /\ Allows(file, "consent", task[a].server)
           /\ Goto(a, IF task[a].operation = "call" THEN "record" ELSE "start")
  <2>1. t \in Task /\ task' = [task EXCEPT ![a] = t]
    BY <1>1, <1>4 DEF Goto, Task, Steps
  <2>2. "consent" \in task[a].entitled \union overlapped
    <3> SUFFICES ASSUME "consent" \notin overlapped PROVE "consent" \in task[a].entitled
      OBVIOUS
    <3>1. file["consent"] = ledger["consent"]
      BY <1>4 DEF IInv, ChangesFit, FilesKeepEveryChange, Files
    <3>2. Allows(ledger, "consent", task[a].server)
      BY <1>4, <3>1 DEF Allows
    <3> QED  BY <1>1, <3>2 DEF ActorFits, EntitledFits, Files
  <2>3. ActorFits(t, child[a], granted, ledger, overlapped) /\ t.step \in {"record", "start"}
    BY <1>1, <2>2 DEF ActorFits, ServerFits, EntryFits, PipeFits, EntitledFits, BeforeStart, BeforeAnswer, Task
  <2> HIDE DEF t
  <2> QED  BY <1>1, <2>1, <2>3, TaskSteps
<1> QED  BY <1>3, <1>4 DEF CheckConsent

LEMMA ReadRecordStep ==
    ASSUME IInv, NEW a \in Actor, ReadRecord(a) PROVE IInv'
<1> DEFINE record == file["trust"][task[a].server]
           t == [task[a] EXCEPT !.step = "start", !.entry = record]
           u == [task[a] EXCEPT !.step = "read", !.outcome = "error"]
<1>1. /\ task[a] \in Task /\ child[a] \in Child /\ left' \in Allowances
      /\ ActorFits(task[a], child[a], granted, ledger, overlapped)
      /\ task[a].step = "record"
      /\ UNCHANGED <<config, files, child, copy, left>>
  BY DEF IInv, McpTypes, ReadRecord
<1>2. child[a].state = "none" /\ task[a].operation = "call" /\ task[a].server \in Server
  BY <1>1 DEF ActorFits, ServerFits, BeforeStart, Task
<1>3. CASE \E outcome \in {"error", "raised"} : Leave(a, outcome, "done")
  BY <1>1, <1>2, <1>3, LeaveSteps
<1>4. CASE /\ record # None /\ record.command = task[a].command
           /\ task' = [task EXCEPT ![a].step = "start", ![a].entry = record]
  <2>1. record \in Record
    BY <1>2, <1>4 DEF IInv, McpTypes, AreFiles, Trust
  <2>2. record.surface # None /\ record.command # None =>
            [server |-> task[a].server, command |-> record.command, surface |-> record.surface] \in granted
    BY <1>2, <1>4 DEF IInv, ChangesFit, Backed
  <2> HIDE DEF record
  <2>3. t \in Task /\ task' = [task EXCEPT ![a] = t]
    BY <1>1, <1>4, <2>1 DEF Task, Steps
  <2>4. ActorFits(t, child[a], granted, ledger, overlapped) /\ t.step = "start"
    BY <1>1, <1>2, <1>4, <2>2
       DEF ActorFits, ServerFits, EntryFits, PipeFits, EntitledFits, BeforeStart, BeforeAnswer, Task
  <2> HIDE DEF t
  <2> QED  BY <1>1, <2>3, <2>4, TaskSteps
<1>5. CASE Leave(a, "error", "read")
  <2>1. u \in Task /\ task' = [task EXCEPT ![a] = u]
    BY <1>1, <1>5 DEF Task, Steps, Outcomes, Leave
  <2>2. ActorFits(u, child[a], granted, ledger, overlapped) /\ u.step = "read"
    BY <1>1, <1>2
       DEF ActorFits, ServerFits, EntryFits, PipeFits, EntitledFits, BeforeStart, BeforeAnswer, Task
  <2> HIDE DEF u
  <2> QED  BY <1>1, <2>1, <2>2, TaskSteps
<1> QED  BY <1>3, <1>4, <1>5 DEF ReadRecord
LEMMA LaunchStep ==
    ASSUME IInv, NEW a \in Actor, Launch(a) PROVE IInv'
<1> DEFINE t == [task[a] EXCEPT !.step = "initialize"]
           c == [NoChild EXCEPT !.state = "running", !.asked = 1]
<1>1. /\ task[a] \in Task /\ child[a] \in Child /\ left' \in Allowances
      /\ ActorFits(task[a], child[a], granted, ledger, overlapped)
      /\ task[a].step = "start"
      /\ UNCHANGED <<config, files, copy, left>>
  BY DEF IInv, McpTypes, Launch
<1>2. child[a].state = "none" /\ task[a].outcome = "none" /\ task[a].operation \in {"call", "trust"}
  BY <1>1 DEF ActorFits, ServerFits, BeforeStart, BeforeAnswer
<1>3. CASE child' = [child EXCEPT ![a] = c] /\ Goto(a, "initialize")
  <2>1. t \in Task /\ task' = [task EXCEPT ![a] = t] /\ t.step = "initialize"
    BY <1>1, <1>3 DEF Goto, Task, Steps
  <2>2. /\ c \in Child /\ c.state = "running" /\ c.asked = 1 /\ c.pipe = <<>> /\ c.answered = {}
    <3>1. NoChild.pipe = <<>> /\ NoChild.answered = {}
      BY DEF NoChild
    <3>2. c \in Child
      <4>1. \A n \in 0 .. 3 : [NoChild EXCEPT !.state = "running", !.asked = n] \in Child
        BY NoChildType DEF Child
      <4> QED  BY <4>1
    <3>3. c.state = "running" /\ c.asked = 1
      BY NoChildType DEF Child
    <3>4. c.pipe = NoChild.pipe /\ c.answered = NoChild.answered
      BY NoChildType DEF Child
    <3> QED  BY <3>1, <3>2, <3>3, <3>4
  <2> HIDE DEF c
  <2>3. ServerFits(t, c) /\ EntryFits(t, granted)
    BY <1>1, <1>2, <2>2 DEF ActorFits, ServerFits, EntryFits, BeforeStart, BeforeAnswer, Task
  <2>4. PipeFits(t, c)
    <3>1. Len(c.pipe) = 0
      BY <2>2
    <3> QED  BY <2>1, <2>2, <3>1 DEF PipeFits
  <2>5. EntitledFits(t, c, ledger, overlapped)
    BY <1>1, <2>2 DEF ActorFits, EntitledFits, Task
  <2> HIDE DEF t
  <2>6. ActorFits(t, c, granted, ledger, overlapped)
    BY <2>3, <2>4, <2>5 DEF ActorFits
  <2> QED  BY <1>1, <1>3, <2>1, <2>2, <2>6, ActorSteps
<1>4. CASE UNCHANGED child /\ Leave(a, "error", "close")
  BY <1>1, <1>2, <1>4, LeaveSteps
<1> QED  BY <1>3, <1>4 DEF Launch

LEMMA NoAnswerStep ==
    ASSUME IInv, NEW a \in Actor, NoAnswer(a) PROVE IInv'
BY LeaveSteps DEF NoAnswer, Waiting

LEMMA CloseStep ==
    ASSUME IInv, NEW a \in Actor, Close(a) PROVE IInv'
<1> DEFINE step == AfterClose(a, task[a].outcome)
           t == [task[a] EXCEPT !.step = step]
           c == [child[a] EXCEPT !.state = IF @ = "running" THEN "exited" ELSE @]
           u == [task[a] EXCEPT !.step = "done", !.outcome = "raised"]
           d == [child[a] EXCEPT !.state = "killed"]
<1>1. /\ task[a] \in Task /\ child[a] \in Child /\ left' \in Allowances
      /\ ActorFits(task[a], child[a], granted, ledger, overlapped)
      /\ task[a].step = "close"
      /\ UNCHANGED <<config, files, copy, left>>
  BY DEF IInv, McpTypes, Close
<1>2. step \in {"done", "profile", "read"} /\ (step = "read" => task[a].operation # "call")
  BY AfterCloseCases
<1> HIDE DEF step
<1>3. CASE /\ child' = [child EXCEPT ![a].state = IF @ = "running" THEN "exited" ELSE @]
           /\ Goto(a, step)
  <2>1. t \in Task /\ task' = [task EXCEPT ![a] = t] /\ c \in Child /\ child' = [child EXCEPT ![a] = c]
    BY <1>1, <1>2, <1>3 DEF Goto, Task, Steps, Child
  <2>2. /\ c.state # "running" /\ (c.state = "none" <=> child[a].state = "none")
        /\ c.asked = child[a].asked /\ c.pipe = child[a].pipe /\ c.answered = child[a].answered
        /\ c.listed = child[a].listed
    BY <1>1 DEF Child
  <2> HIDE DEF c
  <2>3. ActorFits(t, c, granted, ledger, overlapped) /\ t.step = step
    BY <1>1, <1>2, <2>2
       DEF ActorFits, ServerFits, EntryFits, PipeFits, EntitledFits, BeforeStart, BeforeAnswer, Task
  <2> HIDE DEF t
  <2> QED  BY <1>1, <1>2, <2>1, <2>3, ActorSteps
<1>4. CASE /\ child[a].state = "running"
           /\ child' = [child EXCEPT ![a].state = "killed"]
           /\ Leave(a, "raised", "done")
  <2>1. u \in Task /\ task' = [task EXCEPT ![a] = u] /\ d \in Child /\ child' = [child EXCEPT ![a] = d]
    BY <1>1, <1>4 DEF Leave, Task, Steps, Outcomes, Child
  <2>2. /\ d.state # "running" /\ d.state # "none"
        /\ d.asked = child[a].asked /\ d.pipe = child[a].pipe /\ d.answered = child[a].answered
        /\ d.listed = child[a].listed
    BY <1>1 DEF Child
  <2> HIDE DEF d
  <2>3. ActorFits(u, d, granted, ledger, overlapped) /\ u.step = "done"
    BY <1>1, <1>4, <2>2
       DEF ActorFits, ServerFits, EntryFits, PipeFits, EntitledFits, BeforeStart, BeforeAnswer, Task
  <2> HIDE DEF u
  <2> QED  BY <1>1, <2>1, <2>3, ActorSteps
<1> QED  BY <1>3, <1>4 DEF Close, step

LEMMA ReadProfileStep ==
    ASSUME IInv, NEW a \in Actor, ReadProfile(a) PROVE IInv'
<1> DEFINE t == [task[a] EXCEPT !.step = "done"]
<1>1. /\ task[a] \in Task /\ child[a] \in Child /\ left' \in Allowances
      /\ ActorFits(task[a], child[a], granted, ledger, overlapped)
      /\ task[a].step = "profile"
      /\ UNCHANGED <<config, files, child, copy, left>>
  BY DEF IInv, McpTypes, ReadProfile
<1>2. CASE Leave(a, "raised", "done")
  <2>1. child[a].state # "running"
    BY <1>1 DEF ActorFits, ServerFits
  <2> QED
    BY <1>1, <1>2, <2>1, LeaveSteps
<1>3. CASE Goto(a, "done")
  <2>1. t \in Task /\ task' = [task EXCEPT ![a] = t]
    BY <1>1, <1>3 DEF Goto, Task, Steps
  <2>2. ActorFits(t, child[a], granted, ledger, overlapped) /\ t.step = "done"
    BY <1>1 DEF ActorFits, ServerFits, EntryFits, PipeFits, EntitledFits, BeforeStart, BeforeAnswer, Task
  <2> HIDE DEF t
  <2> QED  BY <1>1, <2>1, <2>2, TaskSteps
<1> QED  BY <1>2, <1>3 DEF ReadProfile

LEMMA ReturnStep ==
    ASSUME IInv, NEW a \in Actor, Return(a) PROVE IInv'
<1>1. Quiet(task[a].server) \in Task /\ task[a].server \in Server /\ left' \in Allowances
  BY QuietType DEF IInv, McpTypes, Task, Return
<1>2. Quiet(task[a].server).step = "idle"
  BY DEF Quiet
<1>3. ActorFits(Quiet(task[a].server), NoChild, granted, ledger, overlapped)
  BY <1>1, QuietFits
<1> QED  BY <1>1, <1>2, <1>3, NoChildType, ActorSteps DEF Return

LEMMA SendFailsStep ==
    ASSUME IInv, NEW a \in Actor, SendFails(a) PROVE IInv'
BY LeaveSteps DEF SendFails

LEMMA ReaderDiesStep ==
    ASSUME IInv, NEW a \in Actor, ReaderDies(a) PROVE IInv'
<1> DEFINE c == [child[a] EXCEPT !.deaf = TRUE]
<1>1. /\ task[a] \in Task /\ child[a] \in Child /\ left' \in Allowances
      /\ ActorFits(task[a], child[a], granted, ledger, overlapped)
      /\ UNCHANGED <<config, files, task, copy>>
      /\ task' = [task EXCEPT ![a] = task[a]]
  BY DEF IInv, McpTypes, ReaderDies
<1>2. c \in Child /\ child' = [child EXCEPT ![a] = c]
  BY <1>1 DEF ReaderDies, Child
<1>3. ActorFits(task[a], c, granted, ledger, overlapped)
  BY <1>1 DEF ActorFits, ServerFits, EntryFits, PipeFits, EntitledFits, BeforeStart, BeforeAnswer, Child
<1> HIDE DEF c
<1> QED  BY <1>1, <1>2, <1>3, ActorSteps

LEMMA ReadsOnStep ==
    ASSUME IInv, NEW a \in Actor, ReadsOn(a) PROVE IInv'
<1> DEFINE t == [task[a] EXCEPT !.step = "invoke"]
           c == [child[a] EXCEPT !.asked = 3]
<1>1. /\ task[a] \in Task /\ child[a] \in Child /\ left' \in Allowances
      /\ ActorFits(task[a], child[a], granted, ledger, overlapped)
      /\ task[a].step = "send"
      /\ UNCHANGED <<config, files, copy, left>>
  BY DEF IInv, McpTypes, ReadsOn
<1>2. CASE child' = [child EXCEPT ![a].asked = 3] /\ Goto(a, "invoke")
  <2>1. t \in Task /\ task' = [task EXCEPT ![a] = t] /\ t.step = "invoke"
    BY <1>1, <1>2 DEF Goto, Task, Steps
  <2>2. child' = [child EXCEPT ![a] = c]
    BY <1>2
  <2>3. /\ c \in Child /\ c.asked = 3 /\ c.state = child[a].state /\ c.pipe = child[a].pipe
        /\ c.answered = child[a].answered /\ c.listed = child[a].listed
    <3>1. \A n \in 0 .. 3 : [child[a] EXCEPT !.asked = n] \in Child
      BY <1>1 DEF Child
    <3>2. c \in Child
      BY <3>1
    <3> QED  BY <1>1, <3>2 DEF Child
  <2> HIDE DEF c
  <2>4. ActorFits(t, c, granted, ledger, overlapped)
    BY <1>1, <2>3 DEF ActorFits, ServerFits, EntryFits, PipeFits, EntitledFits, BeforeStart, BeforeAnswer, Task
  <2> HIDE DEF t
  <2> QED  BY <1>1, <2>1, <2>2, <2>3, <2>4, ActorSteps
<1>3. CASE UNCHANGED child /\ Leave(a, "error", "close")
  BY <1>1, <1>3, LeaveSteps
<1> QED  BY <1>2, <1>3 DEF ReadsOn

\* Wherever it strikes, an interrupt leaves the operation to close its server
\* or, at the moments when the client cannot, is what the outcome says.
LEMMA InterruptFits ==
    ASSUME NEW t \in Task, NEW c \in Child, NEW grants, NEW contents, NEW over,
           ActorFits(t, c, grants, contents, over), t.step # "idle",
           NEW state \in {"none", "running", "exited", "killed"},
           state = "none" <=> (c.state = "none" /\ state # "running"),
           c.state = "none" /\ state # "none" => t.step = "start",
           NEW outcome, NEW step,
           \/ outcome = "raised" /\ step = "close"
           \/ outcome = "interrupted" /\ step = "done"
    PROVE  /\ [t EXCEPT !.outcome = outcome, !.step = step] \in Task
           /\ [c EXCEPT !.state = state] \in Child
           /\ ActorFits([t EXCEPT !.outcome = outcome, !.step = step], [c EXCEPT !.state = state],
                        grants, contents, over)
<1> DEFINE u == [t EXCEPT !.outcome = outcome, !.step = step]
           d == [c EXCEPT !.state = state]
<1>1. u \in Task /\ d \in Child
  BY DEF Task, Steps, Outcomes, Child
<1>2. /\ u.step = step /\ u.outcome = outcome /\ u.operation = t.operation /\ u.server = t.server
      /\ u.tested = t.tested /\ u.command = t.command /\ u.entry = t.entry /\ u.entitled = t.entitled
  BY DEF Task
<1>3. d.state = state /\ d.pipe = c.pipe /\ d.answered = c.answered /\ d.listed = c.listed
  BY DEF Child
<1> HIDE DEF u, d
<1>4. ServerFits(u, d)
  BY <1>2, <1>3 DEF ActorFits, ServerFits, BeforeStart, BeforeAnswer
<1>5. EntryFits(u, grants) /\ PipeFits(u, d)
  BY <1>2, <1>3 DEF ActorFits, EntryFits, PipeFits, BeforeAnswer
<1>6. EntitledFits(u, d, contents, over)
  BY <1>2, <1>3 DEF ActorFits, EntitledFits
<1> QED  BY <1>1, <1>4, <1>5, <1>6 DEF ActorFits, u, d

LEMMA InterruptStep ==
    ASSUME IInv, NEW a \in Actor, Interrupt(a) PROVE IInv'
<1>1. /\ task[a] \in Task /\ child[a] \in Child
      /\ task \in [Actor -> Task] /\ child \in [Actor -> Child] /\ DOMAIN copy = Actor
      /\ ActorFits(task[a], child[a], granted, ledger, overlapped)
      /\ task[a].step # "idle"
      /\ left' \in Allowances
      /\ copy' = [copy EXCEPT ![a] = NoFiles]
      /\ UNCHANGED <<config, file, torn, ledger, granted, overlapped>>
  BY SpendingType DEF IInv, McpTypes, Interrupt, files
<1>2. PICK state \in {"none", "running", "exited", "killed"},
          outcome \in {"raised", "interrupted"}, step \in {"close", "done"} :
          /\ state = "none" <=> (child[a].state = "none" /\ state # "running")
          /\ child[a].state = "none" /\ state # "none" => task[a].step = "start"
          /\ \/ outcome = "raised" /\ step = "close"
             \/ outcome = "interrupted" /\ step = "done"
          /\ child' = [child EXCEPT ![a].state = state]
          /\ Leave(a, outcome, step)
  <2>1. CASE Leave(a, "raised", "close") /\ UNCHANGED child
    <3>1. child' = [child EXCEPT ![a].state = child[a].state]
      BY <1>1, <2>1 DEF Child
    <3>2. child[a].state \in {"none", "running", "exited", "killed"}
      BY <1>1 DEF Child
    <3> QED  BY <2>1, <3>1, <3>2
  <2>2. ASSUME NEW state \in LeftBehind(a), child' = [child EXCEPT ![a].state = state],
               Leave(a, "interrupted", "done")
        PROVE  /\ state \in {"none", "running", "exited", "killed"}
               /\ state = "none" <=> (child[a].state = "none" /\ state # "running")
               /\ child[a].state = "none" /\ state # "none" => task[a].step = "start"
    <3>1. child[a].state \in {"none", "running", "exited", "killed"}
      BY <1>1 DEF Child
    <3>2. task[a].step = "start" => child[a].state = "none"
      BY <1>1 DEF ActorFits, ServerFits, BeforeStart
    <3> QED  BY <2>2, <3>1, <3>2 DEF LeftBehind
  <2> QED  BY <2>1, <2>2 DEF Interrupt
<1> DEFINE t == [task[a] EXCEPT !.outcome = outcome, !.step = step]
           c == [child[a] EXCEPT !.state = state]
<1>3. t \in Task /\ c \in Child /\ ActorFits(t, c, granted, ledger, overlapped)
  BY <1>1, <1>2, InterruptFits
<1>4. task' = [task EXCEPT ![a] = t] /\ child' = [child EXCEPT ![a] = c] /\ t.step \in {"close", "done"}
  BY <1>1, <1>2 DEF Leave, Task
<1> HIDE DEF t, c
<1>5. /\ task' \in [Actor -> Task] /\ child' \in [Actor -> Child]
      /\ task'[a] = t /\ child'[a] = c /\ copy'[a] = NoFiles /\ DOMAIN copy' = Actor
      /\ \A q \in Actor \ {a} : task'[q] = task[q] /\ child'[q] = child[q] /\ copy'[q] = copy[q]
  BY <1>1, <1>3, <1>4
<1>6. McpTypes'
  <2>1. \A q \in Actor : AreFiles(copy'[q])
    BY <1>5, NoFilesType DEF IInv, McpTypes
  <2> QED  BY <1>1, <1>5, <2>1 DEF IInv, McpTypes, AreFiles
<1>7. ChangesFit'
  <2>1. \A q \in Actor : Changing(q)' =>
            q # a /\ Changing(q) /\ FileOf(q)' = FileOf(q) /\ copy'[q] = copy[q]
    BY <1>4, <1>5 DEF Changing, FileOf
  <2>2. \A q \in Actor : Backed(copy'[q]["trust"], granted)
    <3>1. Backed(NoFiles["trust"], granted)
      BY DEF NoFiles, Files, Backed
    <3> QED  BY <1>5, <3>1 DEF IInv, ChangesFit
  <2>3. FilesKeepEveryChange'
    BY <1>1 DEF IInv, ChangesFit, FilesKeepEveryChange
  <2> QED  BY <1>1, <2>1, <2>2, <2>3 DEF IInv, ChangesFit
<1>8. \A q \in Actor : ActorFits(task[q], child[q], granted, ledger, overlapped)'
  <2>1. \A q \in Actor : ActorFits(task'[q], child'[q], granted, ledger, overlapped)
    BY <1>3, <1>5 DEF IInv
  <2> QED  BY <1>1, <2>1
<1> QED  BY <1>6, <1>7, <1>8 DEF IInv

LEMMA ExitStep ==
    ASSUME IInv, NEW a \in Actor, Exit(a) PROVE IInv'
<1> DEFINE c == [child[a] EXCEPT !.state = "exited"]
<1>1. /\ task[a] \in Task /\ child[a] \in Child /\ left' \in Allowances
      /\ ActorFits(task[a], child[a], granted, ledger, overlapped)
      /\ child[a].state = "running"
      /\ UNCHANGED <<config, files, task, copy>>
      /\ task' = [task EXCEPT ![a] = task[a]]
  BY SpendingType DEF IInv, McpTypes, Exit
<1>2. c \in Child /\ child' = [child EXCEPT ![a] = c]
  BY <1>1 DEF Exit, Child
<1>3. ActorFits(task[a], c, granted, ledger, overlapped)
  BY <1>1 DEF ActorFits, ServerFits, EntryFits, PipeFits, EntitledFits, BeforeStart, BeforeAnswer, Child
<1> HIDE DEF c
<1> QED  BY <1>1, <1>2, <1>3, ActorSteps
----------------------------------------------------------------------------
(* Steps of the client that read a line *)

LEMMA ReadFits ==
    ASSUME NEW t, NEW c \in Child, PipeFits(t, c), c.pipe # <<>>
    PROVE  /\ [c EXCEPT !.pipe = Tail(@)] \in Child
           /\ PipeFits(t, [c EXCEPT !.pipe = Tail(@)])
<1> DEFINE p == c.pipe
           q == Tail(p)
           d == [c EXCEPT !.pipe = Tail(@)]
<1>1. p \in Seq(Line) /\ p # <<>>
  BY DEF Child
<1>2. /\ q \in Seq(Line) /\ Len(p) \in Nat /\ Len(q) = Len(p) - 1 /\ Len(p) > 0
      /\ \A i \in 1 .. Len(q) : q[i] = p[i + 1] /\ i + 1 \in 1 .. Len(p)
  BY <1>1
<1>3. d \in Child
  BY <1>2 DEF Child
<1>4. d.pipe = q /\ d.answered = c.answered /\ d.listed = c.listed
  BY DEF Child
<1> HIDE DEF d, q
<1>5. PipeFits(t, d)
  BY <1>2, <1>4 DEF PipeFits
<1> QED  BY <1>3, <1>5 DEF d

\* The server as the rest of what an actor has sees it.
LEMMA ReadIsNothingElse ==
    ASSUME NEW t, NEW c \in Child, NEW d \in Child, NEW grants, NEW contents, NEW over,
           ActorFits(t, c, grants, contents, over), PipeFits(t, d),
           d.state = c.state, d.asked = c.asked, d.answered = c.answered
    PROVE  ActorFits(t, d, grants, contents, over)
BY DEF ActorFits, ServerFits, EntitledFits

\* After a line the operation goes on to another step, or waits on.
LEMMA ReadSteps ==
    ASSUME IInv, NEW a \in Actor, UNCHANGED <<config, files, copy, left>>,
           child[a].pipe # <<>>, child' = Read(a),
           NEW t \in Task, task' = [task EXCEPT ![a] = t],
           t.step \notin {"truncate", "fill"},
           ActorFits(t, child[a], granted, ledger, overlapped)
    PROVE  IInv'
<1> DEFINE d == [child[a] EXCEPT !.pipe = Tail(@)]
<1>1. /\ child[a] \in Child /\ left' \in Allowances /\ child' = [child EXCEPT ![a] = d]
  BY DEF IInv, McpTypes, Read
<1>2. d \in Child /\ PipeFits(t, d)
  BY <1>1, ReadFits DEF ActorFits
<1>3. d.state = child[a].state /\ d.asked = child[a].asked /\ d.answered = child[a].answered
  BY <1>1 DEF Child
<1> HIDE DEF d
<1> QED  BY <1>1, <1>2, <1>3, ReadIsNothingElse, ActorSteps

LEMMA SkipStep ==
    ASSUME IInv, NEW a \in Actor, Skip(a) PROVE IInv'
<1>1. /\ task[a] \in Task /\ ActorFits(task[a], child[a], granted, ledger, overlapped)
      /\ task' = [task EXCEPT ![a] = task[a]] /\ task[a].step \notin {"truncate", "fill"}
      /\ child[a].pipe # <<>> /\ child' = Read(a)
      /\ UNCHANGED <<config, files, copy, left>>
  BY DEF IInv, McpTypes, Skip, Waiting
<1> QED  BY <1>1, ReadSteps

LEMMA MalformedStep ==
    ASSUME IInv, NEW a \in Actor, Malformed(a) PROVE IInv'
<1> DEFINE t == [task[a] EXCEPT !.step = "close", !.outcome = "error"]
<1>1. /\ task[a] \in Task /\ child[a] \in Child /\ task[a].step # "idle"
      /\ ActorFits(task[a], child[a], granted, ledger, overlapped)
      /\ task' = [task EXCEPT ![a] = t]
  BY DEF IInv, McpTypes, Malformed, Waiting, Leave
<1>2. t \in Task /\ ActorFits(t, child[a], granted, ledger, overlapped) /\ t.step = "close"
  BY <1>1, FailingFits DEF Task
<1> HIDE DEF t
<1> QED  BY <1>1, <1>2, ReadSteps DEF Malformed

LEMMA InvokedStep ==
    ASSUME IInv, NEW a \in Actor, Invoked(a) PROVE IInv'
<1> DEFINE t == [task[a] EXCEPT !.step = "close", !.outcome = "ok"]
<1>1. /\ task[a] \in Task /\ child[a] \in Child /\ task[a].step = "invoke"
      /\ ActorFits(task[a], child[a], granted, ledger, overlapped)
      /\ task' = [task EXCEPT ![a] = t] /\ t \in Task /\ t.step = "close"
  BY DEF IInv, McpTypes, Invoked, Answered, Leave, Task, Steps, Outcomes
<1>2. 3 \in child[a].answered
  <2>1. child[a].asked = 3 /\ child[a].pipe # <<>> /\ child[a].pipe[1].id = child[a].asked
    BY <1>1 DEF ActorFits, ServerFits, Invoked, Answered, IsAnswer, Incoming
  <2>2. 1 \in 1 .. Len(child[a].pipe)
    BY <1>1, <2>1 DEF Child
  <2> QED  BY <1>1, <2>1, <2>2 DEF ActorFits, PipeFits
<1>3. ActorFits(t, child[a], granted, ledger, overlapped)
  BY <1>1, <1>2 DEF ActorFits, ServerFits, EntryFits, PipeFits, EntitledFits, BeforeStart, BeforeAnswer, Task
<1> HIDE DEF t
<1> QED  BY <1>1, <1>3, ReadSteps DEF Invoked, Answered
\* The line that is read has been looked at.
LEMMA HeadFits ==
    ASSUME NEW t, NEW c \in Child, PipeFits(t, c), c.pipe # <<>>
    PROVE  /\ Head(c.pipe) \in Line /\ Head(c.pipe) = c.pipe[1] /\ 1 \in 1 .. Len(c.pipe)
           /\ Head(c.pipe).id # 0 => Head(c.pipe).id \in c.answered
<1>1. c.pipe \in Seq(Line)
  BY DEF Child
<1>2. Head(c.pipe) \in Line /\ Head(c.pipe) = c.pipe[1] /\ 1 \in 1 .. Len(c.pipe)
  BY <1>1
<1> QED  BY <1>2 DEF PipeFits

LEMMA InitializedStep ==
    ASSUME IInv, NEW a \in Actor, Initialized(a) PROVE IInv'
<1> DEFINE t == [task[a] EXCEPT !.step = "list"]
           d == [child[a] EXCEPT !.pipe = Tail(@)]
           e == [d EXCEPT !.asked = 2]
<1>1. /\ task[a] \in Task /\ child[a] \in Child /\ left' \in Allowances
      /\ ActorFits(task[a], child[a], granted, ledger, overlapped)
      /\ task[a].step = "initialize" /\ child[a].pipe # <<>>
      /\ UNCHANGED <<config, files, copy>>
      /\ child \in [Actor -> Child]
  BY DEF IInv, McpTypes, Initialized, Answered
<1>2. t \in Task /\ t.step = "list" /\ task' = [task EXCEPT ![a] = t]
  BY <1>1 DEF Initialized, Goto, Task, Steps
<1>3. d \in Child /\ PipeFits(task[a], d)
  BY <1>1, ReadFits DEF ActorFits
<1>4. d.state = child[a].state /\ d.answered = child[a].answered
  BY <1>1 DEF Child
<1>5. child' = [child EXCEPT ![a] = e]
  BY <1>1 DEF Initialized, Read
<1> HIDE DEF d
<1>6. e \in Child /\ e.state = d.state /\ e.answered = d.answered /\ e.pipe = d.pipe
  <2>1. \A n \in 0 .. 3 : [d EXCEPT !.asked = n] \in Child
    BY <1>3 DEF Child
  <2>2. e \in Child
    BY <2>1
  <2>3. e.state = d.state /\ e.answered = d.answered /\ e.pipe = d.pipe
    BY <1>3 DEF Child
  <2> QED  BY <2>2, <2>3
<1> HIDE DEF e
<1>7. ActorFits(t, e, granted, ledger, overlapped)
  <2>1. /\ t.operation = task[a].operation /\ t.server = task[a].server /\ t.tested = task[a].tested
        /\ t.command = task[a].command /\ t.entry = task[a].entry /\ t.outcome = task[a].outcome
        /\ t.entitled = task[a].entitled
    BY <1>1 DEF Task
  <2> HIDE DEF t
  <2>2. ServerFits(t, e)
    BY <1>1, <1>2, <1>4, <1>6, <2>1 DEF ActorFits, ServerFits, BeforeStart, BeforeAnswer
  <2>3. EntryFits(t, granted) /\ PipeFits(t, e)
    BY <1>1, <1>2, <1>3, <1>6, <2>1 DEF ActorFits, EntryFits, PipeFits, BeforeAnswer
  <2>4. EntitledFits(t, e, ledger, overlapped)
    BY <1>1, <1>2, <1>4, <1>6, <2>1 DEF ActorFits, EntitledFits
  <2> QED  BY <2>2, <2>3, <2>4 DEF ActorFits
<1> HIDE DEF t
<1> QED  BY <1>1, <1>2, <1>5, <1>6, <1>7, ActorSteps

LEMMA ListedForTrustStep ==
    ASSUME IInv, NEW a \in Actor, ListedForTrust(a) PROVE IInv'
<1> DEFINE surface == Head(child[a].pipe).surface
           t == [task[a] EXCEPT !.step = "close"]
           u == [task[a] EXCEPT !.step = "close", !.outcome = "error"]
           v == [task[a] EXCEPT !.step = "close", !.entry.surface = surface]
<1>1. /\ task[a] \in Task /\ child[a] \in Child /\ child[a].pipe # <<>>
      /\ ActorFits(task[a], child[a], granted, ledger, overlapped)
      /\ task[a].step = "list" /\ task[a].operation = "trust"
      /\ UNCHANGED <<config, files, copy, left>> /\ child' = Read(a)
  BY DEF IInv, McpTypes, ListedForTrust, Answered
<1>2. CASE Goto(a, "close")
  <2>1. t \in Task /\ task' = [task EXCEPT ![a] = t]
    BY <1>1, <1>2 DEF Goto, Task, Steps
  <2>2. ActorFits(t, child[a], granted, ledger, overlapped) /\ t.step = "close"
    BY <1>1 DEF ActorFits, ServerFits, EntryFits, PipeFits, EntitledFits, BeforeStart, BeforeAnswer, Task
  <2> HIDE DEF t
  <2> QED  BY <1>1, <2>1, <2>2, ReadSteps
<1>3. CASE Leave(a, "error", "close")
  <2>1. task' = [task EXCEPT ![a] = u]
    BY <1>1, <1>3 DEF Leave
  <2>2. u \in Task /\ ActorFits(u, child[a], granted, ledger, overlapped) /\ u.step = "close"
    BY <1>1, FailingFits DEF Task
  <2> HIDE DEF u
  <2> QED  BY <1>1, <2>1, <2>2, ReadSteps
<1>4. CASE task' = [task EXCEPT ![a].step = "close", ![a].entry.surface = surface]
  <2>1. surface \in Surface \union {None}
    BY <1>1, HeadFits DEF ActorFits, Line
  <2> HIDE DEF surface
  <2>2. task[a].entry \in Record /\ task[a].command # None /\ task[a].entry.command = task[a].command
    BY <1>1 DEF ActorFits, EntryFits, BeforeAnswer, Task
  <2>3. [task[a].entry EXCEPT !.surface = surface] \in Record
    BY <2>1, <2>2 DEF Record
  <2>4. v = [task[a] EXCEPT !.step = "close", !.entry = [task[a].entry EXCEPT !.surface = surface]]
    BY <1>1 DEF Task
  <2>5. v \in Task /\ task' = [task EXCEPT ![a] = v]
    <3>1. \A entry \in Record : [task[a] EXCEPT !.step = "close", !.entry = entry] \in Task
      BY <1>1 DEF Task, Steps
    <3>2. v \in Task
      BY <2>3, <2>4, <3>1
    <3>3. task' = [task EXCEPT ![a] = v]
      BY <1>1, <1>4
    <3> QED  BY <3>2, <3>3
  <2>6. /\ v.step = "close" /\ v.operation = "trust" /\ v.command = task[a].command
        /\ v.entry = [task[a].entry EXCEPT !.surface = surface]
        /\ v.outcome = task[a].outcome /\ v.server = task[a].server /\ v.tested = task[a].tested
        /\ v.entitled = task[a].entitled
    BY <1>1, <2>4 DEF Task
  <2>7. v.entry # None /\ v.entry.command = v.command
    BY <2>2, <2>3, <2>6, McpAssumption DEF Record
  <2> HIDE DEF v
  <2>8. ActorFits(v, child[a], granted, ledger, overlapped)
    BY <1>1, <2>2, <2>6, <2>7
       DEF ActorFits, ServerFits, EntryFits, PipeFits, EntitledFits, BeforeStart, BeforeAnswer
  <2> QED  BY <1>1, <2>5, <2>6, <2>8, ReadSteps
<1> QED  BY <1>2, <1>3, <1>4 DEF ListedForTrust, Incoming

LEMMA ListedForCallStep ==
    ASSUME IInv, NEW a \in Actor, ListedForCall(a) PROVE IInv'
<1> DEFINE surface == Head(child[a].pipe).surface
           u == [task[a] EXCEPT !.step = "read", !.outcome = "error"]
           d == [child[a] EXCEPT !.pipe = Tail(@)]
<1>1. /\ task[a] \in Task /\ child[a] \in Child /\ child[a].pipe # <<>> /\ left' \in Allowances
      /\ ActorFits(task[a], child[a], granted, ledger, overlapped)
      /\ task[a].step = "list" /\ task[a].operation = "call"
      /\ UNCHANGED <<config, files, copy, left>>
      /\ child \in [Actor -> Child]
  BY DEF IInv, McpTypes, ListedForCall, Answered
<1>2. ASSUME NEW step \in {"send", "invoke"}, Matches(a), Goto(a, step),
             child' = [Read(a) EXCEPT ![a].asked = IF step = "invoke" THEN 3 ELSE @,
                                      ![a].listed = Incoming(a).surface]
      PROVE  IInv'
  <2> DEFINE t == [task[a] EXCEPT !.step = step]
             asked == IF step = "invoke" THEN 3 ELSE d.asked
             e == [d EXCEPT !.asked = asked, !.listed = surface]
  <2>1. t \in Task /\ t.step = step /\ task' = [task EXCEPT ![a] = t]
    BY <1>1, <1>2 DEF Goto, Task, Steps
  <2>2. /\ t.operation = "call" /\ t.server = task[a].server /\ t.tested = task[a].tested
        /\ t.command = task[a].command /\ t.entry = task[a].entry /\ t.outcome = task[a].outcome
        /\ t.entitled = task[a].entitled
    BY <1>1 DEF Task
  <2>3. d \in Child /\ PipeFits(task[a], d)
    BY <1>1, ReadFits DEF ActorFits
  <2>4. d.state = child[a].state /\ d.answered = child[a].answered
    BY <1>1 DEF Child
  <2>5. child' = [child EXCEPT ![a] = e]
    BY <1>1, <1>2 DEF Read, Incoming
  <2>6. surface \in Surface /\ task[a].entry.surface = surface /\ surface # None
    <3>1. Head(child[a].pipe) \in Line
      BY <1>1, HeadFits DEF ActorFits
    <3> QED  BY <1>2, <3>1 DEF Matches, Incoming, Line
  <2> HIDE DEF d, t, surface
  <2>7. asked \in 0 .. 3 /\ (step = "invoke" => asked = 3)
    BY <2>3 DEF Child
  <2> HIDE DEF asked
  <2>8. /\ e \in Child /\ e.state = d.state /\ e.asked = asked /\ e.answered = d.answered
        /\ e.pipe = d.pipe /\ e.listed = surface
    BY <2>3, <2>6, <2>7 DEF Child
  <2> HIDE DEF e
  <2>9. PipeFits(t, e)
    BY <2>2, <2>3, <2>6, <2>8 DEF PipeFits
  <2>10. ServerFits(t, e)
    BY <1>1, <2>1, <2>2, <2>4, <2>7, <2>8 DEF ActorFits, ServerFits, BeforeStart, BeforeAnswer
  <2>11. EntryFits(t, granted)
    BY <1>1, <2>1, <2>2 DEF ActorFits, EntryFits, BeforeAnswer
  <2>12. EntitledFits(t, e, ledger, overlapped)
    BY <1>1, <2>1, <2>2, <2>4, <2>8 DEF ActorFits, EntitledFits
  <2>13. ActorFits(t, e, granted, ledger, overlapped)
    BY <2>9, <2>10, <2>11, <2>12 DEF ActorFits
  <2> QED  BY <1>1, <2>1, <2>5, <2>8, <2>13, ActorSteps
<1>3. CASE child' = Read(a) /\ Leave(a, "error", "read")
  <2>1. u \in Task /\ task' = [task EXCEPT ![a] = u]
    BY <1>1, <1>3 DEF Leave, Task, Steps, Outcomes
  <2>2. ActorFits(u, child[a], granted, ledger, overlapped) /\ u.step = "read"
    BY <1>1 DEF ActorFits, ServerFits, EntryFits, PipeFits, EntitledFits, BeforeStart, BeforeAnswer, Task
  <2> HIDE DEF u
  <2> QED  BY <1>1, <1>3, <2>1, <2>2, ReadSteps
<1> QED  BY <1>2, <1>3 DEF ListedForCall
----------------------------------------------------------------------------
(* The server, the configuration, and the beginning of operations *)

LEMMA AnswerFits ==
    ASSUME NEW t, NEW c \in Child, NEW line \in Line, PipeFits(t, c),
           NEW d, d.pipe = Append(c.pipe, line), d.answered = c.answered \union ({line.id} \ {0}),
           d.listed = c.listed
    PROVE  PipeFits(t, d)
<1> DEFINE n == Len(c.pipe)
<1>1. c.pipe \in Seq(Line) /\ n \in Nat
  BY DEF Child
<1>2. /\ Len(d.pipe) = n + 1 /\ d.pipe[n + 1] = line
      /\ \A i \in 1 .. n : d.pipe[i] = c.pipe[i]
  BY <1>1
<1>3. \A i \in 1 .. Len(d.pipe) : i \in 1 .. n \/ i = n + 1
  BY <1>1, <1>2
<1>4. \A i \in 1 .. n : c.pipe[i].id # 0 => c.pipe[i].id \in c.answered
  BY DEF PipeFits
<1> HIDE DEF n
<1>5. \A i \in 1 .. Len(d.pipe) : d.pipe[i].id # 0 => d.pipe[i].id \in d.answered
  BY <1>2, <1>3, <1>4
<1> QED  BY <1>5 DEF PipeFits

LEMMA AnswerStep ==
    ASSUME IInv, NEW a \in Actor, Answer(a) PROVE IInv'
<1>1. /\ task[a] \in Task /\ child[a] \in Child /\ child \in [Actor -> Child]
      /\ ActorFits(task[a], child[a], granted, ledger, overlapped)
      /\ UNCHANGED <<config, files, task, copy>>
      /\ task' = [task EXCEPT ![a] = task[a]]
  BY DEF IInv, McpTypes, Answer
<1>2. PICK line \in Line :
          /\ IF Noise(a, line) THEN Spend("noise") ELSE UNCHANGED left
          /\ child' = [child EXCEPT
                ![a].pipe = Append(@, line),
                ![a].answered = @ \union ({line.id} \ {0})]
  BY DEF Answer
<1> DEFINE pipe == Append(child[a].pipe, line)
           answered == child[a].answered \union ({line.id} \ {0})
           d == [child[a] EXCEPT !.pipe = pipe, !.answered = answered]
<1>3. left' \in Allowances
  BY <1>2, SpendingType DEF IInv, McpTypes
<1>4. pipe \in Seq(Line) /\ answered \in SUBSET (1 .. 3)
  BY <1>1 DEF Child, Line
<1>5. child' = [child EXCEPT ![a] = d]
  BY <1>1, <1>2
<1> HIDE DEF pipe, answered
<1>6. d \in Child
  BY <1>1, <1>4 DEF Child
<1>7. /\ d.pipe = pipe /\ d.answered = answered /\ d.listed = child[a].listed
      /\ d.asked = child[a].asked /\ d.state = child[a].state
  BY <1>1 DEF Child
<1> HIDE DEF d
<1>8. PipeFits(task[a], d)
  BY <1>1, <1>7, AnswerFits DEF ActorFits, pipe, answered
<1>9. ActorFits(task[a], d, granted, ledger, overlapped)
  <2>1. ServerFits(task[a], d)
    BY <1>1, <1>7 DEF ActorFits, ServerFits, answered
  <2>2. EntitledFits(task[a], d, ledger, overlapped)
    BY <1>1, <1>7 DEF ActorFits, EntitledFits
  <2> QED  BY <1>1, <1>8, <2>1, <2>2 DEF ActorFits
<1> QED  BY <1>1, <1>3, <1>5, <1>6, <1>9, ActorSteps

LEMMA ServeStep ==
    ASSUME IInv, NEW a \in Actor, Serve(a) PROVE IInv'
BY AnswerStep, ReadsOnStep, ExitStep DEF Serve

LEMMA EditConfigStep ==
    ASSUME IInv, NEW s \in Server, EditConfig(s) PROVE IInv'
<1>1. config' \in [Server -> Command \union {None}] /\ left' \in Allowances
  BY SpendingType DEF EditConfig, IInv, McpTypes
<1>2. UNCHANGED <<file, torn, ledger, granted, overlapped, task, child, copy>>
  BY DEF EditConfig, files
<1>3. McpTypes'
  BY <1>1, <1>2 DEF IInv, McpTypes, AreFiles
<1>4. ChangesFit'
  BY <1>2 DEF IInv, ChangesFit, FilesKeepEveryChange, Changing, FileOf
<1>5. \A a \in Actor : ActorFits(task[a], child[a], granted, ledger, overlapped)'
  BY <1>2 DEF IInv
<1> QED  BY <1>3, <1>4, <1>5 DEF IInv

LEMMA BeginSteps ==
    ASSUME IInv, NEW a \in Actor, NEW s \in Server, NEW operation \in Operations,
           NEW tested \in BOOLEAN, NEW outcome \in {"none", "simulated", "error"},
           NEW step \in {"permission", "consent", "record", "read", "profile", "done"},
           NEW entry \in Record \union {None},
           Begin(a, operation, s, tested, step, outcome, entry),
           step \in {"permission", "consent", "record"} => outcome = "none" /\ config[s] # None,
           operation = "call" /\ step \notin {"permission", "record"} => outcome # "none",
           step \in {"permission", "record"} => operation = "call",
           step = "consent" => operation = "trust",
           step = "record" => tested,
           operation = "trust" => /\ entry # None /\ entry.command = config[s]
                                  /\ entry.surface = None
    PROVE  IInv'
<1> DEFINE entitled == {f \in Files : Allows(ledger, f, s)}
           t == [step |-> step, operation |-> operation, server |-> s, tested |-> tested,
                 command |-> config[s], entry |-> entry, outcome |-> outcome,
                 entitled |-> entitled]
<1>1. /\ task[a].step = "idle" /\ child[a] \in Child /\ left' \in Allowances
      /\ ActorFits(task[a], child[a], granted, ledger, overlapped)
      /\ config[s] \in Command \union {None}
      /\ UNCHANGED <<config, files, child, copy>>
  BY SpendingType DEF IInv, McpTypes, Begin
<1>2. task' = [task EXCEPT ![a] = t]
  BY DEF Begin
<1>3. entitled \subseteq Files /\ \A f \in Files : Allows(ledger, f, s) => f \in entitled
  OBVIOUS
<1> HIDE DEF entitled
<1>4. t \in Task
  BY <1>1, <1>3 DEF Task, Steps, Outcomes
<1>5. /\ t.step = step /\ t.operation = operation /\ t.server = s /\ t.tested = tested
      /\ t.command = config[s] /\ t.entry = entry /\ t.outcome = outcome /\ t.entitled = entitled
  OBVIOUS
<1> HIDE DEF t
<1>6. child[a].state = "none" /\ PipeFits(task[a], child[a])
  BY <1>1 DEF ActorFits, ServerFits, BeforeStart
<1>7. ActorFits(t, child[a], granted, ledger, overlapped)
  <2>1. ServerFits(t, child[a])
    BY <1>5, <1>6 DEF ServerFits, BeforeStart, BeforeAnswer
  <2>2. EntryFits(t, granted)
    BY <1>5 DEF EntryFits, BeforeAnswer
  <2>3. PipeFits(t, child[a])
    BY <1>5, <1>6 DEF PipeFits
  <2>4. EntitledFits(t, child[a], ledger, overlapped)
    BY <1>3, <1>5, <1>6 DEF EntitledFits
  <2> QED  BY <2>1, <2>2, <2>3, <2>4 DEF ActorFits
<1> QED  BY <1>1, <1>2, <1>4, <1>5, <1>7, TaskSteps

LEMMA BeginOperationStep ==
    ASSUME IInv, NEW a \in Actor, BeginOperation(a) PROVE IInv'
<1>1. PICK s \in Server : SimulateCall(a, s) \/ BeginCall(a, s) \/ BeginTrust(a, s) \/ BeginConsent(a, s)
  BY DEF BeginOperation
<1>2. CASE SimulateCall(a, s)
  <2>1. PICK tested \in BOOLEAN, outcome \in {"simulated", "error"}, step \in {"profile", "done"} :
            Begin(a, "call", s, tested, step, outcome, None)
    BY <1>2 DEF SimulateCall
  <2> QED  BY <2>1, BeginSteps DEF Operations
<1>3. CASE BeginCall(a, s)
  <2>1. PICK tested \in BOOLEAN :
            IF config[s] = None
              THEN Begin(a, "call", s, tested, "done", IF tested THEN "simulated" ELSE "error", None)
              ELSE Begin(a, "call", s, tested, IF tested THEN "record" ELSE "permission", "none", None)
    BY <1>3 DEF BeginCall
  <2>2. CASE config[s] = None
    <3>1. PICK outcome \in {"simulated", "error"} : Begin(a, "call", s, tested, "done", outcome, None)
      BY <2>1, <2>2
    <3> QED  BY <3>1, BeginSteps DEF Operations
  <2>3. CASE config[s] # None
    <3>1. PICK step \in {"record", "permission"} :
              (step = "record" => tested) /\ Begin(a, "call", s, tested, step, "none", None)
      BY <2>1, <2>3
    <3> QED  BY <2>3, <3>1, BeginSteps DEF Operations
  <2> QED  BY <2>2, <2>3
<1>4. CASE BeginTrust(a, s)
  <2>1. PICK allowed \in BOOLEAN :
            LET entry == [status |-> "trusted", allowed |-> allowed, command |-> config[s], surface |-> None] IN
            Begin(a, "trust", s, FALSE, IF config[s] = None THEN "read" ELSE "consent", "none", entry)
    BY <1>4 DEF BeginTrust
  <2> DEFINE entry == [status |-> "trusted", allowed |-> allowed, command |-> config[s], surface |-> None]
  <2>2. /\ entry \in Record /\ entry.command = config[s] /\ entry.surface = None
    BY DEF Record, IInv, McpTypes
  <2>3. entry # None
    BY <2>2, McpAssumption
  <2> HIDE DEF entry
  <2>4. PICK step \in {"read", "consent"} :
            (step = "consent" => config[s] # None) /\ Begin(a, "trust", s, FALSE, step, "none", entry)
    BY <2>1 DEF entry
  <2> QED  BY <2>2, <2>3, <2>4, BeginSteps DEF Operations
<1>5. CASE BeginConsent(a, s)
  <2>1. PICK operation \in {"grant", "revoke"} : Begin(a, operation, s, FALSE, "read", "none", None)
    BY <1>5 DEF BeginConsent
  <2> QED  BY <2>1, BeginSteps DEF Operations
<1> QED  BY <1>1, <1>2, <1>3, <1>4, <1>5
----------------------------------------------------------------------------
(* Changing a file, and deaths *)

\* Who gets on to the next part of changing a file.
LEMMA ChangingFits ==
    ASSUME NEW t \in Task, NEW c, NEW grants, NEW contents, NEW over,
           ActorFits(t, c, grants, contents, over), t.step \in {"read", "truncate"},
           NEW step \in {"truncate", "fill"}
    PROVE  /\ [t EXCEPT !.step = step] \in Task
           /\ ActorFits([t EXCEPT !.step = step], c, grants, contents, over)
<1> DEFINE u == [t EXCEPT !.step = step]
<1>1. u \in Task
  BY DEF Task, Steps
<1>2. /\ u.step = step /\ u.outcome = t.outcome /\ u.operation = t.operation /\ u.server = t.server
      /\ u.tested = t.tested /\ u.command = t.command /\ u.entry = t.entry /\ u.entitled = t.entitled
  BY DEF Task
<1> HIDE DEF u
<1>3. ActorFits(u, c, grants, contents, over)
  BY <1>2 DEF ActorFits, ServerFits, EntryFits, PipeFits, EntitledFits, BeforeStart, BeforeAnswer
<1> QED  BY <1>1, <1>3 DEF u

LEMMA GoOnChanging ==
    ASSUME IInv, NEW a \in Actor, task[a].step \in {"read", "truncate"},
           NEW step \in {"truncate", "fill"}, Goto(a, step)
    PROVE  /\ task' \in [Actor -> Task]
           /\ task'[a].step = step /\ task'[a].operation = task[a].operation
           /\ ActorFits(task'[a], child[a], granted, ledger, overlapped)
           /\ \A q \in Actor \ {a} : task'[q] = task[q]
<1> DEFINE u == [task[a] EXCEPT !.step = step]
<1>1. task[a] \in Task /\ ActorFits(task[a], child[a], granted, ledger, overlapped)
      /\ task \in [Actor -> Task]
  BY DEF IInv, McpTypes
<1>2. task' = [task EXCEPT ![a] = u] /\ u.step = step /\ u.operation = task[a].operation
  BY <1>1 DEF Goto, Task
<1>3. u \in Task /\ ActorFits(u, child[a], granted, ledger, overlapped)
  BY <1>1, ChangingFits
<1> HIDE DEF u
<1> QED  BY <1>1, <1>2, <1>3

LEMMA ReadToChangeStep ==
    ASSUME IInv, NEW a \in Actor, ReadToChange(a) PROVE IInv'
<1> DEFINE f == FileOf(a)
<1>1. /\ task[a].step = "read" /\ f \in Files /\ left' \in Allowances
      /\ UNCHANGED <<config, file, torn, ledger, granted, child, left>>
  BY DEF IInv, McpTypes, ReadToChange, FileOf, Files
<1>2. CASE Leave(a, "raised", "close") /\ UNCHANGED <<overlapped, copy>>
  BY <1>1, <1>2, LeaveSteps DEF files
<1>3. CASE /\ f \notin torn
           /\ Goto(a, "truncate")
           /\ copy' = [copy EXCEPT ![a] = [NoFiles EXCEPT ![f] = file[f]]]
           /\ overlapped' = IF \E q \in Actor \ {a} : Changing(q) /\ FileOf(q) = f
                              THEN overlapped \union {f} ELSE overlapped
  <2> DEFINE mine == [NoFiles EXCEPT ![f] = file[f]]
  <2>1. /\ task' \in [Actor -> Task]
        /\ task'[a].step = "truncate" /\ task'[a].operation = task[a].operation
        /\ ActorFits(task'[a], child[a], granted, ledger, overlapped)
        /\ \A q \in Actor \ {a} : task'[q] = task[q]
    BY <1>1, <1>3, GoOnChanging
  <2>2. AreFiles(mine) /\ mine[f] = file[f]
        /\ (mine["trust"] = file["trust"] \/ mine["trust"] = NoFiles["trust"])
    BY <1>1, NoFilesType DEF AreFiles, IInv, McpTypes, Files
  <2> HIDE DEF mine
  <2>3. /\ \A q \in Actor : copy'[q] = IF q = a THEN mine ELSE copy[q]
        /\ DOMAIN copy' = Actor
    BY <1>3 DEF IInv, McpTypes, mine
  <2>4. overlapped \subseteq overlapped' /\ overlapped' \subseteq Files
    BY <1>1, <1>3 DEF IInv, McpTypes
  <2>5. McpTypes'
    BY <1>1, <2>1, <2>2, <2>3, <2>4 DEF IInv, McpTypes, AreFiles
  <2>6. \A q \in Actor : FileOf(q)' = FileOf(q) /\ (q # a => (Changing(q)' <=> Changing(q)))
    BY <2>1 DEF FileOf, Changing
  <2>7. \A q \in Actor : Backed(copy'[q]["trust"], granted)
    <3>1. Backed(NoFiles["trust"], granted)
      BY DEF NoFiles, Files, Backed
    <3> QED  BY <2>2, <2>3, <3>1 DEF IInv, ChangesFit, Backed
  <2>8. ASSUME NEW q \in Actor, Changing(q)', FileOf(q)' \notin overlapped'
        PROVE  /\ copy'[q][FileOf(q)'] = ledger[FileOf(q)']
               /\ \A r \in Actor \ {q} : ~(Changing(r)' /\ FileOf(r)' = FileOf(q)')
    <3>1. CASE q = a
      <4>1. f \notin overlapped /\ ~\E r \in Actor \ {a} : Changing(r) /\ FileOf(r) = f
        BY <1>3, <2>4, <2>6, <2>8, <3>1
      <4>2. file[f] = ledger[f]
        BY <1>1, <1>3, <4>1 DEF IInv, ChangesFit, FilesKeepEveryChange
      <4> QED  BY <2>2, <2>3, <2>6, <3>1, <4>1, <4>2
    <3>2. CASE q # a
      <4>1. FileOf(q) # f
        BY <1>3, <2>6, <2>8, <3>2
      <4>2. Changing(q) /\ FileOf(q) \notin overlapped
        BY <2>4, <2>6, <2>8, <3>2
      <4> QED  BY <2>3, <2>6, <3>2, <4>1, <4>2 DEF IInv, ChangesFit
    <3> QED  BY <3>1, <3>2
  <2>9. ChangesFit'
    <3>1. FilesKeepEveryChange'
      BY <1>1, <2>4 DEF IInv, ChangesFit, FilesKeepEveryChange
    <3>2. Backed(file["trust"], granted)'
      BY <1>1 DEF IInv, ChangesFit, Backed
    <3> QED  BY <1>1, <2>7, <2>8, <3>1, <3>2 DEF ChangesFit
  <2>10. \A q \in Actor : ActorFits(task[q], child[q], granted, ledger, overlapped)'
    <3>1. \A q \in Actor : ActorFits(task'[q], child[q], granted, ledger, overlapped)
      BY <2>1 DEF IInv
    <3> QED  BY <1>1, <2>4, <3>1, OthersKeep
  <2> QED  BY <2>5, <2>9, <2>10 DEF IInv
<1> QED  BY <1>2, <1>3 DEF ReadToChange

LEMMA TruncateStep ==
    ASSUME IInv, NEW a \in Actor, Truncate(a) PROVE IInv'
<1>1. /\ task[a].step = "truncate" /\ FileOf(a) \in Files
      /\ UNCHANGED <<config, file, ledger, granted, overlapped, child, copy, left>>
      /\ torn' = torn \union {FileOf(a)}
  BY DEF Truncate, FileOf, Files
<1>2. /\ task' \in [Actor -> Task]
      /\ task'[a].step = "fill" /\ task'[a].operation = task[a].operation
      /\ ActorFits(task'[a], child[a], granted, ledger, overlapped)
      /\ \A q \in Actor \ {a} : task'[q] = task[q]
  BY <1>1, GoOnChanging DEF Truncate
<1>3. McpTypes'
  BY <1>1, <1>2 DEF IInv, McpTypes, AreFiles
<1>4. \A q \in Actor : FileOf(q)' = FileOf(q) /\ (Changing(q)' <=> Changing(q))
  BY <1>1, <1>2 DEF FileOf, Changing
<1>5. ChangesFit'
  <2>1. FilesKeepEveryChange'
    BY <1>1 DEF IInv, ChangesFit, FilesKeepEveryChange
  <2> QED  BY <1>1, <1>4, <2>1 DEF IInv, ChangesFit
<1>6. \A q \in Actor : ActorFits(task[q], child[q], granted, ledger, overlapped)'
  BY <1>1, <1>2 DEF IInv
<1> QED  BY <1>3, <1>5, <1>6 DEF IInv
\* A change adds what it has approved, and takes no approval from the others.
LEMMA ChangedIsBacked ==
    ASSUME IInv, NEW a \in Actor, FileOf(a) = "trust",
           NEW trust \in Trust, Backed(trust, granted)
    PROVE  Backed(Changed(a, trust), granted \union Approved(a))
<1> DEFINE s == task[a].server
           changed == Changed(a, trust)
<1>1. task[a] \in Task /\ s \in Server /\ task[a].operation \in {"call", "trust"}
  BY DEF IInv, McpTypes, Task, FileOf
<1>2. CASE task[a].operation = "trust"
  <2>1. changed = [trust EXCEPT ![s] = task[a].entry]
    BY <1>2 DEF Changed
  <2>2. task[a].entry.surface # None =>
            Approved(a) = {[server |-> s, command |-> task[a].entry.command, surface |-> task[a].entry.surface]}
    BY <1>2 DEF Approved
  <2>3. changed[s] = task[a].entry /\ \A t \in Server \ {s} : changed[t] = trust[t]
    BY <1>1, <2>1 DEF Trust
  <2> HIDE DEF changed
  <2>4. Backed(changed, granted \union Approved(a))
    BY <2>2, <2>3 DEF Backed
  <2> QED  BY <2>4 DEF changed
<1>3. CASE task[a].operation = "call"
  <2>1. changed = [trust EXCEPT ![s] = IF trust[s] = None THEN None ELSE [trust[s] EXCEPT !.status = "trust_stale"]]
    BY <1>3 DEF Changed
  <2>2. \A t \in Server \ {s} : changed[t] = trust[t]
    BY <1>1, <2>1 DEF Trust
  <2>3. changed[s] # None =>
            /\ trust[s] # None
            /\ changed[s].command = trust[s].command /\ changed[s].surface = trust[s].surface
    <3>1. CASE trust[s] = None
      BY <1>1, <2>1, <3>1 DEF Trust
    <3>2. CASE trust[s] # None
      <4>1. trust[s] \in Record
        BY <1>1, <3>2 DEF Trust
      <4>2. changed[s] = [trust[s] EXCEPT !.status = "trust_stale"]
        BY <1>1, <2>1, <3>2 DEF Trust
      <4> QED  BY <3>2, <4>1, <4>2 DEF Record
    <3> QED  BY <3>1, <3>2
  <2> HIDE DEF changed
  <2>4. Backed(changed, granted \union Approved(a))
    BY <2>2, <2>3 DEF Backed
  <2> QED  BY <2>4 DEF changed
<1> QED  BY <1>1, <1>2, <1>3

\* An actor learns that a file allows its operation.
LEMMA EntitlingFits ==
    ASSUME NEW t \in Task, NEW c, NEW grants, NEW contents, NEW over,
           ActorFits(t, c, grants, contents, over), t.step # "idle",
           NEW f \in Files, NEW now, \A g \in Files \ {f} : now[g] = contents[g],
           NEW more \in SUBSET Files, Allows(now, f, t.server) => f \in more
    PROVE  /\ [t EXCEPT !.entitled = t.entitled \union more] \in Task
           /\ ActorFits([t EXCEPT !.entitled = t.entitled \union more], c, grants, now, over)
<1> DEFINE u == [t EXCEPT !.entitled = t.entitled \union more]
<1>1. u \in Task
  BY DEF Task
<1>2. /\ u.step = t.step /\ u.outcome = t.outcome /\ u.operation = t.operation /\ u.server = t.server
      /\ u.tested = t.tested /\ u.command = t.command /\ u.entry = t.entry
      /\ u.entitled = t.entitled \union more
  BY DEF Task
<1> HIDE DEF u
<1>3. EntitledFits(u, c, now, over)
  <2>1. \A g \in Files : Allows(now, g, u.server) => g \in u.entitled
    BY <1>2 DEF ActorFits, EntitledFits, Allows
  <2> QED  BY <1>2, <2>1 DEF ActorFits, EntitledFits
<1>4. ActorFits(u, c, grants, now, over)
  BY <1>2, <1>3 DEF ActorFits, ServerFits, EntryFits, PipeFits
<1> QED  BY <1>1, <1>4 DEF u

\* The operation has written its file.
LEMMA WrittenFits ==
    ASSUME NEW t \in Task, NEW c, NEW grants, NEW contents, NEW over,
           ActorFits(t, c, grants, contents, over), t.step = "fill",
           NEW step, step = (IF t.operation = "call" THEN "close" ELSE "done"),
           NEW outcome, outcome = (IF t.operation = "call" THEN t.outcome ELSE "ok")
    PROVE  /\ [t EXCEPT !.step = step, !.outcome = outcome] \in Task
           /\ ActorFits([t EXCEPT !.step = step, !.outcome = outcome], c, grants, contents, over)
<1> DEFINE u == [t EXCEPT !.step = step, !.outcome = outcome]
<1>1. step \in Steps /\ outcome \in Outcomes
  BY DEF Steps, Outcomes, Task
<1>2. u \in Task
  BY <1>1 DEF Task
<1>3. /\ u.step = step /\ u.outcome = outcome /\ u.operation = t.operation /\ u.server = t.server
      /\ u.tested = t.tested /\ u.command = t.command /\ u.entry = t.entry /\ u.entitled = t.entitled
  BY DEF Task
<1> HIDE DEF u
<1>4. ActorFits(u, c, grants, contents, over)
  BY <1>3 DEF ActorFits, ServerFits, EntryFits, PipeFits, EntitledFits, BeforeStart, BeforeAnswer
<1> QED  BY <1>2, <1>4 DEF u

LEMMA FillStep ==
    ASSUME IInv, NEW a \in Actor, Fill(a) PROVE IInv'
<1> DEFINE f == FileOf(a)
           now == [ledger EXCEPT ![f] = Changed(a, ledger[f])]
           step == IF task[a].operation = "call" THEN "close" ELSE "done"
           outcome == IF task[a].operation = "call" THEN task[a].outcome ELSE "ok"
           More(q) == IF Allows(now, f, task[q].server) THEN {f} ELSE {}
           Entitled(q) == task[q].entitled \union More(q)
<1>1. /\ task[a].step = "fill" /\ f \in Files
      /\ file' = [file EXCEPT ![f] = Changed(a, copy[a][f])]
      /\ torn' \in {torn \ {f}} \union (IF f \in torn THEN {} ELSE {torn \union {f}})
      /\ ledger' = now
      /\ task' = [q \in Actor |->
             IF q = a THEN [task[a] EXCEPT !.step = step, !.outcome = outcome, !.entitled = Entitled(a)]
             ELSE IF task[q].step = "idle" THEN task[q]
             ELSE [task[q] EXCEPT !.entitled = Entitled(q)]]
      /\ granted' = granted \union Approved(a)
      /\ copy' = [copy EXCEPT ![a] = NoFiles]
      /\ UNCHANGED <<config, overlapped, child, left>>
  <2>1. f \in Files
    BY DEF FileOf, Files
  <2> QED  BY <2>1 DEF Fill
<1>2. /\ task \in [Actor -> Task] /\ AreFiles(file) /\ AreFiles(ledger) /\ AreFiles(copy[a])
      /\ \A q \in Actor : ActorFits(task[q], child[q], granted, ledger, overlapped)
      /\ DOMAIN copy = Actor
  BY DEF IInv, McpTypes
<1>3. task[a] \in Task /\ (task[a].operation = "trust" => task[a].entry # None)
  BY <1>2 DEF ActorFits, EntryFits
<1>4. AreFiles(file') /\ AreFiles(ledger')
  <2>1. ASSUME NEW contents, AreFiles(contents)
        PROVE  /\ f = "trust" => Changed(a, contents[f]) \in Trust
               /\ f = "consent" => Changed(a, contents[f]) \in Consent
    BY <1>2, <1>3, <2>1, ChangedType
  <2>2. /\ f = "trust" => Changed(a, copy[a][f]) \in Trust /\ Changed(a, ledger[f]) \in Trust
        /\ f = "consent" => Changed(a, copy[a][f]) \in Consent /\ Changed(a, ledger[f]) \in Consent
    BY <1>2, <2>1
  <2> QED  BY <1>1, <1>2, <2>2 DEF AreFiles, Files
<1>5. /\ now[f] = Changed(a, ledger[f]) /\ file'[f] = Changed(a, copy[a][f])
      /\ \A g \in Files \ {f} : now[g] = ledger[g] /\ file'[g] = file[g]
  BY <1>1, <1>2 DEF AreFiles
<1> HIDE DEF now
<1>6. \A q \in Actor : /\ More(q) \in SUBSET Files
                       /\ Allows(now, f, task[q].server) => f \in More(q)
  BY <1>1
<1> HIDE DEF More
<1>6a. ASSUME NEW q \in Actor, task[q].step # "idle"
       PROVE  /\ [task[q] EXCEPT !.entitled = Entitled(q)] \in Task
              /\ ActorFits([task[q] EXCEPT !.entitled = Entitled(q)], child[q], granted, now, overlapped)
  <2> HIDE DEF f
  <2>1. /\ task[q] \in Task /\ ActorFits(task[q], child[q], granted, ledger, overlapped)
        /\ f \in Files /\ \A g \in Files \ {f} : now[g] = ledger[g]
        /\ More(q) \in SUBSET Files /\ (Allows(now, f, task[q].server) => f \in More(q))
    BY <1>1, <1>2, <1>5, <1>6
  <2> QED  BY ONLY <2>1, <1>6a, EntitlingFits
<1>7. ASSUME NEW q \in Actor, q # a
      PROVE  task'[q] \in Task /\ ActorFits(task'[q], child[q], granted, now, overlapped)
             /\ task'[q].step = task[q].step /\ task'[q].operation = task[q].operation
  <2>1. task[q] \in Task
    BY <1>2
  <2>2. CASE task[q].step = "idle"
    BY <1>1, <1>2, <1>7, <2>1, <2>2 DEF ActorFits, EntitledFits
  <2>3. CASE task[q].step # "idle"
    <3>1. task'[q] = [task[q] EXCEPT !.entitled = Entitled(q)]
      BY <1>1, <1>7, <2>3
    <3>2. /\ [task[q] EXCEPT !.entitled = Entitled(q)] \in Task
          /\ ActorFits([task[q] EXCEPT !.entitled = Entitled(q)], child[q], granted, now, overlapped)
      BY <1>6a, <2>3
    <3> QED  BY <2>1, <3>1, <3>2 DEF Task
  <2> QED  BY <2>2, <2>3
<1>8. task'[a] \in Task /\ ActorFits(task'[a], child[a], granted, now, overlapped)
      /\ task'[a].step \notin {"truncate", "fill"} /\ task'[a].operation = task[a].operation
  <2> DEFINE u == [task[a] EXCEPT !.entitled = Entitled(a)]
  <2>1. u \in Task /\ ActorFits(u, child[a], granted, now, overlapped)
    BY <1>1, <1>6a
  <2>2. u.step = "fill" /\ u.operation = task[a].operation /\ u.outcome = task[a].outcome
    BY <1>1, <1>3 DEF Task
  <2>3. task'[a] = [u EXCEPT !.step = step, !.outcome = outcome]
    <3>1. task'[a] = [task[a] EXCEPT !.step = step, !.outcome = outcome, !.entitled = Entitled(a)]
      BY <1>1
    <3> QED  BY <1>3, <3>1 DEF Task
  <2> HIDE DEF u, Entitled
  <2>4. /\ [u EXCEPT !.step = step, !.outcome = outcome] \in Task
        /\ ActorFits([u EXCEPT !.step = step, !.outcome = outcome], child[a], granted, now, overlapped)
    BY <2>1, <2>2, WrittenFits
  <2>5. step \notin {"truncate", "fill"}
    OBVIOUS
  <2> HIDE DEF step, outcome
  <2> QED  BY <2>1, <2>2, <2>3, <2>4, <2>5 DEF Task
<1>9. task' \in [Actor -> Task]
  BY <1>1, <1>7, <1>8
<1>10. granted \subseteq granted' /\ granted' \subseteq [server : Server, command : Command, surface : Surface]
  <2>1. Approved(a) \subseteq [server : Server, command : Command, surface : Surface]
    <3> SUFFICES ASSUME task[a].operation = "trust", task[a].entry.surface # None
                 PROVE  /\ task[a].server \in Server /\ task[a].entry.command \in Command
                        /\ task[a].entry.surface \in Surface
      BY DEF Approved
    <3>1. task[a].entry \in Record /\ task[a].entry.command = task[a].command /\ task[a].command # None
      BY <1>2, <1>3 DEF ActorFits, EntryFits, Task
    <3> QED  BY <1>3, <3>1 DEF Record, Task
  <2> QED  BY <1>1, <2>1 DEF IInv, McpTypes
<1>11. /\ DOMAIN copy' = Actor /\ copy'[a] = NoFiles
       /\ \A q \in Actor \ {a} : copy'[q] = copy[q]
  BY <1>1, <1>2
<1>12. McpTypes'
  <2>1. torn' \subseteq Files
    BY <1>1 DEF IInv, McpTypes
  <2>2. \A q \in Actor : AreFiles(copy'[q])
    BY <1>11, NoFilesType DEF IInv, McpTypes
  <2>3. AreFiles(file)' /\ AreFiles(ledger)' /\ \A q \in Actor : AreFiles(copy[q])'
    BY <1>4, <2>2 DEF AreFiles
  <2> QED  BY <1>1, <1>9, <1>10, <1>11, <2>1, <2>3 DEF IInv, McpTypes
<1>13. ChangesFit'
  <2>1. Backed(file'["trust"], granted')
    <3>1. CASE f = "trust"
      <4>1. copy[a]["trust"] \in Trust /\ Backed(copy[a]["trust"], granted)
        BY <1>2 DEF AreFiles, IInv, ChangesFit
      <4> QED  BY <1>1, <1>5, <3>1, <4>1, ChangedIsBacked
    <3>2. CASE f = "consent"
      <4>1. file'["trust"] = file["trust"]
        BY <1>5, <3>2 DEF Files
      <4> QED  BY <1>10, <4>1 DEF IInv, ChangesFit, Backed
    <3> QED  BY <1>1, <3>1, <3>2 DEF Files
  <2>2. \A q \in Actor : Backed(copy'[q]["trust"], granted')
    <3>1. Backed(NoFiles["trust"], granted')
      BY DEF NoFiles, Files, Backed
    <3>2. \A q \in Actor : Backed(copy[q]["trust"], granted')
      BY <1>10 DEF IInv, ChangesFit, Backed
    <3> QED  BY <1>11, <3>1, <3>2
  <2>3. ASSUME NEW g \in Files, g \notin torn', g \notin overlapped
        PROVE  file'[g] = now[g]
    <3>1. CASE g = f
      <4>1. copy[a][f] = ledger[f]
        BY <1>1, <2>3, <3>1 DEF IInv, ChangesFit, Changing
      <4> QED  BY <1>5, <3>1, <4>1
    <3>2. CASE g # f
      <4>1. g \notin torn
        BY <1>1, <2>3, <3>2
      <4> QED  BY <1>5, <2>3, <3>2, <4>1 DEF IInv, ChangesFit, FilesKeepEveryChange
    <3> QED  BY <3>1, <3>2
  <2>4. \A q \in Actor : FileOf(q)' = FileOf(q)
    BY <1>7, <1>8 DEF FileOf
  <2>5. ~Changing(a)' /\ \A q \in Actor \ {a} : Changing(q)' <=> Changing(q)
    BY <1>7, <1>8 DEF Changing
  <2>6. ASSUME NEW q \in Actor, Changing(q)', FileOf(q)' \notin overlapped
        PROVE  /\ copy'[q][FileOf(q)'] = now[FileOf(q)']
               /\ \A r \in Actor \ {q} : ~(Changing(r)' /\ FileOf(r)' = FileOf(q)')
    <3>1. q # a /\ Changing(q) /\ FileOf(q) \notin overlapped /\ FileOf(q) \in Files
      BY <2>4, <2>5, <2>6 DEF FileOf, Files
    <3>2. FileOf(q) # f
      BY <1>1, <3>1 DEF IInv, ChangesFit, Changing
    <3>3. copy[q][FileOf(q)] = ledger[FileOf(q)]
      BY <3>1 DEF IInv, ChangesFit
    <3>4. \A r \in Actor \ {q} : ~(Changing(r) /\ FileOf(r) = FileOf(q))
      BY <3>1 DEF IInv, ChangesFit
    <3> QED  BY <1>5, <1>11, <2>4, <2>5, <3>1, <3>2, <3>3, <3>4
  <2>7. UNCHANGED overlapped /\ ledger' = now
    BY <1>1
  <2>8. FilesKeepEveryChange'
    BY <2>3, <2>7 DEF FilesKeepEveryChange
  <2> HIDE DEF f
  <2> QED  BY <2>1, <2>2, <2>6, <2>7, <2>8 DEF ChangesFit, Backed
<1>14. \A q \in Actor : ActorFits(task[q], child[q], granted, ledger, overlapped)'
  <2>1. \A q \in Actor : ActorFits(task'[q], child[q], granted, now, overlapped)
    BY <1>7, <1>8
  <2>2. \A q \in Actor : ActorFits(task'[q], child[q], granted', now, overlapped)
    BY <2>1, <1>10, OthersKeep
  <2> QED  BY <1>1, <2>2
<1> QED  BY <1>12, <1>13, <1>14 DEF IInv

LEMMA CrashStep ==
    ASSUME IInv, NEW dead \in SUBSET Actor, Crash(dead) PROVE IInv'
<1>1. /\ task' = [a \in Actor |-> IF a \in dead THEN Quiet(task[a].server) ELSE task[a]]
      /\ child' = [a \in Actor |-> IF a \in dead THEN NoChild ELSE child[a]]
      /\ copy' = [a \in Actor |-> IF a \in dead THEN NoFiles ELSE copy[a]]
      /\ UNCHANGED <<config, file, torn, ledger, granted, overlapped>>
      /\ left' \in Allowances
      /\ task \in [Actor -> Task] /\ child \in [Actor -> Child]
  BY SpendingType DEF Crash, IInv, McpTypes, files
<1>2. \A a \in Actor : task[a].server \in Server /\ Quiet(task[a].server) \in Task
  BY <1>1, QuietType DEF Task
<1>3. McpTypes'
  <2>1. task' \in [Actor -> Task] /\ child' \in [Actor -> Child]
    BY <1>1, <1>2, NoChildType
  <2>2. DOMAIN copy' = Actor /\ \A a \in Actor : AreFiles(copy'[a])
    BY <1>1, NoFilesType DEF IInv, McpTypes
  <2> QED  BY <1>1, <2>1, <2>2 DEF IInv, McpTypes, AreFiles
<1>4. \A a \in Actor : Changing(a)' =>
          a \notin dead /\ Changing(a) /\ FileOf(a)' = FileOf(a) /\ copy'[a] = copy[a]
  BY <1>1 DEF Changing, FileOf, Quiet
<1>5. ChangesFit'
  <2>1. FilesKeepEveryChange'
    BY <1>1 DEF IInv, ChangesFit, FilesKeepEveryChange
  <2>2. \A a \in Actor : Backed(copy'[a]["trust"], granted)
    <3>1. Backed(NoFiles["trust"], granted)
      BY DEF NoFiles, Files, Backed
    <3> QED  BY <1>1, <3>1 DEF IInv, ChangesFit
  <2> QED  BY <1>1, <1>4, <2>1, <2>2 DEF IInv, ChangesFit
<1>6. \A a \in Actor : ActorFits(task[a], child[a], granted, ledger, overlapped)'
  <2>1. \A a \in Actor : ActorFits(task'[a], child'[a], granted, ledger, overlapped)
    BY <1>1, <1>2, QuietFits DEF IInv
  <2> QED  BY <1>1, <2>1
<1> QED  BY <1>3, <1>5, <1>6 DEF IInv
----------------------------------------------------------------------------
(* The theorems *)

LEMMA WorkStep ==
    ASSUME IInv, NEW a \in Actor, Work(a) PROVE IInv'
BY CheckTrustStep, CheckConsentStep, ReadRecordStep, LaunchStep, SkipStep, MalformedStep,
   ReaderDiesStep, InitializedStep, ListedForCallStep, ListedForTrustStep, SendFailsStep, InvokedStep,
   NoAnswerStep, CloseStep,
   ReadToChangeStep, TruncateStep, FillStep, ReadProfileStep
   DEF Work

LEMMA NextStep == IInv /\ [McpNext]_mcpVars => IInv'
<1> SUFFICES ASSUME IInv, [McpNext]_mcpVars PROVE IInv'
  OBVIOUS
<1>1. CASE UNCHANGED mcpVars
  <2>1. UNCHANGED <<config, file, torn, ledger, granted, overlapped, task, child, copy, left>>
    BY <1>1 DEF mcpVars, files
  <2>2. McpTypes'
    BY <2>1 DEF IInv, McpTypes, AreFiles
  <2>3. ChangesFit'
    BY <2>1 DEF IInv, ChangesFit, FilesKeepEveryChange, Changing, FileOf
  <2>4. \A a \in Actor : ActorFits(task[a], child[a], granted, ledger, overlapped)'
    BY <2>1 DEF IInv
  <2> QED  BY <2>2, <2>3, <2>4 DEF IInv
<1>2. CASE \E s \in Server : EditConfig(s)
  BY <1>2, EditConfigStep
<1>3. CASE \E a \in Actor :
          BeginOperation(a) \/ Work(a) \/ Return(a) \/ Serve(a) \/ Interrupt(a)
  BY <1>3, BeginOperationStep, WorkStep, ReturnStep, ServeStep, InterruptStep
<1>4. CASE \E dead \in SUBSET Actor : Crash(dead)
  BY <1>4, CrashStep
<1> QED  BY <1>1, <1>2, <1>3, <1>4 DEF McpNext

LEMMA InvariantImplies ==
    IInv => /\ McpTypes /\ FilesKeepEveryChange /\ CallsMatchGrants
            /\ OnlyEntitledServersStart /\ OkMeansAnswered /\ ServersAreStopped
<1> SUFFICES ASSUME IInv
             PROVE  /\ McpTypes /\ FilesKeepEveryChange /\ CallsMatchGrants
                    /\ OnlyEntitledServersStart /\ OkMeansAnswered /\ ServersAreStopped
  OBVIOUS
<1>1. McpTypes /\ FilesKeepEveryChange
  BY DEF IInv, ChangesFit
<1>2. CallsMatchGrants
  BY DEF IInv, ActorFits, CallsMatchGrants, ServerFits, EntryFits, PipeFits
<1>3. OnlyEntitledServersStart
  BY DEF IInv, ActorFits, EntitledFits, OnlyEntitledServersStart
<1>4. OkMeansAnswered
  BY DEF IInv, ActorFits, ServerFits, OkMeansAnswered
<1>5. ServersAreStopped
  BY DEF IInv, ActorFits, ServerFits, ServersAreStopped
<1> QED  BY <1>1, <1>2, <1>3, <1>4, <1>5

\* By themselves, with any operations at any time, calls and commands keep
\* the invariant: mcp_tool, mcp_lite.py, the stdio client.
THEOREM McpToolsAreSafe ==
    McpSpec => [](/\ McpTypes /\ FilesKeepEveryChange /\ CallsMatchGrants
                  /\ OnlyEntitledServersStart /\ OkMeansAnswered /\ ServersAreStopped)
<1>1. McpInit => IInv
  BY InitHolds
<1>2. IInv /\ [McpNext]_mcpVars => IInv'
  BY NextStep
<1> QED  BY <1>1, <1>2, InvariantImplies, PTL DEF McpSpec
=============================================================================
