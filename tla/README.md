# AgentTrust Runtime: TLA+ models, checks and proofs

AgentTrust Runtime runs the tool calls of an agent under governance: every call is
evaluated against a policy, may be put to a person, passes a path sandbox, and is
recorded in a hash-linked evidence trace before and after it has an effect. A run can
pause for an approval, end with its process, and be resumed by another one from the
verified trace.

This directory specifies that behaviour, model-checks it with TLC and proves its main
safety properties with TLAPS. Paths below are relative to `src/src/agenttrust/`.

## 1. Inventory

| Component | State it keeps | Operations | What makes it correct |
|---|---|---|---|
| Lifecycle tables, `domain/lifecycle.py`, `domain/sessions.py` | two status tables; immutable `AgentSession`, `SessionToolCall` | `transition` | terminal statuses are final; a waiting call cannot be launched |
| Approval, `domain/approvals.py` | decision, expiry, argument digest | `approve`, `deny`, `expire` | decided once; not after the expiry |
| Governed session, `application/governed_session.py` | status, pending set, sequence, completion flag, operation lock | `start`, `execute`, `resume_tool_call`, `record_final_answer`, `close`, `fail`, `timeout` | memory and trace agree; calls are serialised; each call ends |
| Pipeline, `application/run_tool.py` | the locals of one call | `execute`, `execute_async` | evidence before effect; only authorised effects |
| Contexts, `interfaces/python_api.py` | entered or restored, pending dictionaries, run lock | enter, exit, `resume`, `async_resume`, `cancel`, `finalize_answer` | a paused run can be resumed once, by one process, as decided |
| Commands, `interfaces/cli.py` | none | `approvals approve/deny`, `run resume/cancel` | act on verified evidence under the run lock |
| Replay, `adapters/evidence/replay.py` | none (a fold over the trace) | `replay_events` | accepts exactly the legal histories |
| Evidence store, `adapters/evidence/jsonl_store.py` | `trace.jsonl`, `trace-head.json`, cached head | `append`, `verify_trace` | the chain stays valid over crashes and concurrent writers |
| Run lock, `adapters/evidence/run_lock.py` | file lock, depth | `acquire`, `release` | one holder; released once |
| State projection, `adapters/evidence/sqlite_state.py`, `projecting_recorder.py` | SQLite tables, `projection_events` | `apply_event`, `rebuild`, `rebuild_run` | complete tables are the replay of the trace; interleaving loses nothing |
| Write recovery, `adapters/evidence/recovery.py`, `application/restore_run.py` | backups, checkpoints | backup, bind, `restore_run` | everything recoverable is undone; only what the run found comes back; edits survive |
| MCP trust, `mcp_lite.py`, `adapters/mcp/runtime.py`, `adapters/tools/mcp.py` | `mcp-trust.json`, `mcp-consent.json` | trust, grant, revoke, mark stale, `mcp_tool` | only an approved command and tool is called; no change is lost |
| MCP client, `adapters/mcp/stdio.py` | a child process, request ids | launch, `request`, `close` | a result answers its request; requests and servers end |
| Permission engine, `permissions/*`, `domain/policy.py`, `tools/registry.py` | rules, hooks, tool specs | `evaluate`, `register_tool_spec`, hooks | deny wins, also against tools registered later; unknown tools are denied |
| Function governance and gateway, `governance.py`, `adapters/tools/gateway.py` | a dictionary of results per wrapper; handlers by name | `govern`, `govern_async`, `register`, `execute` | the function that runs is the one that was called and permitted; its value reaches its caller |
| Answer verification, signing, export, policy packs, tools, reports, integrations, benchmark | files | - | - |

How they interact. A context calls the governed session; the governed session calls the
pipeline, which calls back (`on_tool_call_status`) for every status change. All of them
append to the evidence store, which takes the run lock for one append; the projection
follows each append. `resume` holds the run lock until the context is left, so commands of
other processes wait; a session opened by `AgentTrustRuntime.session` does not, so those
commands fall between its appends. `restore` holds the run lock too; `state rebuild`, the
rebuild after an error of SQLite, and all changes of the MCP files take no lock. A program
reaches its session through wrapped functions or directly, from several threads or tasks;
the gateway picks the handler, and for `mcp_tool` that is a conversation with a child process.

What is hard. Several copies of one fact (session status, pending set, trace, projection)
change at different moments; an append can raise with its line written or not; a process
can die anywhere; asynchronous callers interleave at the one `await` of the pipeline;
operations outside the operation lock (`close`, `timeout`, `finalize_answer`) change the
session under a call that is suspended; approvals are decided and expire meanwhile. A
restore works on files that people and late threads write; an MCP server answers early, late,
twice, wrongly or never, or stops reading, while commands rewrite the files that allow it; a
cancelled asynchronous call leaves its thread behind.
`PROJECT.json` lists these hazards with their lines.

## 2. Modules

| Module | What it is |
|---|---|
| `Lifecycle` | the status tables |
| `RunTrace` | the evidence trace, as what `replay_events` reconstructs from it: one operator per event, `Replayable`, and `corrupt` for a trace that replay refuses |
| `GovernedSession` | the state machine: one run, its live session, its contexts, the pipeline, other processes, crashes |
| `ApprovalProtocol` | the abstract promise about each call |
| `GovernedSessionProofs` | lemmas about the events, type correctness, the inductive invariant, the safety theorems of every run |
| `GovernedSessionHistory` | the refinement of `ApprovalProtocol`; legal histories and settled runs |
| `EvidenceStore` | the files of the evidence store under several recorders, failing appends, and process and machine crashes |
| `AppendLog` | the abstract promise of the store: a log whose acknowledged part is permanent |
| `EvidenceStoreProofs` | invariant, refinement and theorems of the store |
| `StateTables` | the rows of `state.db` and what each event does to them |
| `StateProjection` | appends that project their event, rebuilds with and without the run lock, its hand-off in `async_resume`, SQLite errors, crashes |
| `StateProjectionProofs` | invariant and theorems of the projection |
| `WriteRecovery` | governed writes with backup and checkpoint; restores; edits, damaged backups, late writes, crashes |
| `WriteRecoveryProofs` | invariant and theorems of recovery |
| `McpTools` | calls of MCP tools, the stdio client and its server, and the commands that change the trust and consent files |
| `PolicyEngine` | operators: rules, hooks, argv patterns, precedence; and what a reader of a policy expects |
| `ToolDispatch` | governed functions, registration, sessions that take one call at a time, resumption, values on their way back |
| `ToolCalls` | `McpTools` and `ToolDispatch` together: `mcp_tool` is a handler of the gateway |
| `McpToolsProofs`, `ToolDispatchProofs`, `ToolCallsProofs` | an invariant of each part, the composition, the theorems |
| `MCWriteRecovery`, `MCStateProjection`, `MCToolCalls` | instances for TLC: symmetry, starting traces, programs |

The two levels meet at one append. `GovernedSession` uses what `EvidenceStore` provides: an
append returns with its event at the end of the trace, or raises with the event written or
not. `EvidenceStore` knows nothing of what an event says.

`StateProjection` takes an append as one step, as `EvidenceStore` provides it, and looks at
what follows. `ToolDispatch` takes the pipeline of a session, which `GovernedSession` has in
detail, as one step, and looks at what is around it. In `ToolCalls` a step of a
call of `mcp_tool` is a step of `McpTools`, its beginning and end are steps of both modules,
and everything else is a step of one of them.

`GovernedSession` EXTENDS `RunTrace`, which EXTENDS `Lifecycle`, and instantiates
`ApprovalProtocol` with a refinement mapping. `StateProjection` EXTENDS `StateTables`,
`ToolDispatch` EXTENDS `PolicyEngine`. Only an MC module declares a RECURSIVE operator, so all the others can
be proved about.

### State and code: the session

| Variable | Code |
|---|---|
| `trace` | `trace.jsonl`, folded: session and call statuses, intents, approvals, and the last permission, sandbox and answer verdicts |
| `session`, `pending`, `sequence`, `blocked` | `_session.status`, `_pending_tool_call_ids`, `_sequence`, `_completion_blocked` |
| `held` | the decisions in `_pending_approvals` of a restored context |
| `op` | the locals of `RunToolUseCase.execute` and `_active_tool_call` of the call that has the operation lock |
| `queued` | resumes that passed their checks and wait for the lock |
| `fin`, `leaving` | `_transition_session` begun outside the lock; `__exit__` begun |
| `context`, `mode` | which kind of context is entered, its approval mode |
| `expired` | approvals whose `expires_at` has passed: the clock |
| `ran` | how often each handler was invoked (history) |
| `faults` | a bound: raising appends and crashes so far |

A step is one evidence append with the assignments the code makes before it. `Append`
returns; `Raises` is an append that fails before or after its line is written; `Rejects` is
the projection refusing an event that is already in the trace. After a raise the pipeline
goes to `FailCall`, the `except BaseException` of `_execute`; the raising appends outside
that block (`tool_call_requested`, `approval_requested`) go to the caller without it, as in
the code. `RecordToolStatus` and `ReconcileSession` are the two appends of
`_record_tool_status`; where the code computes the new session status again from memory
that another task may have changed, so does the action.

`Evaluate` lets the policy give any effect and a hook any verdict. A resume evaluates the
call again: the policy snapshot and the hooks are those of the run, but custom tools are
registered by the caller, so any effect is possible and only the hook verdict is known.
This is why `EffectsAreAuthorised` is not obvious: what prevents a waiting call from being
launched on a changed verdict is the status table alone.

`SwitchSteps` says where other tasks may run: nowhere for a synchronous caller, at
`running` for an event loop (the only `await`), and everywhere, with `finishing`, for
threads. `LiveCancel` says whether `cancel` may come while a session is open.

### State and code: the evidence store

| Variable | Code |
|---|---|
| `created`, `file` | `trace.jsonl`: whether it exists, and what writes have left in it |
| `synced` | how much of it an `fsync` has covered |
| `head`, `heads` | `trace-head.json`, and every version it ever had |
| `lock` | the file lock of `RunLock` |
| `pc`, `base` | the step of a recorder's `append` and its local `head` |
| `cache` | `_head_cache` |
| `minted` | a bound: events written so far; also the source of fresh hashes |
| `acked` | number of the last event that `append` returned (history) |

`file` is a sequence of chunks: an event with its newline ("whole"), without it ("open"), or
part of one ("torn"). `LoadHead` has the four branches of `_load_verified_head`; `WriteEvent`
and `WriteNewline` are the write, in one system call or two; `Sync` is `fsync` and the new
cache, `Checkpoint` the write of `trace-head.json`. `Fail` lets an append raise at any step
and covers a refused trace and a refused payload. `Die` ends a process, and `MachineStops`
keeps of the file what was forced to the disk and any part of the rest, and any earlier
`trace-head.json`, because its rename is not followed by an `fsync` of the directory.

A size identifies how much of the file there is, since the file only grows between two
machine crashes. Modification times are left out, as if the clock never told two writes
apart; the code compares them as well, so it can only reject more heads. A hash identifies
its event and all events before it. A new file's directory entry is taken to be durable
after the file's `fsync`.

### State and code: recovery

| Variable | Code |
|---|---|
| `disk` | the files of the project |
| `call` | a governed write: its `BackupRecord`, its stage in `run_tool.py`, and what its `.bak` file holds now |
| `checkpoints` | the `write_recovery_checkpoint` events of the trace |
| `restore`, `lock` | a run of `agenttrust restore`, which holds the run lock |
| `raced` | history: the file or the backup was changed between the last check of a restore and the write that follows it |

A call goes through backup, write, result, second look (`bind_successful_write`) and
checkpoint; it may raise or die at any of these. `Abandon` is the cancelled task of an
asynchronous call, whose thread writes later and leaves no checkpoint. `StartRestore` picks
the files, `--force`, a preview, and whether the project has moved (the checkpoints then
point outside of it). `Check` and `Apply` are the two halves of one round of the loop:
comparison with the digest, and write; `Pass` is a record that is skipped. People edit files
and damage backups at any moment, between those halves too.

A digest is its content. A write that is cut short leaves `Partial`, which later unforced
restores report as changed. A preview compares every record with the file as it is, so it
reports a conflict for the older of two writes to one file which applying would not meet.
Damaged backups stay damaged.

### State and code: the projection

| Variable | Code |
|---|---|
| `trace` | the verified events, each with the rows it leads to |
| `tables`, `applied` | the run's rows and its `projection_events` |
| `lock` | the run lock |
| `proc` | for each process where it is, the event it has appended and is projecting, the length of the trace its rebuild has read |
| `gap`, `stale` | history since the last repair: a fault may have lost an event; a rebuild landed that had read a shorter trace |

`Deduplicate`, `Select` and `WriteRows` are the statements of `_apply_event`; `SqliteFails` is
the fallback of `ProjectingTraceRecorder`, a rebuild without the lock. `ReadTrace` and
`Rebuild` are the two halves of `rebuild`. `decide`, `cancel` and `resume` acquire the lock,
`Repair` the rows and append. `async_resume` does the first two in threads, and `CancelTask`
may come at any time.

A rebuild assigns the rows at once: that replaying a legal trace event by event is accepted
and gives those rows is lemma `FollowersAreAccepted`. A `rebuild` of all runs fails if any
trace is invalid (`RebuildFails`).

### State and code: tool calls

| Variable | Code |
|---|---|
| `config` | the command that the discovered configuration gives for a server |
| `file`, `torn` | `mcp-trust.json` and `mcp-consent.json`; whether they are no JSON at the moment |
| `task` | the locals of `mcp_tool` and `invoke_trusted_mcp_tool`, or of a command |
| `copy` | the records an actor has read to change them |
| `child` | the process of `McpStdioClient`, `_request_id`, the lines in its pipe; `deaf` if the reader thread is dead |
| `ledger`, `granted`, `overlapped` | history: what the changes add up to, what `mcp trust` approved, files that two actors were changing at once |
| `program` | the callers, their `govern` wrappers and direct calls, the policy, the approval mode |
| `registry` | `ToolGateway._tools`, `_async_tools`, `PermissionEngine._tool_specs` |
| `sequence`, `failed` | of the session that the program shares |
| `caller`, `results` | calls in flight, and the dictionaries in which wrappers find their values |
| `half`, `mixed` | history: a spec was refused after its handler was registered; two threads stored a value under one number |

A change of a file is `ReadToChange`, `Truncate` and `Fill`, with anything in between, since
`write_text` truncates and then writes. A server writes what it likes within its budget, the
answer to a request it has not got included; a line is the id it answers and what matters of
its content. `Malformed` is every line that makes the client raise, `NoAnswer` a time-out or
the end of the output. `ReaderDies` is a line that is not UTF-8: the thread that
`_read_response` starts for one line ends with an exception and puts nothing into its queue, and
`lines.get()` waits for it without a deadline. The step `send` is a `tools/call` that is too
long for the pipe: `_write` waits, also without one, until the server reads (`ReadsOn`) or
its input is closed (`SendFails`).

`Interrupt` is `KeyboardInterrupt` at any moment. `except Exception` in `__enter__` does not
catch it, and `close` has set `_process` to None before it terminates the process and waits, so
while a server is launched, in the handshake and inside `close` it may be left in any of
the states it goes through there (`LeftBehind`).

In an asynchronous session `mcp_tool` runs in a thread, which nothing cancels: a cancelled
call ends its session at once (`CancelMcp`), and its thread goes on with the server and the trust
file until `AbandonedEnds`. A governed function that is cancelled, or that raises what is no
`Exception`, is `FunctionAborts`: the session fails, and the thread of a synchronous function
may store its value later. A task cancelled while it waits for its turn is `CancelEntering`.

`Verdicts` joins the engine, the hooks and the approval mode as `finalize_permission` does.
`Resume` is a new process that registers one tool again, another, or none; `ResumedVerdict`
has what the status table adds: a waiting call that is now simply allowed cannot become
`executing`, and the session fails.

A glob is the set of what it matches, so the order of rules only decides which one is
reported, and this is left out. Calls of governed functions carry `args` and
`kwargs` only: rules with paths, commands or argument patterns never match them.

## 3. Runs

| Run | Configuration | Shows |
|---|---|---|
| `sequential` | 2 calls, 1 fault, all approval modes, both decisions; 677,700 states | type correctness; evidence before effect; the trace stays replay-legal; waiting means pending; completed runs are settled; only authorised effects; no effect after the end; refinement of `ApprovalProtocol` |
| `async` | 2 calls, 1 queued resume per call, no fault, fairness; 94,524 states | no call runs twice; only authorised effects; each call ends; each resume settles its call or the session has failed |
| `crash` | violation | a crash between `tool_call_requested` and `tool_intent` leaves a paused run that nobody can resume, decide or cancel |
| `expiry` | violation | a resume queued behind another call starts after its approval expired |
| `live_cancel` | violation | a handler is invoked after another process cancelled the run |
| `answer_gate` | violation | a refused answer does not block completion after pause and resume |
| `evidence` | 2 recorders, 4 events, checkpoint every 2, writes cut anywhere; 243,137 states | types; the trace is one chain; refinement of `AppendLog`; accepted heads are true; an event is added to a verified trace, or to one with two events on one line |
| `open_line` | violation | after a line without its newline the store appends to a trace that cannot be read |
| `recovery` | 1 file, 2 texts, 3 calls, an edit or a lost backup at any moment; 2,690,441 states | types; a restore that ends leaves nothing recoverable undone; it brings back only what calls found; unforced, it spares the edits it could see |
| `restore_window` | violation | an edit between a restore's check and its write is overwritten without `--force` |
| `projection` | a session, a decision, an async resume and a state rebuild, 3 more events, 2 faults; 356,193 states | types; complete tables are true; interleaving loses nothing; refusals have a cause; cancelled resumes let go of the lock |
| `tool_calls` | programs with 1 or 2 callers, policies, MCP calls beside commands, cancellations, interrupts; 373,407 states | types; trust files keep changes; only approved tools of entitled servers are called; results are answers; servers end; what runs is permitted; values reach their callers; calls end or come to one of two waits |

The violation runs check statements of the changelog, the documentation and a test against
what the code does; `PROJECT.json` quotes them under `findings`.

Bounds. Two calls are enough for a call that waits beside one that runs, for a pending set
that shrinks without becoming empty, and for numbering that goes on after a resume; no
action relates three calls. One fault puts a failing append or a crash at every place,
including during cancellation, with a recovery after it. One queued resume per call gives
two resumes of the same call and of different calls. The run ends after `MaxCalls` calls,
and every context may stop for good, so deadlock is not checked.

Two recorders are enough for a cache made stale by another process, and four events with a
checkpoint at the first and at every second one for a checkpoint that is older than a lost
and rewritten end of the trace. The code's interval is 64; only whether a checkpoint is
current matters, and the theorems hold for every interval. An append can always raise, so
deadlock is checked there.

`recovery`: one file, because a round of a restore touches one, and the theorems hold for
any; two texts, so that one call may write what another wrote before; three calls, so that one
is between two others, and may be abandoned and land after them; one edit or lost backup falls
between any two steps, the check and the write of a restore included. `restore_window` needs one
call and one edit.

`projection`: the run starts from a requested call; three more events are a request for
approval, its decision and its consequence. Two faults give a lost event and a crash during
its repair. One rebuild without the lock can land late.

`tool_calls`: the product of everything is too large, so `MCPrograms` is a union of kinds of
programs: every argument pattern of up to three tokens against every list of up to two words;
pairs of rules, with or without a hook, against all kinds of tools; two governed functions,
shared or not, sync or async, of one name or two, with two callers; MCP calls. The last have
budgets (`MCAllowance`): one call with a server that writes two lines too many (one that it was
not asked for, is no message, or is not UTF-8) or exits, and an interrupt or death; two
operations side by side with an edit of the configuration, or with a fault. Cancellations have no
budget: each ends its session. One server with one
command that may be withdrawn, and two fingerprints, are enough for every kind of drift; two actors are needed to
overlap, and no action relates three.

Fairness. `FairSpec` assumes weak fairness of the pipeline, of a transition begun outside
the lock and of leaving a context: each is straight-line code of one process that the
scheduler resumes, and a handler is assumed to return. Nothing is assumed of callers,
approvers, the clock or a restart, so nothing says that a waiting run ever ends.

In `projection`, `Resuming` is fair: threads run on, and `acquire` gives up after ten seconds.
In `tool_calls`, `Progress` is fair for each actor: the client waits ten seconds for a line and
one for the end of the process. Two of its waits have no deadline, for a dead reader and for
a server that does not read (`WaitsForever`), and nothing is fair about the server, so
`CallsEnd` says that a call ends or comes to one of these two. The deadline is per line, so
the bound on lines that answer nothing is needed: a server that never stops writing them keeps
a request waiting.

The liveness run has no fault: an append that raises ends the call by `FailCall` and would
only shorten the behaviours, and a crash removes the call.

### Properties and what would break them

- `EffectsAreRecorded`: needs the append of `executing` before the handler on every path
  and an error there to stop the call.
- `EffectsAreAuthorised`: over pause, decision, new process and re-evaluation.
- `EffectsAreUnique`: two queued resumes of one call, the second with a stale copy of it.
- `TraceStaysLegal`: a restored session must number calls after all replayed ones, and a
  failed append must not be followed by one that assumes it. It is stated for one call at a
  time. With queued resumes a stale copy is transitioned and the trace does become illegal
  (the refused event is written before the projection raises); `EffectsAreUnique` still holds.
- `WaitingMeansPending`, `CompletedRunsAreSettled`: the reconciliation over several calls.
  Both are stated for one call at a time: `close` takes no operation lock, so leaving a context
  while a handler is awaited completes the session around a call that is still executing.
- `NoEffectAfterEnd`: provided that nobody cancels a session while it is open.
- `KeepsPromise`: the mapping reads a call's phase off the trace and `ran`; a cancelled run
  moves all its calls in one step.
- `CallsReturn`, `ResumesSettle`: the session may be closed, failed or timed out under the call.

- `ChainIsValid`: two recorders with one file, and a head remembered from before a crash.
- `AcceptedHeadsAreTrue`: the constant-time check of `_head_matches_trace` against full
  verification; a stale checkpoint that names the right size must be told by its last hash.
- `OnlyJoinedLinesPass`: a torn end must stop every later append, on each of the four branches.
  Where a line is cut just before its newline the next event joins that line
  (`LinesAreJoined`), and its author then trusts the head it cached. Both properties except
  a trace in that state and no other; run `open_line` shows the unrestricted `AppendsFailClosed`
  to be false.
- `KeepsAcknowledged`: needs the `fsync` before the return, and that nothing ever rewrites
  the file. It speaks of events in the file; after a joined line they cannot be read.

- `NothingGovernedRemains`: several writes to one file, equal texts, edits between them, an
  earlier restore that stopped half way. Writes without a checkpoint (the process died before
  it, or the task was cancelled) are excepted: no restore finds them.
- `RestoredContentIsGenuine`, `EditsSurvive`: the digest of the backup and of the file, and
  that both checks are made for the same record. Each excepts a write before which something
  changed behind its check (`raced`); run `restore_window` shows what happens then.
- `CompleteTablesAreTrue`, `TablesFollowTheTrace`: an event projected twice, out of order, or
  half, by the session, a decision and a rebuild. Both except a rebuild that had read a
  shorter trace (`stale`): with `state rebuild`, or the fallback, the tables then claim events
  they have lost.
- `RefusedOnlyWithCause`: a `ValueError` of the projection fails a governed call, so it must
  not come from interleaving alone.
- `CancelledResumesLetGo`: the lock is acquired in one thread and handed over to another.
- `FilesKeepEveryChange`: a call marks its server's trust as stale beside commands. Where two actors are
  changing a file at once a change is lost, a revocation too; nothing locks the files.
- `CallsMatchGrants`: holds in spite of lost updates, because a call compares what this very
  server lists with a record whose command and fingerprint were written together.
- `OnlyEntitledServersStart`: between the checks and the start, a revocation may come.
- `OkMeansAnswered`: early, late and repeated answers of other requests.
- `ServersAreStopped`: every way `mcp_tool` or a command ends, in the thread of a cancelled call
  too. It excepts `KeyboardInterrupt` while a server is launched, in the handshake and inside
  `close`, after which the server may be left running. A cancelled asynchronous call itself ends
  before its thread has closed the server.
- `RunsArePermitted`: against a declarative reading of the policy (`Forbidden`,
  `NeedsConsent`), over registration and resumption. The last conjunct is the one that only
  the status table protects: `finalize_permission` looks at the person's answer only if the policy still
  asks. Once a handler was registered whose spec was refused (`half`), the function runs under
  the effect of the other spec.
- `ValuesReachTheirCallers`: excepts two threads in one `govern(runtime=...)` wrapper
  (`mixed`): both calls are `call_001` of their sessions, and values are swapped or lost.
- `CallsEnd`: whatever the server does, but for the two waits without a deadline. The client
  does hang in them, and its governed call with it.

Every property has a mutant: an operator marked "Wrong" before the definition it replaces.

## 4. Proofs

Every safety property, action property and refinement that a passing run checks is a theorem; what
is left to TLC is liveness and the disagreements of section 3. Only theorems about the session
have a hypothesis.

For the session, for all values of the constants under `BoundsAssumption` and `ChoiceAssumption`: any number
of calls, faults and queued resumes, any scheduling of tasks, any set of modes, with or
without live cancellation, except where a hypothesis is named. (`CallIds = 1..MaxCalls` is
how the code numbers calls.)

| Theorem | Statement | Hypothesis |
|---|---|---|
| `TypeCorrect` | `Spec => []TypeOK` | |
| `EffectsRecorded` | `Spec => []EffectsAreRecorded` | |
| `EffectsUnique` | `Spec => []EffectsAreUnique` | |
| `EffectsAuthorised` | `Spec => EffectsAreAuthorised` | |
| `PromiseIsKept` | `Spec => Promise!Spec` (`KeepsPromise`) | `~LiveCancel` |
| `NoEffectOnceEnded` | `Spec => NoEffectAfterEnd` | `Coroutines` |
| `HistoriesAreLegal` | `Spec => []TraceStaysLegal` | `OneByOne` |
| `WaitingIsPending` | `Spec => []WaitingMeansPending` | `Sequential` |
| `CompletedIsSettled` | `Spec => []CompletedRunsAreSettled` | `Sequential` |

`~LiveCancel`: `approvals cancel` is not used while a process has the session open.
`Coroutines`: in addition, other tasks run only at the `await` of the handler and between
calls, as tasks of one event loop do; any number of resumes may queue for the operation lock.
`OneByOne`: in addition, none does while other tasks may run. `Sequential`: one caller that
waits for each operation, as in synchronous code. Faults and crashes are arbitrary under all
four.

For the store, under `StoreAssumption`, for any number of recorders, events and crashes and
any checkpoint interval:

| Theorem | Statement |
|---|---|
| `StoreTypes` | `Spec => []TypeOK` |
| `ChainStaysValid` | `Spec => []ChainIsValid` |
| `AcknowledgedIsKept` | `Spec => Log!Spec` (`KeepsAcknowledged`) |
| `HeadsAreTrue` | `Spec => []AcceptedHeadsAreTrue` |
| `AppendsAreGuarded` | `Spec => OnlyJoinedLinesPass` |

For recovery, under `RecoveryAssumption`, for any files, texts, calls, edits and restores:

| Theorem | Statement |
|---|---|
| `RecoveryTypes` | `Spec => []TypeOK` |
| `RestoresAreComplete` | `Spec => []NothingGovernedRemains` |
| `RestoresAreGenuine` | `Spec => RestoredContentIsGenuine` |
| `EditsSurviveRestores` | `Spec => EditsSurvive` |

For the projection, under `ProjectionAssumption`, for any processes, events and faults (one live
session, as a run has):

| Theorem | Statement |
|---|---|
| `ProjectionTypes` | `Spec => []TypeOK` |
| `CompleteTablesHold` | `Spec => []CompleteTablesAreTrue` |
| `NothingIsLost` | `Spec => []TablesFollowTheTrace` |
| `RefusalsHaveCause` | `Spec => RefusedOnlyWithCause` |

For tool calls, under the assumptions of `McpTools`, `ToolDispatch` and `ToolCalls`, for any
actors, servers, programs and budgets:

| Theorem | Statement |
|---|---|
| `CallsAreTyped` | `Spec => []TypeOK` |
| `ChangesAreKept` | `Spec => []FilesKeepEveryChange` |
| `CallsAreGranted` | `Spec => []CallsMatchGrants` |
| `StartsAreEntitled` | `Spec => []OnlyEntitledServersStart` |
| `ResultsAreAnswers` | `Spec => []OkMeansAnswered` |
| `ServersEnd` | `Spec => []ServersAreStopped` |
| `RunsStayPermitted` | `Spec => []RunsArePermitted` |
| `PatternsAreRead` | `ArgvPatternMatches(argv, pattern) <=> ReadsAs(argv, pattern)`, for tuples of any length |
| `ValuesAreOwn` | `Spec => []ValuesReachTheirCallers` |

Of the session: `TypeOK` is not inductive: a status change updates the row `op.call` of the trace, and
`Permit` has a value only for an evaluated effect, so `LocalsAreSet` adds that those locals
have been assigned at the steps that read them. That the sequence number of a resumed
session is a number of a call rests on a largest element of a nonempty set of calls
(`LargestExists`, by the least-number principle of the library).

The safety properties share one inductive invariant `IInv`, with these parts:

- `CreationIsFirst`: nothing precedes `session_created`;
- `NumbersAreFresh`: while a context is live, no call above `sequence` is in the trace, so
  that the next request is a new row; a call never requested has no approval;
- `DecisionsAreCurrent`: what a restored context holds, and what a queued resume relies on,
  is what the trace says, because a decision never changes;
- `OperationIsBound`: a new call has no approval yet; a resumed one carries the recorded
  decision, is never asked again, and moves towards execution only if it was approved;
- `GrantIsRecorded`: between the permission decision and the handler the trace holds the
  grant, then the sandbox verdict, and at the handler the status `executing`, with `ran` 0.

`EffectsAreUnique` needs the last part: a second resume of the same call carries a stale
`waiting_approval`, passes every check in memory, and is stopped where the trace refuses
its `approved` event and the append raises. `EffectsAreRecorded` holds because `executing`
leads only to `succeeded` and `failed`. `EffectsAreAuthorised` is read off `IInv` at
`InvokeHandler`, the only step that changes `ran`. `IInv` was model-checked before it was
proved, with every step a switch step, live cancellation, one fault and one queued resume
(5.0 million states).

`PromiseIsKept` rests on `IInv` and `StatusInv`: the status that a new call has in memory is the one in the
trace (`StatusIsCurrent`), at each step it is the one that the step transitions from
(`StatusFits`), and an approval is undecided only while its call waits
(`PendingCallsWait`). With them every step moves the rows of the trace along the tables
(`RowsFollowTheTable`), a waiting call being approved only on an approval, and such a
step is a step of `ApprovalProtocol` or a stutter (`StepKeepsPromise`). It needs no
sequential caller: a stale copy held by a second resume can only be written where the
projection refuses it. A live cancellation denies under a running call, which no phase
of the promise allows.

`NoEffectOnceEnded` rests on a third invariant, `TaskInv`. What takes no lock goes on only beside
a running handler (`OthersWait`), and the session in memory is open until the handler is invoked
(`OpenBeforeHandler`). So the question is when the trace says that the session ended and memory
does not. The operations of the process itself end the session in memory before they append;
but a process that left the context may still have resumes in its queue, and then anybody may
cancel the run. `EndIsKnown` says that this is the only case, and that the
calls of those resumes are over by then: a queued resume is about a call that waits, is being
resumed, or is over (`QueuedCallsSettle`, which needs the same of decisions held by a restored
context, `HeldCallsWait`), and a cancellation denies what waits before it ends the session. Such a resume copies a
stale `waiting_approval`, passes every check in memory, and is stopped because the trace refuses its
next status; every later status in memory is the one in the trace (`RecordedIsCurrent`). With
threads that are preempted anywhere `TaskInv` is false.

The histories rest on a fourth, `SerialInv`: the session in memory is the one in the
trace as long as it is open, and after an append that raised is at least open in both
(`SessionIsCurrent`); the same of the call in progress, a resumed one included
(`CallIsCurrent`). So memory never transitions from a status that the trace does not have.
With a queued resume `CallIsCurrent` is false, and so is the theorem (section 3).

The settled runs rest on a fifth, `SettledInv`: the pending set is the set of waiting calls and
the session waits exactly when there are some, or is about to be reconciled
(`PendingIsWaiting`); a call between its request and its end is the one in progress, unless
the session failed on it (`UnsettledIsInProgress`); nothing is in progress outside an open
session (`MemoryIsOpen`). With coroutines the last one fails, since leaving a context while a handler
is awaited closes the session around it, and so do the theorems.

These invariants were model-checked before they were proved: all for a sequential caller
with one fault (321,445 states), `StatusInv` and `SerialInv` for coroutines (514,888), `TaskInv` for
coroutines with one fault and one queued resume (591,035) and with two of each and a further
approval mode (6.6 million), `StatusInv` with `KeepsPromise` for tasks that are preempted anywhere
(2.1 million).

Of the store: the invariant `IInv` adds that whoever is in an append holds the lock; that
only the last chunk can be torn; that a cached head was true of the file at its length
(`Describes`), which appending cannot change; that between loading the head and returning the
recorder's `base` is the end of the file (`EndIsOurs`); and that what is acknowledged is on
the disk. Nothing is assumed of the versions of `trace-head.json` beyond their type: a stored
head that matches size, last hash and last number describes the file because the chain is
numbered. The refinement maps the file to the hashes of its events that are not torn; a crash
is `Lose` because the acknowledged part is durable.

Of recovery: a text in a file was written there by a call, and what a call found there by an
earlier one (`TextsComeFromCalls`); checkpoints are in the order of the calls and true of them;
so with the first `left` checkpoints still to be undone, a text in a wanted file is what one of
these says was written (`UndoneFromTheEnd`), and none is left at the end. The other two
theorems rest on what the check saw still being so at the write unless something raced with it
(`CheckHolds`).

Of the projection: who repairs holds the lock; an event in hand that is not in the tables is
the last of the trace, because whoever appends another has repaired first, or is the same
session; behind a repair nobody else holds such an event.

Of tool calls: `McpTools` and `ToolDispatch` have an invariant each. That of `McpTools` (`IInv`) says of
each actor that its server runs only in its part of the operation and has been asked for what
is waited for (`ServerFits`), that its record is one that was approved (`EntryFits`), that
what waits in the pipe the server has written, and a tool is called as the server listed it
(`PipeFits`), and that what was checked was so at some moment (`EntitledFits`); and of the
files that who alone changes one has read what its changes add up to (`ChangesFit`). That of
`ToolDispatch` (`DInv`) says that registries hold one handler and one spec for each tool, that
a tool that runs is permitted under the default it was evaluated with, which is the declared
one unless `half`, that calls of a session have different numbers, and that a stored value
waits for the caller of its wrapper. Lemma `StepsOfBoth` shows that each step of `ToolCalls` is
a step of `McpTools` or leaves its variables alone, and likewise for `ToolDispatch`, so both invariants
hold of the composition; `Linked` adds that a call that runs `mcp_tool` has its thread in it, and that
`mcp_tool` without a call is left over from a cancellation, which has ended the session: so
no other call of it begins until the program has died, and the two ends of a call meet.

Of policies: `RunsArePermitted` is stated with `ReadsAs`, the cutting of the arguments into one piece for each
token, and the code searches recursively. `PatternsAreRead` shows that the two agree without an
induction rule: `ReadFrom`, what can be cut from each token on, solves the equation that
defines the recursive function (`ReadingIsMatching`), and the equation has one solution, since two would differ
last at some token (`MatchingIsUnique`, by the least-number principle).

Only model-checked: liveness (`CallsReturn`, `ResumesSettle`, `CancelledResumesLetGo`, `CallsEnd`).
Liveness under fairness and ENABLED are beyond this prover, as are induction over recursively
defined data and RECURSIVE operators.

## 5. Abstractions

- A call is its number; names, arguments, digests, identities and timestamps are left out.
  Digest and identity checks therefore always succeed; tampering is not modelled.
- Events without influence on later behaviour (`run_started`, `policy_snapshot`,
  `hook_decision`, `approval_prompted`, `tool_result`, `fact_mapped`, `run_completed`) are
  appends that leave `trace` as it is, or are left out where nothing can follow.
- One session object at a time: after a resume the earlier object is gone. A second live
  object of the same run is not modelled.
- One transition outside the operation lock at a time (`fin`), and a started `__exit__` is
  not entered twice.
- A decision by `approvals approve|deny` is one step: it holds the run lock. A cancellation
  holds it too, but its appends may stop at any prefix.
- In `GovernedSession` the projection refuses what the trace makes illegal; its own loss or
  lag is in `StateProjection`, where only legal events are appended.
- In `GovernedSession`, creating a backup before a write, and binding it afterwards, are faults
  of the neighbouring append when they raise.
- `WriteRecovery`: no person's edit happens to produce what a call wrote.
- `StateProjection`: one live session; a second cancellation of `async_resume`, while the first
  waits for its thread, is not modelled (it leaves the lock held).
- `McpTools`: one tool of each server is looked at. A hash is what was hashed. `mcp_tool` reads
  the record twice in a row, here once. A failing write of
  a short request is the end of its output.
  Servers that survive the death of their client are not followed. A torn file stays so until
  it is written again. Failing writes of the trust files are deaths.
- `ToolDispatch`: the sandbox's verdict is in `GovernedSession`. Pending calls of the shared
  session are left alone, as the program may; only those of wrappers with sessions of their own are resumed.

## 6. Plan

Done: the session, the evidence store, recovery, the projection with the run lock's
hand-off, MCP tools, policies, governed functions and their composition. Left:

1. `Enter` of `ToolDispatch` as an abstraction of `GovernedSession`, shown by refinement.
2. The verifier's checks of an answer against facts, as operators.

## 7. Not modelled, and why

Answer verification is text matching and its verdict an input. Signing and export transform
a finished trace. Policy packs and YAML loading are parsing. The concrete tools are I/O
behind `InvokeHandler`. Reports, fixtures, live runs, integrations and the benchmark drive
or print what is modelled. The approval journal is a copy nobody reads.
`AgentTrustRuntime.execute` runs the same pipeline without a session. Discovery, inspection and
risk levels of MCP configurations read and print.

## 8. Running

```
tlc -workers 2 -config SessionSequential.cfg GovernedSession
tlc -workers 2 -config EvidenceStore.cfg EvidenceStore
tlc -workers 2 -config Recovery.cfg MCWriteRecovery
tlc -workers 2 -config Projection.cfg MCStateProjection
tlc -workers 2 -config ToolCalls.cfg MCToolCalls
tlapm GovernedSessionProofs.tla
tlapm GovernedSessionHistory.tla
```

The other runs, and the modules that hold proofs, are called the same way.
