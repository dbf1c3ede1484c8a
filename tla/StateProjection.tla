-------------------------- MODULE StateProjection --------------------------
(***************************************************************************)
(* state.db beside one run's trace: the recorder that appends an event and *)
(* then projects it (ProjectingTraceRecorder), the rebuilds, and the       *)
(* processes that use them. A live session holds the run lock only while   *)
(* it appends. Decide, cancel and resume hold it from their replay on,     *)
(* repair the run's rows and then append. `agenttrust state rebuild` takes *)
(* no lock, and nor does the rebuild a recorder falls back on when SQLite  *)
(* fails.                                                                  *)
(*                                                                         *)
(* An event is its number in the trace. The appends themselves are atomic  *)
(* (EvidenceStore), and only events that may follow are appended (a live   *)
(* session that is cancelled under its feet is GovernedSession's subject). *)
(***************************************************************************)
EXTENDS StateTables, Integers, Sequences, FiniteSets

CONSTANTS
    Live,           \* the live session: a run has one at most
    Locked,         \* processes that decide, cancel or resume
    AsyncResumer,   \* those of them that are tasks in async_resume
    Rebuilder,      \* processes running `agenttrust state rebuild`
    Nobody,         \* the run lock is free
    Starts,         \* traces the run may have when we begin to look
    Appended,       \* bound: the events that are appended
    MaxEvents,      \* bound: length of the trace
    MaxFaults,      \* bound: crashes and failures of SQLite
    MaxRebuilds     \* bound: runs of `agenttrust state rebuild`

Process == Live \union Locked \union Rebuilder

Entry == [event : Event, tables : Tables]

\* The rows that the first n events of a trace lead to.
Rows(t, n) == IF n = 0 THEN NoRows ELSE t[n].tables
After(t) == Rows(t, Len(t))

\* Every event may follow, and is recorded with the rows that it leads to.
WellFormed(t) ==
    \A k \in DOMAIN t :
        /\ MayFollow(Rows(t, k - 1), t[k].event)
        /\ t[k].tables = Projected(Rows(t, k - 1), t[k].event)

ASSUME ProjectionAssumption ==
    /\ Live \intersect Locked = {}
    /\ (Live \union Locked) \intersect Rebuilder = {}
    /\ AsyncResumer \subseteq Locked
    /\ \A p, q \in Live : p = q
    /\ Nobody \notin Process
    /\ Starts \subseteq Seq(Entry)
    /\ \A t \in Starts : WellFormed(t)
    /\ Appended \subseteq Event
    /\ MaxEvents \in Nat /\ MaxFaults \in Nat /\ MaxRebuilds \in Nat

\* A process: event is the number of the event it has appended and is
\* projecting, seen the length of the trace its rebuild has read.
Steps ==
    {"idle", "gone",
     "acquiring", "locked", "preparing",         \* until the lock's holder has repaired the rows
     "serving", "raised",                        \* about to append; an append has raised
     "dedup", "check", "write",                  \* projecting an event
     "fallback", "rebuilding"}                   \* a rebuild without regard to the lock
Proc == [step : Steps, event : Nat, seen : Nat, cancelled : BOOLEAN]

VARIABLES
    trace,          \* the verified events, each with the rows it leads to
    tables,         \* the run's rows
    applied,        \* the run's events in projection_events
    lock,           \* holder of the run lock
    proc,           \* the processes
    faults, rebuilds,
    gap,            \* since the last repair: a fault may have lost an event
    stale           \* since the last repair: a rebuild landed that had read a shorter trace

vars == <<trace, tables, applied, lock, proc, faults, rebuilds, gap, stale>>
evidence == <<trace, tables, applied>>
history == <<faults, rebuilds, gap, stale>>

TypeOK ==
    /\ trace \in Seq(Entry)
    /\ tables \in Tables
    /\ applied \subseteq DOMAIN trace
    /\ lock \in Process \union {Nobody}
    /\ proc \in [Process -> Proc]
    /\ faults \in 0 .. MaxFaults /\ rebuilds \in 0 .. MaxRebuilds
    /\ gap \in BOOLEAN /\ stale \in BOOLEAN

At(step) == [step |-> step, event |-> 0, seen |-> 0, cancelled |-> FALSE]

\* We begin to look with rows that are up to date.
Init ==
    /\ trace \in Starts
    /\ tables = After(trace)
    /\ applied = DOMAIN trace
    /\ lock = Nobody
    /\ proc = [p \in Process |-> At(IF p \in Live THEN "serving" ELSE "idle")]
    /\ faults = 0 /\ rebuilds = 0
    /\ gap = FALSE /\ stale = FALSE

Goto(p, step) == proc' = [proc EXCEPT ![p].step = step]

\* The event is no longer in the hands of p.
Drop(p, step) == proc' = [proc EXCEPT ![p].step = step, ![p].event = 0, ![p].seen = 0]

\* p ends, and with it its hold on the lock.
End(p) ==
    /\ proc' = [proc EXCEPT ![p] = At(IF p \in Live THEN "gone" ELSE "idle")]
    /\ lock' = IF lock = p THEN Nobody ELSE lock

Fault ==
    /\ faults < MaxFaults
    /\ faults' = faults + 1
    /\ gap' = TRUE
    /\ UNCHANGED <<rebuilds, stale>>

----------------------------------------------------------------------------
(* ProjectingTraceRecorder.append *)

\* TraceRecorder.append, which takes the lock unless the process has it.
AppendEvent(p) ==
    /\ proc[p].step = "serving" /\ ~proc[p].cancelled
    /\ Len(trace) < MaxEvents
    /\ lock = IF p \in Live THEN Nobody ELSE p
    /\ \E e \in Appended :
          /\ MayFollow(After(trace), e)
          /\ trace' = Append(trace, [event |-> e, tables |-> Projected(After(trace), e)])
    /\ proc' = [proc EXCEPT ![p].step = "dedup", ![p].event = Len(trace) + 1]
    /\ UNCHANGED <<tables, applied, lock, history>>

InHand(p) == trace[proc[p].event].event

\* _apply_event leaves an event alone that is in projection_events.
Deduplicate(p) ==
    /\ proc[p].step = "dedup"
    /\ IF proc[p].event \in applied THEN Drop(p, "serving") ELSE Goto(p, "check")
    /\ UNCHANGED <<evidence, lock, history>>

\* The handler reads the row; its ValueError reaches the caller.
Select(p) ==
    /\ proc[p].step = "check"
    /\ IF Readable(tables, InHand(p)) THEN Goto(p, "write") ELSE Drop(p, "raised")
    /\ UNCHANGED <<evidence, lock, history>>

\* Wrong: the handler's write is committed before the event is recorded.
WriteRowsTwice(p) ==
    /\ proc[p].step = "write"
    /\ Fits(tables, InHand(p))
    /\ tables' = Projected(tables, InHand(p))
    /\ applied' = applied \union {proc[p].event}
    /\ Drop(p, "serving")
    /\ UNCHANGED <<trace, lock, history>>

\* One transaction writes the row and records the event.
WriteRows(p) ==
    /\ proc[p].step = "write"
    /\ Fits(tables, InHand(p)) /\ proc[p].event \notin applied
    /\ tables' = Projected(tables, InHand(p))
    /\ applied' = applied \union {proc[p].event}
    /\ Drop(p, "serving")
    /\ UNCHANGED <<trace, lock, history>>

\* A key that is there already, or refers to nothing, is an IntegrityError;
\* an UPDATE of no row is a ValueError.
WriteFails(p) ==
    /\ proc[p].step = "write"
    /\ \/ /\ Fits(tables, InHand(p)) => proc[p].event \in applied
          /\ IsInsert(InHand(p)) \/ Fits(tables, InHand(p))
          /\ Goto(p, "fallback")
       \/ /\ ~IsInsert(InHand(p)) /\ ~Fits(tables, InHand(p))
          /\ Drop(p, "raised")
    /\ UNCHANGED <<evidence, lock, history>>

\* Wrong: the error is passed over.
SqliteFailsQuietly(p) ==
    /\ proc[p].step \in {"dedup", "check", "write"}
    /\ faults < MaxFaults /\ faults' = faults + 1
    /\ Drop(p, "serving")
    /\ UNCHANGED <<evidence, lock, rebuilds, gap, stale>>

\* The database is locked, full or damaged: the recorder rebuilds the run.
SqliteFails(p) ==
    /\ proc[p].step \in {"dedup", "check", "write"}
    /\ faults < MaxFaults /\ faults' = faults + 1
    /\ Goto(p, "fallback")
    /\ UNCHANGED <<evidence, lock, rebuilds, gap, stale>>

----------------------------------------------------------------------------
(* Rebuilds *)

\* rebuild and rebuild_run read and verify the trace first...
ReadTrace(p) ==
    /\ \/ proc[p].step = "fallback" /\ UNCHANGED rebuilds
       \/ p \in Rebuilder /\ proc[p].step = "idle"
          /\ rebuilds < MaxRebuilds /\ rebuilds' = rebuilds + 1
    /\ proc' = [proc EXCEPT ![p].step = "rebuilding", ![p].seen = Len(trace)]
    /\ UNCHANGED <<evidence, lock, faults, gap, stale>>

\* Wrong: the rows are deleted, and no event is projected again because
\* projection_events still has it.
RebuiltFromNothing(n) ==
    /\ tables' = NoRows
    /\ UNCHANGED <<trace, applied>>

\* ...and replace the rows in a transaction afterwards.
Rebuilt(n) ==
    /\ tables' = Rows(trace, n)
    /\ applied' = 1 .. n
    /\ UNCHANGED trace

Rebuild(p) ==
    /\ proc[p].step = "rebuilding"
    /\ Rebuilt(proc[p].seen)
    /\ stale' = (stale \/ proc[p].seen < Len(trace))
    /\ IF p \in Rebuilder THEN End(p) ELSE Drop(p, "serving") /\ UNCHANGED lock
    /\ UNCHANGED <<faults, rebuilds, gap>>

\* The rebuild fails. The recorder swallows errors of SQLite and the file
\* system; those of the trace (read while another process appends to it)
\* reach the caller.
RebuildFails(p) ==
    /\ proc[p].step \in {"fallback", "rebuilding"}
    /\ IF p \in Rebuilder
         THEN End(p) /\ UNCHANGED history
         ELSE Fault /\ UNCHANGED lock /\ \E step \in {"serving", "raised"} : Drop(p, step)
    /\ UNCHANGED evidence

----------------------------------------------------------------------------
(* Decide, cancel and resume *)

Begin(p) ==
    /\ p \in Locked /\ proc[p].step = "idle"
    /\ Goto(p, "acquiring")
    /\ UNCHANGED <<evidence, lock, history>>

Acquire(p) ==
    /\ proc[p].step = "acquiring"
    /\ lock = Nobody
    /\ lock' = p
    /\ Goto(p, "locked")
    /\ UNCHANGED <<evidence, history>>

\* RunLock.acquire raises TimeoutError.
TimeOut(p) ==
    /\ proc[p].step = "acquiring"
    /\ lock # Nobody
    /\ End(p)
    /\ UNCHANGED <<evidence, history>>

\* The task of async_resume is cancelled. The threads that acquire the lock
\* and prepare the session go on.
CancelTask(p) ==
    /\ p \in AsyncResumer /\ ~proc[p].cancelled
    /\ proc[p].step \in {"acquiring", "locked", "preparing"}
    /\ proc' = [proc EXCEPT ![p].cancelled = TRUE]
    /\ UNCHANGED <<evidence, lock, history>>

Prepare(p) ==
    /\ proc[p].step = "locked" /\ ~proc[p].cancelled
    /\ Goto(p, "preparing")
    /\ UNCHANGED <<evidence, lock, history>>

\* rebuild_run under the lock: nobody appends meanwhile.
Repair(p) ==
    /\ proc[p].step = "preparing"
    /\ Rebuilt(Len(trace))
    /\ gap' = FALSE /\ stale' = FALSE
    /\ Goto(p, "serving")
    /\ UNCHANGED <<lock, faults, rebuilds>>

\* The run is in no state for it, its trace does not verify, SQLite fails.
Refuse(p) ==
    /\ proc[p].step = "preparing"
    /\ End(p)
    /\ UNCHANGED <<evidence, history>>

\* Wrong: the lock is given back only after a session was prepared.
LetGoOfPrepared(p) ==
    /\ proc[p].cancelled
    /\ proc[p].step \in {"locked", "serving"}
    /\ proc' = [proc EXCEPT ![p] = At("idle")]
    /\ lock' = IF proc[p].step = "serving" THEN Nobody ELSE lock
    /\ UNCHANGED <<evidence, history>>

\* async_resume waits for its thread and releases what it acquired.
LetGo(p) ==
    /\ proc[p].cancelled
    /\ proc[p].step \in {"locked", "serving"}
    /\ End(p)
    /\ UNCHANGED <<evidence, history>>

\* An operation or a session is over, by itself or by an exception...
Finish(p) ==
    /\ proc[p].step \in {"serving", "raised"} /\ ~proc[p].cancelled
    /\ End(p)
    /\ UNCHANGED <<evidence, history>>

\* ...or goes on after one.
GoOn(p) ==
    /\ proc[p].step = "raised"
    /\ Goto(p, "serving")
    /\ UNCHANGED <<evidence, lock, history>>

Crash(p) ==
    /\ proc[p].step \notin {"idle", "gone"}
    /\ Fault
    /\ End(p)
    /\ UNCHANGED evidence

Projecting(p) == AppendEvent(p) \/ Deduplicate(p) \/ Select(p) \/ WriteRows(p) \/ WriteFails(p) \/ SqliteFails(p)
Rebuilding(p) == ReadTrace(p) \/ Rebuild(p) \/ RebuildFails(p)
Resuming(p) == Acquire(p) \/ TimeOut(p) \/ Prepare(p) \/ Repair(p) \/ Refuse(p) \/ LetGo(p)
Ending(p) == Finish(p) \/ GoOn(p) \/ Crash(p)

Next ==
    \E p \in Process :
        Projecting(p) \/ Rebuilding(p) \/ Begin(p) \/ CancelTask(p) \/ Resuming(p) \/ Ending(p)

\* The threads of async_resume run, and acquire waits ten seconds at most.
Spec == Init /\ [][Next]_vars /\ \A p \in AsyncResumer : WF_vars(Resuming(p))

----------------------------------------------------------------------------
(* Properties *)

\* If every event up to some point is in projection_events and no later one,
\* the rows are those that these events lead to: not two updates of a row in
\* the wrong order, nor half of one, whoever projected what, after crashes,
\* failures of SQLite and repairs; unless a rebuild took the rows back to a
\* trace that had grown meanwhile.
CompleteTablesAreTrue ==
    \A n \in 0 .. Len(trace) :
        ~stale /\ applied = 1 .. n => tables = Rows(trace, n)

Holds(p) == proc[p].step \in {"dedup", "check", "write", "fallback", "rebuilding"}
InHands == {proc[p].event : p \in {q \in Process : Holds(q)}}

\* Interleaving alone loses nothing: as long as no fault and no rebuild
\* without the lock came between, every event of the trace is in the tables
\* or in the hands of a process that is projecting it. A repair makes good
\* for all that was lost before it.
TablesFollowTheTrace ==
    ~gap /\ ~stale => DOMAIN trace \subseteq applied \union InHands

\* "evidence lifecycle ValueErrors now propagate" (CHANGELOG): an append of
\* an event that may follow raises one only if the tables have lost an
\* earlier event, or have got this one from another process's rebuild.
RefusedOnlyWithCause ==
    [][\A p \in Process :
          proc[p].step \in {"check", "write"} /\ proc'[p].step = "raised" =>
              stale \/ applied # 1 .. (proc[p].event - 1)]_vars

\* A cancelled async_resume leaves the run to others: whenever the
\* cancellation comes, the lock its threads acquired is given back.
CancelledResumesLetGo ==
    \A p \in AsyncResumer : proc[p].cancelled ~> lock # p /\ ~proc[p].cancelled
=============================================================================
