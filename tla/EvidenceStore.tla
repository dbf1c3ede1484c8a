--------------------------- MODULE EvidenceStore ---------------------------
(***************************************************************************)
(* The evidence store of one run (adapters/evidence/jsonl_store.py): the   *)
(* files trace.jsonl and trace-head.json, written by several recorders     *)
(* that share nothing but the files and the run lock. An append loads the  *)
(* head it trusts, writes one line, forces it to the disk, and now and     *)
(* then replaces trace-head.json. An append can raise and a process die    *)
(* between any two of these steps, and the machine can stop, which takes   *)
(* what was not forced to the disk and may bring back an older             *)
(* trace-head.json, whose rename is never forced.                          *)
(*                                                                         *)
(* The file is the sequence of what its writes left. A write leaves a      *)
(* whole line, or an event without its newline ("open"), or part of an     *)
(* event ("torn"). The modification times that the code compares beside    *)
(* the size are left out: they may be equal after two writes, and in one   *)
(* boot the file only grows.                                               *)
(***************************************************************************)
EXTENDS Naturals, Sequences, FiniteSets

CONSTANTS
    Recorder,    \* recorders, each in a process of its own
    Nobody,      \* the run lock is free
    MaxEvents,   \* bound: events written, lost ones included
    Interval     \* TRACE_HEAD_CHECKPOINT_INTERVAL

ASSUME StoreAssumption ==
    /\ Nobody \notin Recorder
    /\ MaxEvents \in Nat
    /\ Interval \in Nat \ {0}

\* A hash is the ordinal of its event; 0 stands for None, the hash before
\* the first event.
NoHash == 0
Hash == 0 .. MaxEvents
Forms == {"whole", "open", "torn"}
Event == [number : Nat, previous : Hash, hash : Hash]
Chunk == [event : Event, form : Forms]

\* A size is how much was written: nothing, or so many chunks the last of
\* which ends so.
Size == Nat \X Forms
TraceHead == [count : Nat, hash : Hash, size : Size]
EmptyHead == [count |-> 0, hash |-> NoHash, size |-> <<0, "whole">>]

\* No file, or nothing cached.
NoHead == [count |-> 0, hash |-> NoHash, size |-> <<0, "torn">>]

Steps == {"idle", "load", "write", "newline", "sync", "checkpoint"}

VARIABLES
    created,     \* trace.jsonl exists
    file,        \* what has been written to it
    synced,      \* how many chunks are on the disk
    head,        \* trace-head.json
    heads,       \* every version it ever had: what a machine crash can bring back
    lock,        \* who holds the run lock
    pc, base,    \* step of each recorder's append, and the head it builds on
    cache,       \* _head_cache of each recorder
    minted,      \* events made so far
    acked        \* number of the last event an append returned

disk == <<created, file, synced>>
stored == <<head, heads>>
locals == <<lock, pc, base>>
vars == <<disk, stored, locals, cache, minted, acked>>

TypeOK ==
    /\ created \in BOOLEAN
    /\ file \in Seq(Chunk)
    /\ synced \in 0 .. Len(file)
    /\ head \in TraceHead
    /\ heads \subseteq TraceHead
    /\ lock \in Recorder \union {Nobody}
    /\ pc \in [Recorder -> Steps]
    /\ base \in [Recorder -> TraceHead]
    /\ cache \in [Recorder -> TraceHead]
    /\ minted \in 0 .. MaxEvents
    /\ acked \in Nat

----------------------------------------------------------------------------
(* Reading the trace *)

SizeOf(f) == IF f = <<>> THEN <<0, "whole">> ELSE <<Len(f), f[Len(f)].form>>

\* read_trace: every line is one JSON object. An event without its newline
\* is read if it is the last one; what follows it would be on its line.
Readable(f) ==
    \A i \in DOMAIN f :
        \/ f[i].form = "whole"
        \/ f[i].form = "open" /\ i = Len(f)

HashBefore(f, i) == IF i = 1 THEN NoHash ELSE f[i - 1].event.hash

\* verify_events.
Linked(f) == \A i \in DOMAIN f : f[i].event.previous = HashBefore(f, i)

Verified(f) == Readable(f) /\ Linked(f)

\* _read_last_event raises if the last line is not one JSON object.
LastLineParses(f) ==
    /\ f[Len(f)].form # "torn"
    /\ Len(f) > 1 => f[Len(f) - 1].form = "whole"

HeadOf(f) ==
    [count |-> Len(f), hash |-> HashBefore(f, Len(f) + 1), size |-> SizeOf(f)]

\* Wrong: a stored head is accepted by the size alone.
HeadMatchesTraceBySize(h, f) == h.size = SizeOf(f)

\* _head_matches_trace.
HeadMatchesTrace(h, f) ==
    /\ h.size = SizeOf(f)
    /\ IF h.count = 0
       THEN f = <<>> /\ h.hash = NoHash
       ELSE /\ f # <<>>
            /\ f[Len(f)].event.hash = h.hash
            /\ f[Len(f)].event.number = h.count

\* Wrong: a recorder trusts its own head.
CachedHeadMatchesTraceAlways(h, f) == TRUE

\* _cached_head_matches_trace.
CachedHeadMatchesTrace(h, f) == h.size = SizeOf(f)

----------------------------------------------------------------------------
(* One append *)

Init ==
    /\ created = FALSE
    /\ file = <<>>
    /\ synced = 0
    /\ head = NoHead
    /\ heads = {NoHead}
    /\ lock = Nobody
    /\ pc = [r \in Recorder |-> "idle"]
    /\ base = [r \in Recorder |-> EmptyHead]
    /\ cache = [r \in Recorder |-> NoHead]
    /\ minted = 0
    /\ acked = 0

\* Wrong: the head is loaded and the line written without the run lock.
AcquireNothing(r) ==
    /\ pc[r] = "idle"
    /\ pc' = [pc EXCEPT ![r] = "load"]
    /\ UNCHANGED <<disk, stored, lock, base, cache, minted, acked>>

\* The run lock is granted; a wait that times out changes nothing.
Acquire(r) ==
    /\ pc[r] = "idle"
    /\ lock = Nobody
    /\ lock' = r
    /\ pc' = [pc EXCEPT ![r] = "load"]
    /\ UNCHANGED <<disk, stored, base, cache, minted, acked>>

\* The append is over and the lock is released.
Release(r) ==
    /\ lock' = Nobody
    /\ pc' = [pc EXCEPT ![r] = "idle"]
    /\ base' = [base EXCEPT ![r] = EmptyHead]

ReplaceHead(h) ==
    /\ head' = h
    /\ heads' = heads \union {h}

BuildOn(r, h) ==
    /\ base' = [base EXCEPT ![r] = h]
    /\ pc' = [pc EXCEPT ![r] = "write"]
    /\ UNCHANGED <<disk, lock, minted, acked>>

CacheApplies(r) == cache[r] # NoHead /\ CachedHeadMatchesTrace(cache[r], file)

StoredHeadApplies(h) ==
    /\ h # NoHead
    /\ HeadMatchesTrace(h, file)
    /\ h.count > 0 => LastLineParses(file)

\* No trace: whatever head is stored is removed.
StartTrace(r) ==
    /\ pc[r] = "load" /\ ~created
    /\ BuildOn(r, EmptyHead)
    /\ cache' = [cache EXCEPT ![r] = NoHead]
    /\ head' = NoHead
    /\ UNCHANGED heads

UseCachedHead(r) ==
    /\ pc[r] = "load" /\ created
    /\ CacheApplies(r)
    /\ BuildOn(r, cache[r])
    /\ UNCHANGED <<stored, cache>>

UseStoredHead(r) ==
    /\ pc[r] = "load" /\ created
    /\ ~CacheApplies(r)
    /\ StoredHeadApplies(head)
    /\ BuildOn(r, head)
    /\ cache' = [cache EXCEPT ![r] = head]
    /\ UNCHANGED stored

\* Wrong: what the trace holds is counted, not verified.
RebuildHeadUnverified(r) ==
    /\ pc[r] = "load" /\ created
    /\ ~CacheApplies(r) /\ ~StoredHeadApplies(head)
    /\ BuildOn(r, HeadOf(file))
    /\ cache' = [cache EXCEPT ![r] = HeadOf(file)]
    /\ ReplaceHead(HeadOf(file))

\* Neither head fits. A trace that cannot be read, or whose hashes do not
\* link, ends the append (Fail).
RebuildHead(r) ==
    /\ pc[r] = "load" /\ created
    /\ ~CacheApplies(r) /\ ~StoredHeadApplies(head)
    /\ Verified(file)
    /\ BuildOn(r, HeadOf(file))
    /\ cache' = [cache EXCEPT ![r] = HeadOf(file)]
    /\ ReplaceHead(HeadOf(file))

NewEvent(r) ==
    [number |-> base[r].count + 1, previous |-> base[r].hash, hash |-> minted + 1]

\* The line reaches the file whole, or first without its newline. A write
\* that stops early raises; it may have done no more than create the file.
WriteEvent(r) ==
    /\ pc[r] = "write"
    /\ minted < MaxEvents
    /\ minted' = minted + 1
    /\ created' = TRUE
    /\ UNCHANGED <<synced, stored, cache, acked>>
    /\ \/ /\ file' = Append(file, [event |-> NewEvent(r), form |-> "whole"])
          /\ pc' = [pc EXCEPT ![r] = "sync"]
          /\ UNCHANGED <<lock, base>>
       \/ /\ file' = Append(file, [event |-> NewEvent(r), form |-> "open"])
          /\ pc' = [pc EXCEPT ![r] = "newline"]
          /\ UNCHANGED <<lock, base>>
       \/ /\ file' = Append(file, [event |-> NewEvent(r), form |-> "torn"])
          /\ Release(r)
       \/ /\ Release(r)
          /\ UNCHANGED file

WriteNewline(r) ==
    /\ pc[r] = "newline"
    /\ file' = [file EXCEPT ![Len(file)].form = "whole"]
    /\ pc' = [pc EXCEPT ![r] = "sync"]
    /\ UNCHANGED <<created, synced, stored, lock, base, cache, minted, acked>>

NextHead(r) ==
    [count |-> base[r].count + 1,
     hash |-> HashBefore(file, Len(file) + 1),
     size |-> SizeOf(file)]

CheckpointDue(count) == count = 1 \/ count % Interval = 0

\* append returns its event.
Return(r) ==
    /\ acked' = base[r].count + 1
    /\ Release(r)

\* Wrong: the line is flushed but not forced to the disk.
SyncWithoutFsync(r) ==
    /\ pc[r] = "sync"
    /\ cache' = [cache EXCEPT ![r] = NextHead(r)]
    /\ UNCHANGED <<disk, stored, minted>>
    /\ IF CheckpointDue(base[r].count + 1)
       THEN /\ pc' = [pc EXCEPT ![r] = "checkpoint"]
            /\ UNCHANGED <<lock, base, acked>>
       ELSE Return(r)

\* fsync, and the new head is cached.
Sync(r) ==
    /\ pc[r] = "sync"
    /\ synced' = Len(file)
    /\ cache' = [cache EXCEPT ![r] = NextHead(r)]
    /\ UNCHANGED <<created, file, stored, minted>>
    /\ IF CheckpointDue(base[r].count + 1)
       THEN /\ pc' = [pc EXCEPT ![r] = "checkpoint"]
            /\ UNCHANGED <<lock, base, acked>>
       ELSE Return(r)

Checkpoint(r) ==
    /\ pc[r] = "checkpoint"
    /\ ReplaceHead(cache[r])
    /\ Return(r)
    /\ UNCHANGED <<disk, cache, minted>>

\* Wrong: an append that raises takes its line back.
FailUndoing(r) ==
    /\ pc[r] # "idle"
    /\ Release(r)
    /\ file' = IF pc[r] = "checkpoint" THEN SubSeq(file, 1, base[r].count) ELSE file
    /\ UNCHANGED <<created, synced, stored, cache, minted, acked>>

\* An append raises: the trace is refused, the payload is refused, or a
\* system call fails. What was written stays.
Fail(r) ==
    /\ pc[r] # "idle"
    /\ Release(r)
    /\ UNCHANGED <<disk, stored, cache, minted, acked>>

----------------------------------------------------------------------------
(* Crashes *)

\* The process of a recorder dies; the system releases its lock.
Die(r) ==
    /\ pc[r] # "idle" \/ cache[r] # NoHead
    /\ lock' = IF lock = r THEN Nobody ELSE lock
    /\ pc' = [pc EXCEPT ![r] = "idle"]
    /\ base' = [base EXCEPT ![r] = EmptyHead]
    /\ cache' = [cache EXCEPT ![r] = NoHead]
    /\ UNCHANGED <<disk, stored, minted, acked>>

CutForms(form) ==
    {"torn"} \union (IF form # "torn" THEN {"open"} ELSE {})

\* What may be left of a file of which the first n chunks are on the disk:
\* so many chunks, and perhaps part of the next.
Remains(f, n) ==
    {SubSeq(f, 1, k) : k \in n .. Len(f)}
    \union UNION {{[SubSeq(f, 1, k) EXCEPT ![k].form = form] : form \in CutForms(f[k].form)} :
                    k \in (n + 1) .. Len(f)}

MachineStops ==
    /\ file' \in Remains(file, synced)
    /\ synced' = Len(file')
    /\ created' \in IF file' = <<>> THEN {created, FALSE} ELSE {TRUE}
    /\ head' \in heads
    /\ lock' = Nobody
    /\ pc' = [r \in Recorder |-> "idle"]
    /\ base' = [r \in Recorder |-> EmptyHead]
    /\ cache' = [r \in Recorder |-> NoHead]
    /\ UNCHANGED <<heads, minted, acked>>

LoadHead(r) ==
    \/ StartTrace(r)
    \/ UseCachedHead(r)
    \/ UseStoredHead(r)
    \/ RebuildHead(r)

Next ==
    \/ MachineStops
    \/ \E r \in Recorder :
          \/ Acquire(r)
          \/ LoadHead(r)
          \/ WriteEvent(r)
          \/ WriteNewline(r)
          \/ Sync(r)
          \/ Checkpoint(r)
          \/ Fail(r)
          \/ Die(r)

Spec == Init /\ [][Next]_vars

----------------------------------------------------------------------------
(* Properties *)

\* Whichever recorders wrote it and whatever crashed between, the trace is
\* one chain: events are numbered from 1 without gaps, and each names the
\* hash of the one before it.
ChainIsValid ==
    \A i \in DOMAIN file :
        /\ file[i].event.number = i
        /\ file[i].event.previous = HashBefore(file, i)

\* An event was left without its newline, and the next one is on its line.
LinesAreJoined == \E i \in DOMAIN file : i < Len(file) /\ file[i].form = "open"

\* The shortcut of _load_verified_head is as good as full verification: a
\* checkpoint, of whatever age, or a cached head that is accepted for the
\* trace is what _rebuild_head would return (for a trace without two events
\* on one line).
AcceptedHeadsAreTrue ==
    ~LinesAreJoined =>
        /\ \A h \in heads :
              StoredHeadApplies(h) => Verified(file) /\ h = HeadOf(file)
        /\ \A r \in Recorder :
              CacheApplies(r) => Verified(file) /\ cache[r] = HeadOf(file)

\* _rebuild_head refuses an invalid trace ("cannot append to invalid
\* evidence trace"), and so must every other path: an event is added only
\* to a trace that full verification accepts.
AppendsFailClosed == [][Len(file') > Len(file) => Verified(file)]_vars

\* That is so of every trace but one in which a write has left its event
\* without the newline and another event has followed on that line.
OnlyJoinedLinesPass ==
    [][Len(file') > Len(file) => Verified(file) \/ LinesAreJoined]_vars

\* The events the file holds whole, by their hashes. Only the last chunk can
\* be torn. (After an open one, two of them may share a line.)
EventCount(f) ==
    IF f # <<>> /\ f[Len(f)].form = "torn" THEN Len(f) - 1 ELSE Len(f)

Log == INSTANCE AppendLog WITH
    Event <- Hash,
    log <- [i \in 1 .. EventCount(file) |-> file[i].event.hash],
    acknowledged <- acked

\* Recorders, crashes and stale heads together implement AppendLog: what
\* an append returned survives, with everything before it.
KeepsAcknowledged == Log!Spec
============================================================================
