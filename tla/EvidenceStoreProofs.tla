------------------------ MODULE EvidenceStoreProofs -------------------------
(***************************************************************************)
(* Theorems about EvidenceStore, for any number of recorders, events and   *)
(* crashes and any checkpoint interval: the trace is one chain, what an    *)
(* append returned is never lost, and, as long as no two events share a    *)
(* line, accepted heads are true and appends fail closed.                  *)
(***************************************************************************)
EXTENDS EvidenceStore, TLAPS

----------------------------------------------------------------------------
(* The inductive invariant *)

\* Who is in an append holds the run lock.
LockIsHeld == \A r \in Recorder : pc[r] # "idle" <=> lock = r

TraceBegins == ~created => file = <<>>

OnlyTheLastIsTorn ==
    \A i \in DOMAIN file : file[i].form = "torn" => i = Len(file)

\* What a recorder caches was true of the file at that length.
Describes(h, f) ==
    /\ h.count = h.size[1]
    /\ h.count <= Len(f)
    /\ h.hash = HashBefore(f, h.count + 1)
    /\ h.size[2] # "torn"

CachesDescribe ==
    \A r \in Recorder : cache[r] = NoHead \/ Describes(cache[r], file)

\* Between loading the head and returning, nobody else moves the end.
EndIsOurs(r) ==
    /\ pc[r] = "write" =>
          /\ base[r].count = Len(file)
          /\ base[r].hash = HashBefore(file, Len(file) + 1)
          /\ EventCount(file) = Len(file)
    /\ pc[r] \in {"newline", "sync", "checkpoint"} => base[r].count + 1 = Len(file)
    /\ pc[r] = "newline" => file[Len(file)].form = "open"
    /\ pc[r] \in {"sync", "checkpoint"} => file[Len(file)].form = "whole"
    /\ pc[r] = "checkpoint" => synced = Len(file)

AppendsOwnTheEnd == \A r \in Recorder : EndIsOurs(r)

AcknowledgedIsSynced == acked <= synced /\ acked <= EventCount(file)

IInv ==
    /\ TypeOK
    /\ LockIsHeld
    /\ TraceBegins
    /\ ChainIsValid
    /\ OnlyTheLastIsTorn
    /\ CachesDescribe
    /\ AppendsOwnTheEnd
    /\ AcknowledgedIsSynced

----------------------------------------------------------------------------
(* Lemmas about reading a file *)

\* What a reader computes from a file of chunks has the expected types.
LEMMA ReadingTypes ==
    ASSUME NEW f \in Seq(Chunk)
    PROVE  /\ SizeOf(f) \in Size
           /\ \A i \in 1 .. Len(f) + 1 : HashBefore(f, i) \in Hash
           /\ HeadOf(f) \in TraceHead
           /\ EventCount(f) \in Nat /\ EventCount(f) <= Len(f)
<1>1. \A i \in 1 .. Len(f) : f[i] \in Chunk
  OBVIOUS
<1>2. 0 \in Hash
  BY StoreAssumption DEF Hash
<1>3. \A i \in 1 .. Len(f) + 1 : HashBefore(f, i) \in Hash
  BY <1>1, <1>2 DEF HashBefore, NoHash, Chunk, Event
<1>4. SizeOf(f) \in Size
  BY <1>1 DEF SizeOf, Size, Chunk, Forms
<1>5. HeadOf(f) \in TraceHead
  BY <1>3, <1>4 DEF HeadOf, TraceHead
<1>6. EventCount(f) \in Nat /\ EventCount(f) <= Len(f)
  BY <1>1 DEF EventCount
<1> QED BY <1>3, <1>4, <1>5, <1>6

\* The constant heads.
LEMMA ConstantHeads ==
    /\ NoHead \in TraceHead
    /\ EmptyHead \in TraceHead
    /\ NoHash \in Hash
<1>1. 0 \in Hash
  BY StoreAssumption DEF Hash
<1>2. <<0, "torn">> \in Size /\ <<0, "whole">> \in Size
  BY DEF Size, Forms
<1> QED BY <1>1, <1>2 DEF NoHead, EmptyHead, TraceHead, NoHash

\* A file keeps its hashes when a chunk is added.
LEMMA AppendKeeps ==
    ASSUME NEW f \in Seq(Chunk), NEW c \in Chunk
    PROVE  LET g == Append(f, c) IN
           /\ g \in Seq(Chunk)
           /\ Len(g) = Len(f) + 1
           /\ g # <<>>
           /\ g[Len(f) + 1] = c
           /\ \A i \in 1 .. Len(f) : g[i] = f[i]
           /\ \A i \in 1 .. Len(f) + 1 : HashBefore(g, i) = HashBefore(f, i)
<1> DEFINE g == Append(f, c)
<1>1. /\ g \in Seq(Chunk)
      /\ Len(g) = Len(f) + 1
      /\ g[Len(f) + 1] = c
      /\ \A i \in 1 .. Len(f) : g[i] = f[i]
  OBVIOUS
<1>2. g # <<>>
  BY <1>1
<1>3. \A i \in 1 .. Len(f) + 1 : HashBefore(g, i) = HashBefore(f, i)
  BY <1>1 DEF HashBefore
<1> QED BY <1>1, <1>2, <1>3

\* A head that was true of a file stays true of it when it grows.
LEMMA DescribesGrowing ==
    ASSUME NEW f \in Seq(Chunk), NEW c \in Chunk, NEW h \in TraceHead, Describes(h, f)
    PROVE  Describes(h, Append(f, c))
<1>1. h.count \in Nat /\ h.count + 1 \in 1 .. Len(f) + 1
  BY DEF Describes, TraceHead
<1> QED BY <1>1, AppendKeeps DEF Describes

\* A head computed from a file whose last chunk is not torn is true of it.
LEMMA HeadOfDescribes ==
    ASSUME NEW f \in Seq(Chunk), f # <<>> => f[Len(f)].form # "torn"
    PROVE  Describes(HeadOf(f), f)
<1>1. CASE f = <<>>
  BY <1>1 DEF Describes, HeadOf, SizeOf
<1>2. CASE f # <<>>
  BY <1>2 DEF Describes, HeadOf, SizeOf
<1> QED BY <1>1, <1>2
----------------------------------------------------------------------------
(* Every step preserves the invariant *)

LEMMA InitEstablishes == Init => IInv
<1> SUFFICES ASSUME Init PROVE IInv
  OBVIOUS
<1> USE ConstantHeads DEF Init
<1>1. TypeOK
  <2>1. file \in Seq(Chunk) /\ synced \in 0 .. Len(file)
    OBVIOUS
  <2>2. pc \in [Recorder -> Steps]
    BY DEF Steps
  <2>3. base \in [Recorder -> TraceHead] /\ cache \in [Recorder -> TraceHead]
    OBVIOUS
  <2>4. minted \in 0 .. MaxEvents
    BY StoreAssumption
  <2> QED BY <2>1, <2>2, <2>3, <2>4 DEF TypeOK
<1>2. LockIsHeld /\ TraceBegins /\ ChainIsValid /\ OnlyTheLastIsTorn
  BY StoreAssumption DEF LockIsHeld, TraceBegins, ChainIsValid, OnlyTheLastIsTorn
<1>3. CachesDescribe
  BY DEF CachesDescribe
<1>4. AppendsOwnTheEnd
  BY DEF AppendsOwnTheEnd, EndIsOurs
<1>5. AcknowledgedIsSynced
  BY DEF AcknowledgedIsSynced, EventCount
<1> QED BY <1>1, <1>2, <1>3, <1>4, <1>5 DEF IInv

\* The conjuncts about the file alone survive what leaves the disk alone.
LEMMA DiskUnchanged ==
    ASSUME IInv, UNCHANGED disk
    PROVE  TraceBegins' /\ ChainIsValid' /\ OnlyTheLastIsTorn'
BY DEF IInv, disk, TraceBegins, ChainIsValid, OnlyTheLastIsTorn, HashBefore

LEMMA AcquirePreserves ==
    ASSUME IInv, NEW r \in Recorder, Acquire(r)
    PROVE  IInv'
<1> USE DEF IInv, Acquire, disk, stored
<1>1. TypeOK'
  BY DEF TypeOK, Steps
<1>2. LockIsHeld'
  BY StoreAssumption DEF LockIsHeld, TypeOK
<1>3. TraceBegins' /\ ChainIsValid' /\ OnlyTheLastIsTorn'
  BY DiskUnchanged
<1>4. CachesDescribe'
  BY DEF CachesDescribe, Describes, HashBefore
<1>5. AppendsOwnTheEnd'
  BY DEF AppendsOwnTheEnd, EndIsOurs, HashBefore, EventCount, TypeOK
<1>6. AcknowledgedIsSynced'
  BY DEF AcknowledgedIsSynced, EventCount
<1> QED BY <1>1, <1>2, <1>3, <1>4, <1>5, <1>6

\* A head to build on that describes the whole file.
Current(h) ==
    /\ h \in TraceHead
    /\ h.count = Len(file)
    /\ h.hash = HashBefore(file, Len(file) + 1)
    /\ EventCount(file) = Len(file)

\* Each way to load the head finds the end of the file; what it caches is
\* true of the file.
LEMMA LoadedHeadIsCurrent ==
    ASSUME IInv, NEW r \in Recorder, LoadHead(r)
    PROVE  /\ Current(base'[r])
           /\ cache'[r] = NoHead \/ (cache'[r] \in TraceHead /\ Describes(cache'[r], file))
           /\ head' \in TraceHead /\ heads' \subseteq TraceHead
<1> USE DEF IInv, TypeOK, LoadHead, BuildOn
<1>1. CASE StartTrace(r)
  <2>1. file = <<>> /\ base'[r] = EmptyHead /\ cache'[r] = NoHead
    BY <1>1 DEF StartTrace, TraceBegins
  <2>2. Current(EmptyHead)
    BY <2>1, ConstantHeads DEF Current, EmptyHead, HashBefore, EventCount
  <2> QED BY <1>1, <2>1, <2>2, ConstantHeads DEF StartTrace
<1>2. CASE UseCachedHead(r)
  <2>1. /\ cache'[r] = cache[r] /\ base'[r] = cache[r]
        /\ cache[r] \in TraceHead /\ Describes(cache[r], file)
        /\ cache[r].size = SizeOf(file)
    BY <1>2 DEF UseCachedHead, CacheApplies, CachedHeadMatchesTrace, CachesDescribe
  <2>2. Current(cache[r])
    BY <2>1 DEF Current, Describes, SizeOf, EventCount
  <2> QED BY <1>2, <2>1, <2>2 DEF UseCachedHead, stored
<1>3. CASE UseStoredHead(r)
  <2>1. /\ cache'[r] = head /\ base'[r] = head
        /\ head \in TraceHead /\ HeadMatchesTrace(head, file)
        /\ head.count > 0 => LastLineParses(file)
    BY <1>3 DEF UseStoredHead, StoredHeadApplies
  <2>2. CASE head.count = 0
    BY <1>3, <2>1, <2>2
    DEF UseStoredHead, stored, Current, Describes, HeadMatchesTrace, HashBefore, EventCount, SizeOf
  <2>3. CASE head.count # 0
    <3>1. head.count \in Nat /\ head.count > 0
      BY <2>1, <2>3 DEF TraceHead
    <3>2. /\ file # <<>>
          /\ file[Len(file)].event.hash = head.hash
          /\ file[Len(file)].event.number = head.count
          /\ file[Len(file)].form # "torn"
          /\ head.size = SizeOf(file)
      BY <2>1, <2>3, <3>1 DEF HeadMatchesTrace, LastLineParses
    <3>3. Len(file) \in DOMAIN file /\ head.count = Len(file)
      BY <3>2 DEF ChainIsValid
    <3>4. HashBefore(file, Len(file) + 1) = head.hash
      BY <3>2, <3>3 DEF HashBefore
    <3> QED BY <1>3, <2>1, <3>2, <3>3, <3>4
            DEF UseStoredHead, stored, Current, Describes, SizeOf, EventCount
  <2> QED BY <2>2, <2>3
<1>4. CASE RebuildHead(r)
  <2>1. /\ cache'[r] = HeadOf(file) /\ base'[r] = HeadOf(file)
        /\ head' = HeadOf(file) /\ heads' = heads \union {HeadOf(file)}
        /\ Readable(file)
    BY <1>4 DEF RebuildHead, ReplaceHead, Verified
  <2>2. HeadOf(file) \in TraceHead
    BY ReadingTypes
  <2>3. file # <<>> => file[Len(file)].form # "torn"
    BY <2>1 DEF Readable
  <2>4. Describes(HeadOf(file), file)
    BY <2>3, HeadOfDescribes
  <2>5. Current(HeadOf(file))
    BY <2>2, <2>3 DEF Current, HeadOf, EventCount
  <2> QED BY <2>1, <2>2, <2>4, <2>5
<1> QED BY <1>1, <1>2, <1>3, <1>4

LEMMA LoadHeadPreserves ==
    ASSUME IInv, NEW r \in Recorder, LoadHead(r)
    PROVE  IInv'
<1> USE DEF IInv
<1>1. /\ pc[r] = "load" /\ pc' = [pc EXCEPT ![r] = "write"]
      /\ UNCHANGED <<created, file, synced, lock, minted, acked>>
      /\ base' = [base EXCEPT ![r] = base'[r]]
      /\ cache' = [cache EXCEPT ![r] = cache'[r]]
  BY DEF LoadHead, BuildOn, StartTrace, UseCachedHead, UseStoredHead, RebuildHead, disk, TypeOK
<1>2. /\ Current(base'[r])
      /\ cache'[r] = NoHead \/ (cache'[r] \in TraceHead /\ Describes(cache'[r], file))
      /\ head' \in TraceHead /\ heads' \subseteq TraceHead
  BY LoadedHeadIsCurrent
<1>3. TypeOK'
  <2>1. base' \in [Recorder -> TraceHead] /\ cache' \in [Recorder -> TraceHead]
    BY <1>1, <1>2, ConstantHeads DEF TypeOK, Current
  <2> QED BY <1>1, <1>2, <2>1 DEF TypeOK, Steps
<1>4. LockIsHeld'
  BY <1>1 DEF LockIsHeld, TypeOK
<1>5. TraceBegins' /\ ChainIsValid' /\ OnlyTheLastIsTorn'
  BY <1>1, DiskUnchanged DEF disk
<1>6. CachesDescribe'
  BY <1>1, <1>2 DEF CachesDescribe, Describes, HashBefore, TypeOK
<1>7. AppendsOwnTheEnd'
  BY <1>1, <1>2 DEF AppendsOwnTheEnd, EndIsOurs, Current, HashBefore, EventCount, TypeOK
<1>8. AcknowledgedIsSynced'
  BY <1>1 DEF AcknowledgedIsSynced, EventCount
<1> QED BY <1>3, <1>4, <1>5, <1>6, <1>7, <1>8

\* A step whose effect on the recorders is that r lets go of the lock.
LEMMA ReleasePreserves ==
    ASSUME IInv, NEW r \in Recorder, Release(r), pc[r] # "idle"
    PROVE  /\ lock' \in Recorder \union {Nobody}
           /\ pc' \in [Recorder -> Steps]
           /\ base' \in [Recorder -> TraceHead]
           /\ LockIsHeld'
           /\ \A q \in Recorder : pc'[q] = "idle"
BY ConstantHeads, StoreAssumption DEF IInv, Release, TypeOK, Steps, LockIsHeld

\* Where every recorder is idle, none owns the end.
LEMMA IdleOwnsNothing ==
    ASSUME \A q \in Recorder : pc'[q] = "idle"
    PROVE  AppendsOwnTheEnd'
BY DEF AppendsOwnTheEnd, EndIsOurs

\* The chunk that a write leaves at the end.
LEMMA ChunkAppended ==
    ASSUME IInv, NEW r \in Recorder, pc[r] = "write", minted < MaxEvents,
           NEW form \in Forms,
           file' = Append(file, [event |-> NewEvent(r), form |-> form]),
           created' = TRUE, UNCHANGED <<synced, cache, acked>>
    PROVE  /\ file' \in Seq(Chunk)
           /\ Len(file') = Len(file) + 1
           /\ file'[Len(file')].form = form
           /\ base[r].count + 1 = Len(file')
           /\ synced' \in 0 .. Len(file')
           /\ TraceBegins' /\ ChainIsValid' /\ OnlyTheLastIsTorn'
           /\ CachesDescribe' /\ AcknowledgedIsSynced'
<1> DEFINE c == [event |-> NewEvent(r), form |-> form]
<1> USE DEF IInv
<1>1. Current(base[r])
  BY DEF AppendsOwnTheEnd, EndIsOurs, Current, TypeOK
<1>2. NewEvent(r) \in Event /\ c \in Chunk
  <2>1. minted + 1 \in Hash
    BY StoreAssumption DEF Hash, TypeOK
  <2>2. base[r].count + 1 \in Nat /\ base[r].hash \in Hash
    BY <1>1 DEF Current, TraceHead
  <2>3. NewEvent(r) \in Event
    BY <2>1, <2>2 DEF NewEvent, Event
  <2> QED BY <2>3 DEF Chunk
<1>3. file \in Seq(Chunk)
  BY DEF TypeOK
<1>4. /\ file' \in Seq(Chunk)
      /\ Len(file') = Len(file) + 1
      /\ file' # <<>>
      /\ file'[Len(file) + 1] = c
      /\ \A i \in 1 .. Len(file) : file'[i] = file[i]
      /\ \A i \in 1 .. Len(file) + 1 : HashBefore(file', i) = HashBefore(file, i)
  BY <1>2, <1>3, AppendKeeps
<1>5. synced' \in 0 .. Len(file')
  BY <1>4 DEF TypeOK
<1>6. TraceBegins'
  BY DEF TraceBegins
<1>7. ChainIsValid'
  <2> SUFFICES ASSUME NEW i \in 1 .. Len(file) + 1
               PROVE  /\ file'[i].event.number = i
                      /\ file'[i].event.previous = HashBefore(file', i)
    BY <1>4 DEF ChainIsValid
  <2>1. CASE i \in 1 .. Len(file)
    BY <2>1, <1>3, <1>4 DEF ChainIsValid
  <2>2. CASE i = Len(file) + 1
    BY <2>2, <1>1, <1>4 DEF NewEvent, Current
  <2> QED BY <2>1, <2>2, <1>3
<1>8. OnlyTheLastIsTorn'
  <2>1. \A i \in 1 .. Len(file) : file[i].form # "torn"
    BY <1>1, <1>3 DEF OnlyTheLastIsTorn, Current, EventCount
  <2> QED BY <1>3, <1>4, <2>1 DEF OnlyTheLastIsTorn
<1>9. CachesDescribe'
  BY <1>2, <1>3, DescribesGrowing DEF CachesDescribe, TypeOK
<1>10. AcknowledgedIsSynced'
  BY <1>1, <1>3, <1>4 DEF AcknowledgedIsSynced, EventCount, Current, TypeOK
<1> QED BY <1>1, <1>4, <1>5, <1>6, <1>7, <1>8, <1>9, <1>10 DEF Current

LEMMA WriteEventPreserves ==
    ASSUME IInv, NEW r \in Recorder, WriteEvent(r)
    PROVE  IInv'
<1> USE DEF IInv
<1>1. /\ pc[r] = "write" /\ minted < MaxEvents
      /\ minted' = minted + 1 /\ minted' \in 0 .. MaxEvents
      /\ created' = TRUE
      /\ UNCHANGED <<synced, head, heads, cache, acked>>
  BY StoreAssumption DEF WriteEvent, stored, TypeOK
<1>2. ASSUME NEW form \in {"whole", "open"}, NEW step \in {"sync", "newline"},
             form = "whole" <=> step = "sync",
             file' = Append(file, [event |-> NewEvent(r), form |-> form]),
             pc' = [pc EXCEPT ![r] = step], UNCHANGED <<lock, base>>
      PROVE  IInv'
  <2>1. /\ file' \in Seq(Chunk)
        /\ file'[Len(file')].form = form
        /\ base[r].count + 1 = Len(file')
        /\ synced' \in 0 .. Len(file')
        /\ TraceBegins' /\ ChainIsValid' /\ OnlyTheLastIsTorn'
        /\ CachesDescribe' /\ AcknowledgedIsSynced'
    BY <1>1, <1>2, ChunkAppended DEF Forms
  <2>2. TypeOK'
    BY <1>1, <1>2, <2>1 DEF TypeOK, Steps
  <2>3. LockIsHeld'
    BY <1>1, <1>2 DEF LockIsHeld, TypeOK
  <2>4. \A q \in Recorder : q # r => pc'[q] = "idle"
    BY <1>1, <1>2 DEF LockIsHeld, TypeOK
  <2>5. AppendsOwnTheEnd'
    BY <1>2, <2>1, <2>4 DEF AppendsOwnTheEnd, EndIsOurs, TypeOK
  <2> QED BY <2>1, <2>2, <2>3, <2>5
<1>3. CASE /\ file' = Append(file, [event |-> NewEvent(r), form |-> "torn"])
           /\ Release(r)
  <2>1. /\ file' \in Seq(Chunk)
        /\ synced' \in 0 .. Len(file')
        /\ TraceBegins' /\ ChainIsValid' /\ OnlyTheLastIsTorn'
        /\ CachesDescribe' /\ AcknowledgedIsSynced'
    BY <1>1, <1>3, ChunkAppended DEF Forms
  <2>2. TypeOK' /\ LockIsHeld' /\ AppendsOwnTheEnd'
    BY <1>1, <1>3, <2>1, ReleasePreserves, IdleOwnsNothing DEF TypeOK
  <2> QED BY <2>1, <2>2
<1>4. CASE Release(r) /\ UNCHANGED file
  <2>1. TypeOK' /\ LockIsHeld' /\ AppendsOwnTheEnd'
    BY <1>1, <1>4, ReleasePreserves, IdleOwnsNothing DEF TypeOK
  <2>2. TraceBegins' /\ ChainIsValid' /\ OnlyTheLastIsTorn'
    BY <1>1, <1>4 DEF TraceBegins, ChainIsValid, OnlyTheLastIsTorn, HashBefore
  <2>3. CachesDescribe' /\ AcknowledgedIsSynced'
    BY <1>1, <1>4 DEF CachesDescribe, Describes, HashBefore, AcknowledgedIsSynced, EventCount
  <2> QED BY <2>1, <2>2, <2>3
<1> QED BY <1>2, <1>3, <1>4 DEF WriteEvent

\* Adding the newline changes no event.
LEMMA NewlineKeeps ==
    ASSUME IInv, NEW r \in Recorder, WriteNewline(r)
    PROVE  /\ file # <<>> /\ Len(file) \in Nat /\ Len(file) >= 1
           /\ file' \in Seq(Chunk) /\ Len(file') = Len(file)
           /\ file[Len(file)].form = "open" /\ file'[Len(file)].form = "whole"
           /\ \A i \in 1 .. Len(file) : file'[i].event = file[i].event
           /\ \A i \in 1 .. Len(file) - 1 : file'[i] = file[i]
           /\ \A i \in 1 .. Len(file) + 1 : HashBefore(file', i) = HashBefore(file, i)
           /\ EventCount(file) = Len(file) /\ EventCount(file') = Len(file)
<1> USE DEF IInv
<1>1. /\ base[r].count + 1 = Len(file) /\ base[r].count \in Nat
      /\ file[Len(file)].form = "open" /\ file \in Seq(Chunk)
      /\ file' = [file EXCEPT ![Len(file)].form = "whole"]
  BY DEF WriteNewline, AppendsOwnTheEnd, EndIsOurs, TypeOK, TraceHead
<1>2. /\ Len(file) \in DOMAIN file /\ file # <<>>
      /\ file[Len(file)] \in Chunk
  BY <1>1
<1>3. [file[Len(file)] EXCEPT !.form = "whole"] \in Chunk
  BY <1>2 DEF Chunk, Forms
<1>4. /\ file' \in Seq(Chunk) /\ Len(file') = Len(file) /\ file' # <<>>
      /\ file'[Len(file)] = [file[Len(file)] EXCEPT !.form = "whole"]
      /\ \A i \in 1 .. Len(file) - 1 : file'[i] = file[i]
  BY <1>1, <1>2, <1>3
<1>5. /\ file'[Len(file)].form = "whole"
      /\ file'[Len(file)].event = file[Len(file)].event
  BY <1>2, <1>4 DEF Chunk
<1>6. \A i \in 1 .. Len(file) : file'[i].event = file[i].event
  BY <1>1, <1>4, <1>5
<1>7. \A i \in 1 .. Len(file) + 1 : HashBefore(file', i) = HashBefore(file, i)
  BY <1>1, <1>6 DEF HashBefore
<1>8. EventCount(file) = Len(file) /\ EventCount(file') = Len(file)
  BY <1>1, <1>2, <1>4, <1>5 DEF EventCount
<1>9. Len(file) \in Nat /\ Len(file) >= 1
  BY <1>1
<1>10. file[Len(file)].form = "open"
  BY <1>1
<1> QED BY <1>2, <1>4, <1>5, <1>6, <1>7, <1>8, <1>9, <1>10

LEMMA WriteNewlinePreserves ==
    ASSUME IInv, NEW r \in Recorder, WriteNewline(r)
    PROVE  IInv'
<1> USE DEF IInv
<1>1. /\ file # <<>> /\ Len(file) \in Nat /\ Len(file) >= 1
      /\ file' \in Seq(Chunk) /\ Len(file') = Len(file)
      /\ file[Len(file)].form = "open" /\ file'[Len(file)].form = "whole"
      /\ \A i \in 1 .. Len(file) : file'[i].event = file[i].event
      /\ \A i \in 1 .. Len(file) - 1 : file'[i] = file[i]
      /\ \A i \in 1 .. Len(file) + 1 : HashBefore(file', i) = HashBefore(file, i)
      /\ EventCount(file) = Len(file) /\ EventCount(file') = Len(file)
  BY NewlineKeeps
<1>2. /\ pc[r] = "newline" /\ pc' = [pc EXCEPT ![r] = "sync"]
      /\ UNCHANGED <<created, synced, head, heads, lock, base, cache, minted, acked>>
  BY DEF WriteNewline, stored
<1>3. TypeOK'
  BY <1>1, <1>2 DEF TypeOK, Steps
<1>4. LockIsHeld' /\ \A q \in Recorder : q # r => pc'[q] = "idle"
  BY <1>2 DEF LockIsHeld, TypeOK
<1>5. TraceBegins'
  BY <1>1, <1>2 DEF TraceBegins
<1>6. ChainIsValid'
  <2>1. DOMAIN file = 1 .. Len(file) /\ DOMAIN file' = 1 .. Len(file)
    BY <1>1 DEF TypeOK
  <2> SUFFICES ASSUME NEW i \in 1 .. Len(file)
               PROVE  file'[i].event.number = i /\ file'[i].event.previous = HashBefore(file', i)
    BY <2>1 DEF ChainIsValid
  <2>2. i \in 1 .. Len(file) + 1
    BY <1>1
  <2>3. file[i].event.number = i /\ file[i].event.previous = HashBefore(file, i)
    BY <2>1 DEF ChainIsValid
  <2> QED BY <1>1, <2>2, <2>3
<1>7. OnlyTheLastIsTorn'
  <2> SUFFICES ASSUME NEW i \in 1 .. Len(file), file'[i].form = "torn"
               PROVE  i = Len(file)
    BY <1>1 DEF OnlyTheLastIsTorn
  <2>1. i # Len(file) => i \in 1 .. Len(file) - 1
    BY <1>1
  <2> QED BY <1>1, <2>1 DEF OnlyTheLastIsTorn, TypeOK
<1>8. CachesDescribe'
  <2> SUFFICES ASSUME NEW q \in Recorder, Describes(cache[q], file)
               PROVE  Describes(cache[q], file')
    BY <1>2 DEF CachesDescribe
  <2>1. cache[q].count + 1 \in 1 .. Len(file) + 1
    BY <1>1 DEF Describes, TypeOK, TraceHead
  <2> QED BY <1>1, <2>1 DEF Describes
<1>9. AppendsOwnTheEnd'
  BY <1>1, <1>2, <1>4 DEF AppendsOwnTheEnd, EndIsOurs, TypeOK
<1>10. AcknowledgedIsSynced'
  BY <1>1, <1>2 DEF AcknowledgedIsSynced
<1> QED BY <1>3, <1>4, <1>5, <1>6, <1>7, <1>8, <1>9, <1>10

\* The head that is cached after the line was forced to the disk.
LEMMA NextHeadDescribes ==
    ASSUME IInv, NEW r \in Recorder, pc[r] = "sync"
    PROVE  /\ base[r].count + 1 = Len(file) /\ EventCount(file) = Len(file)
           /\ NextHead(r) \in TraceHead /\ Describes(NextHead(r), file)
<1> USE DEF IInv
<1>1. /\ base[r].count + 1 = Len(file) /\ base[r].count \in Nat
      /\ file[Len(file)].form = "whole" /\ file \in Seq(Chunk)
  BY DEF AppendsOwnTheEnd, EndIsOurs, TypeOK, TraceHead
<1>2. file # <<>> /\ EventCount(file) = Len(file)
  BY <1>1 DEF EventCount
<1>3. SizeOf(file) = <<Len(file), "whole">>
  BY <1>1, <1>2 DEF SizeOf
<1>4. NextHead(r) \in TraceHead
  BY <1>1, ReadingTypes DEF NextHead, TraceHead
<1>5. Describes(NextHead(r), file)
  BY <1>1, <1>3 DEF Describes, NextHead
<1> QED BY <1>1, <1>2, <1>4, <1>5

LEMMA SyncPreserves ==
    ASSUME IInv, NEW r \in Recorder, Sync(r)
    PROVE  IInv'
<1> USE DEF IInv
<1>1. /\ pc[r] = "sync" /\ synced' = Len(file)
      /\ cache' = [cache EXCEPT ![r] = NextHead(r)]
      /\ UNCHANGED <<created, file, head, heads, minted>>
  BY DEF Sync, stored
<1>2. /\ base[r].count + 1 = Len(file) /\ EventCount(file) = Len(file)
      /\ NextHead(r) \in TraceHead /\ Describes(NextHead(r), file)
  BY <1>1, NextHeadDescribes
<1>3. /\ file \in Seq(Chunk) /\ synced' \in 0 .. Len(file')
      /\ cache' \in [Recorder -> TraceHead]
  BY <1>1, <1>2 DEF TypeOK
<1>4. TraceBegins' /\ ChainIsValid' /\ OnlyTheLastIsTorn'
  BY <1>1 DEF TraceBegins, ChainIsValid, OnlyTheLastIsTorn, HashBefore
<1>5. CachesDescribe'
  BY <1>1, <1>2 DEF CachesDescribe, Describes, HashBefore, TypeOK
<1>6. CASE /\ pc' = [pc EXCEPT ![r] = "checkpoint"]
           /\ UNCHANGED <<lock, base, acked>>
  <2>1. TypeOK'
    BY <1>1, <1>3, <1>6 DEF TypeOK, Steps
  <2>2. LockIsHeld' /\ \A q \in Recorder : q # r => pc'[q] = "idle"
    BY <1>1, <1>6 DEF LockIsHeld, TypeOK
  <2>3. AppendsOwnTheEnd'
    BY <1>1, <1>2, <1>6, <2>2 DEF AppendsOwnTheEnd, EndIsOurs, TypeOK
  <2>4. AcknowledgedIsSynced'
    BY <1>1, <1>2, <1>6 DEF AcknowledgedIsSynced, EventCount
  <2> QED BY <1>4, <1>5, <2>1, <2>2, <2>3, <2>4
<1>7. CASE Return(r)
  <2>1. acked' = Len(file) /\ acked' \in Nat /\ Release(r)
    BY <1>2, <1>3, <1>7 DEF Return
  <2>2. TypeOK' /\ LockIsHeld' /\ AppendsOwnTheEnd'
    BY <1>1, <1>3, <2>1, ReleasePreserves, IdleOwnsNothing DEF TypeOK
  <2>3. AcknowledgedIsSynced'
    BY <1>1, <1>2, <1>3, <2>1 DEF AcknowledgedIsSynced, EventCount
  <2> QED BY <1>4, <1>5, <2>2, <2>3
<1> QED BY <1>6, <1>7 DEF Sync

LEMMA CheckpointPreserves ==
    ASSUME IInv, NEW r \in Recorder, Checkpoint(r)
    PROVE  IInv'
<1> USE DEF IInv
<1>1. /\ pc[r] = "checkpoint" /\ Release(r)
      /\ acked' = base[r].count + 1
      /\ head' = cache[r] /\ heads' = heads \union {cache[r]}
      /\ UNCHANGED <<created, file, synced, cache, minted>>
  BY DEF Checkpoint, ReplaceHead, Return, disk
<1>2. /\ acked' = Len(file) /\ synced = Len(file) /\ acked' \in Nat
      /\ file[Len(file)].form = "whole"
  BY <1>1 DEF AppendsOwnTheEnd, EndIsOurs, TypeOK
<1>3. head' \in TraceHead /\ heads' \subseteq TraceHead
  BY <1>1 DEF TypeOK
<1>4. TypeOK' /\ LockIsHeld' /\ AppendsOwnTheEnd'
  BY <1>1, <1>2, <1>3, ReleasePreserves, IdleOwnsNothing DEF TypeOK
<1>5. TraceBegins' /\ ChainIsValid' /\ OnlyTheLastIsTorn' /\ CachesDescribe'
  BY <1>1 DEF TraceBegins, ChainIsValid, OnlyTheLastIsTorn, CachesDescribe, Describes, HashBefore
<1>6. AcknowledgedIsSynced'
  BY <1>1, <1>2 DEF AcknowledgedIsSynced, EventCount
<1> QED BY <1>4, <1>5, <1>6

LEMMA FailPreserves ==
    ASSUME IInv, NEW r \in Recorder, Fail(r)
    PROVE  IInv'
<1> USE DEF IInv
<1>1. /\ pc[r] # "idle" /\ Release(r)
      /\ UNCHANGED <<created, file, synced, head, heads, cache, minted, acked>>
  BY DEF Fail, disk, stored
<1>2. TypeOK' /\ LockIsHeld' /\ AppendsOwnTheEnd'
  BY <1>1, ReleasePreserves, IdleOwnsNothing DEF TypeOK
<1>3. TraceBegins' /\ ChainIsValid' /\ OnlyTheLastIsTorn' /\ CachesDescribe' /\ AcknowledgedIsSynced'
  BY <1>1 DEF TraceBegins, ChainIsValid, OnlyTheLastIsTorn, CachesDescribe, Describes,
              HashBefore, AcknowledgedIsSynced, EventCount
<1> QED BY <1>2, <1>3

LEMMA DiePreserves ==
    ASSUME IInv, NEW r \in Recorder, Die(r)
    PROVE  IInv'
<1> USE DEF IInv
<1>1. /\ lock' = IF lock = r THEN Nobody ELSE lock
      /\ pc' = [pc EXCEPT ![r] = "idle"]
      /\ base' = [base EXCEPT ![r] = EmptyHead]
      /\ cache' = [cache EXCEPT ![r] = NoHead]
      /\ UNCHANGED <<created, file, synced, head, heads, minted, acked>>
  BY DEF Die, disk, stored
<1>2. TypeOK'
  BY <1>1, ConstantHeads DEF TypeOK, Steps
<1>3. LockIsHeld'
  BY <1>1, StoreAssumption DEF LockIsHeld, TypeOK
<1>4. TraceBegins' /\ ChainIsValid' /\ OnlyTheLastIsTorn' /\ CachesDescribe' /\ AcknowledgedIsSynced'
  BY <1>1 DEF TraceBegins, ChainIsValid, OnlyTheLastIsTorn, CachesDescribe, Describes,
              HashBefore, AcknowledgedIsSynced, EventCount, TypeOK
<1>5. AppendsOwnTheEnd'
  BY <1>1 DEF AppendsOwnTheEnd, EndIsOurs, HashBefore, EventCount, TypeOK
<1> QED BY <1>2, <1>3, <1>4, <1>5

\* What a machine crash leaves of the file: a prefix with the durable part
\* in it, its last chunk perhaps cut.
LEMMA WhatRemains ==
    ASSUME IInv, MachineStops
    PROVE  /\ file' \in Seq(Chunk) /\ Len(file') \in synced .. Len(file)
           /\ \A i \in 1 .. Len(file') : file'[i].event = file[i].event
           /\ \A i \in 1 .. Len(file') : i # Len(file') => file'[i] = file[i]
           /\ EventCount(file') \in Nat
           /\ acked <= EventCount(file') /\ EventCount(file') <= EventCount(file)
<1> USE DEF IInv
<1>1. /\ file \in Seq(Chunk) /\ synced \in 0 .. Len(file) /\ acked \in Nat
      /\ acked <= synced /\ acked <= EventCount(file)
  BY DEF TypeOK, AcknowledgedIsSynced
<1>2. file' \in Remains(file, synced)
  BY DEF MachineStops
<1>3. CASE \E k \in synced .. Len(file) : file' = SubSeq(file, 1, k)
  <2>1. PICK k \in synced .. Len(file) : file' = SubSeq(file, 1, k)
    BY <1>3
  <2>2. /\ file' \in Seq(Chunk) /\ Len(file') = k
        /\ \A i \in 1 .. k : file'[i] = file[i]
    BY <1>1, <2>1
  <2>3. CASE k = Len(file)
    <3>1. EventCount(file') = EventCount(file)
      BY <1>1, <2>2, <2>3 DEF EventCount
    <3> QED BY <1>1, <2>2, <2>3, <3>1, ReadingTypes
  <2>4. CASE k # Len(file)
    <3>1. k # 0 => file[k].form # "torn"
      BY <1>1, <2>4 DEF OnlyTheLastIsTorn
    <3>2. EventCount(file') = k
      BY <1>1, <2>2, <3>1 DEF EventCount
    <3>3. k <= EventCount(file)
      BY <1>1, <2>4 DEF EventCount
    <3> QED BY <1>1, <2>2, <3>2, <3>3
  <2> QED BY <2>3, <2>4
<1>4. CASE \E k \in (synced + 1) .. Len(file) : \E form \in CutForms(file[k].form) :
              file' = [SubSeq(file, 1, k) EXCEPT ![k].form = form]
  <2>0. PICK k \in (synced + 1) .. Len(file) : \E form \in CutForms(file[k].form) :
              file' = [SubSeq(file, 1, k) EXCEPT ![k].form = form]
    BY <1>4
  <2>1. PICK form \in CutForms(file[k].form) :
              file' = [SubSeq(file, 1, k) EXCEPT ![k].form = form]
    BY <2>0
  <2> DEFINE f == SubSeq(file, 1, k)
             c == [file[k] EXCEPT !.form = form]
  <2>2. /\ k \in 1 .. Len(file) /\ k \in Nat /\ file[k] \in Chunk
        /\ f \in Seq(Chunk) /\ Len(f) = k
        /\ \A i \in 1 .. k : f[i] = file[i]
    BY <1>1
  <2>3. form \in Forms /\ (form # "torn" => file[k].form # "torn")
    BY DEF CutForms, Forms
  <2>4. c \in Chunk /\ c.event = file[k].event /\ c.form = form
    BY <2>2, <2>3 DEF Chunk
  <2>5. file' = [f EXCEPT ![k] = c]
    <3>1. f[k] = file[k]
      BY <2>2
    <3>2. [f EXCEPT ![k].form = form] = [f EXCEPT ![k] = [f[k] EXCEPT !.form = form]]
      OBVIOUS
    <3> QED BY ONLY <2>1, <3>1, <3>2
  <2> HIDE DEF f, c
  <2>6. /\ file' \in Seq(Chunk) /\ Len(file') = k /\ file' # <<>>
        /\ file'[k] = c
        /\ \A i \in 1 .. k : i # k => file'[i] = file[i]
    BY <2>2, <2>4, <2>5
  <2>7. \A i \in 1 .. k : file'[i].event = file[i].event
    BY <2>4, <2>6
  <2>8. EventCount(file') = IF form = "torn" THEN k - 1 ELSE k
    BY <2>4, <2>6 DEF EventCount
  <2>9. k - 1 <= EventCount(file) /\ (form # "torn" => k <= EventCount(file))
    BY <1>1, <2>2, <2>3 DEF EventCount
  <2> QED BY <1>1, <2>2, <2>6, <2>7, <2>8, <2>9
<1> QED BY <1>2, <1>3, <1>4 DEF Remains

LEMMA MachineStopsPreserves ==
    ASSUME IInv, MachineStops
    PROVE  IInv'
<1> USE DEF IInv
<1>1. /\ file' \in Seq(Chunk) /\ Len(file') \in synced .. Len(file)
      /\ \A i \in 1 .. Len(file') : file'[i].event = file[i].event
      /\ \A i \in 1 .. Len(file') : i # Len(file') => file'[i] = file[i]
      /\ acked <= EventCount(file')
  BY WhatRemains
<1>2. /\ synced' = Len(file') /\ created' \in BOOLEAN
      /\ ~created' => file' = <<>>
      /\ head' \in heads /\ lock' = Nobody
      /\ pc' = [q \in Recorder |-> "idle"]
      /\ base' = [q \in Recorder |-> EmptyHead]
      /\ cache' = [q \in Recorder |-> NoHead]
      /\ UNCHANGED <<heads, minted, acked>>
  BY DEF MachineStops, TypeOK
<1>3. /\ file \in Seq(Chunk) /\ synced \in 0 .. Len(file)
  BY DEF TypeOK
<1>4. TypeOK'
  <2>1. /\ pc' \in [Recorder -> Steps]
        /\ base' \in [Recorder -> TraceHead]
        /\ cache' \in [Recorder -> TraceHead]
    BY <1>2, ConstantHeads DEF Steps
  <2>2. synced' \in 0 .. Len(file')
    BY <1>1, <1>2, <1>3
  <2> QED BY <1>1, <1>2, <2>1, <2>2 DEF TypeOK
<1>5. LockIsHeld' /\ TraceBegins'
  BY <1>2, StoreAssumption DEF LockIsHeld, TraceBegins
<1>6. ChainIsValid'
  <2> SUFFICES ASSUME NEW i \in 1 .. Len(file')
               PROVE  /\ file'[i].event.number = i
                      /\ file'[i].event.previous = HashBefore(file', i)
    BY <1>1 DEF ChainIsValid
  <2>1. /\ file[i].event.number = i
        /\ file[i].event.previous = HashBefore(file, i)
    BY <1>1, <1>3 DEF ChainIsValid
  <2>2. i # 1 => i - 1 \in 1 .. Len(file')
    BY <1>1, <1>3
  <2>3. HashBefore(file', i) = HashBefore(file, i)
    BY <1>1, <2>2 DEF HashBefore
  <2> QED BY <1>1, <2>1, <2>3
<1>7. OnlyTheLastIsTorn'
  <2> SUFFICES ASSUME NEW i \in 1 .. Len(file'), i # Len(file')
               PROVE  file'[i].form # "torn"
    BY <1>1 DEF OnlyTheLastIsTorn
  <2>1. file'[i] = file[i] /\ i \in 1 .. Len(file) /\ i # Len(file)
    BY <1>1, <1>3
  <2> QED BY <1>3, <2>1 DEF OnlyTheLastIsTorn
<1>8. CachesDescribe' /\ AppendsOwnTheEnd'
  BY <1>2 DEF CachesDescribe, AppendsOwnTheEnd, EndIsOurs
<1>9. AcknowledgedIsSynced'
  <2>1. acked <= Len(file')
    BY <1>1, <1>3 DEF AcknowledgedIsSynced, TypeOK
  <2> QED BY <1>1, <1>2, <2>1 DEF AcknowledgedIsSynced
<1> QED BY <1>4, <1>5, <1>6, <1>7, <1>8, <1>9

LEMMA StutterPreserves ==
    ASSUME IInv, UNCHANGED vars
    PROVE  IInv'
BY DEF IInv, vars, disk, stored, locals, TypeOK, LockIsHeld, TraceBegins, ChainIsValid,
       OnlyTheLastIsTorn, CachesDescribe, Describes, AppendsOwnTheEnd, EndIsOurs,
       AcknowledgedIsSynced, EventCount, HashBefore

\* Type correctness, one chain, and the facts they rest on.
THEOREM StoreInvariant == Spec => []IInv
<1>1. IInv /\ [Next]_vars => IInv'
  BY MachineStopsPreserves, AcquirePreserves, LoadHeadPreserves, WriteEventPreserves,
     WriteNewlinePreserves, SyncPreserves, CheckpointPreserves, FailPreserves,
     DiePreserves, StutterPreserves DEF Next
<1> QED BY InitEstablishes, <1>1, PTL DEF Spec

\* Whichever recorders write the trace and whatever crashes between, its
\* events are numbered without gaps and linked.
THEOREM ChainStaysValid == Spec => []ChainIsValid
BY StoreInvariant, PTL DEF IInv

\* Every reachable state has the stated types.
THEOREM StoreTypes == Spec => []TypeOK
BY StoreInvariant, PTL DEF IInv

----------------------------------------------------------------------------
(* The store implements AppendLog *)

LogOf(f) == [i \in 1 .. EventCount(f) |-> f[i].event.hash]

LEMMA LogTypes ==
    ASSUME NEW f \in Seq(Chunk)
    PROVE  LogOf(f) \in Seq(Hash) /\ Len(LogOf(f)) = EventCount(f)
<1>1. EventCount(f) \in Nat /\ EventCount(f) <= Len(f)
  BY ReadingTypes
<1>2. \A i \in 1 .. EventCount(f) : f[i].event.hash \in Hash
  <2>1. \A i \in 1 .. EventCount(f) : f[i] \in Chunk
    BY <1>1
  <2> QED BY <2>1 DEF Chunk, Event
<1> QED BY <1>1, <1>2 DEF LogOf

\* A whole or open chunk extends the log by its event; a torn one does not.
LEMMA WriteExtendsLog ==
    ASSUME IInv, NEW r \in Recorder, WriteEvent(r)
    PROVE  \/ \E event \in Hash : LogOf(file') = Append(LogOf(file), event)
           \/ LogOf(file') = LogOf(file)
<1> USE DEF IInv
<1>1. /\ file \in Seq(Chunk) /\ EventCount(file) = Len(file) /\ Len(file) \in Nat
      /\ minted + 1 \in Hash /\ IInv'
  BY WriteEventPreserves, StoreAssumption
  DEF WriteEvent, AppendsOwnTheEnd, EndIsOurs, TypeOK, Hash
<1>2. ASSUME NEW form \in Forms, file' = Append(file, [event |-> NewEvent(r), form |-> form])
      PROVE  \/ LogOf(file') = Append(LogOf(file), minted + 1)
             \/ LogOf(file') = LogOf(file)
  <2>1. /\ file' \in Seq(Chunk)
    BY <1>1 DEF TypeOK
  <2>2. /\ Len(file') = Len(file) + 1 /\ file' # <<>>
        /\ file'[Len(file) + 1] = [event |-> NewEvent(r), form |-> form]
        /\ \A i \in 1 .. Len(file) : file'[i] = file[i]
    BY <1>1, <1>2
  <2>3. file'[Len(file')].form = form /\ file'[Len(file) + 1].event.hash = minted + 1
    BY <2>2 DEF NewEvent
  <2>4. CASE form = "torn"
    <3>1. EventCount(file') = Len(file)
      BY <1>1, <2>2, <2>3, <2>4 DEF EventCount
    <3> QED BY <1>1, <2>2, <3>1 DEF LogOf
  <2>5. CASE form # "torn"
    <3>1. EventCount(file') = Len(file) + 1
      BY <2>2, <2>3, <2>5 DEF EventCount
    <3>2. LogOf(file) \in Seq(Hash) /\ Len(LogOf(file)) = Len(file)
      BY <1>1, LogTypes
    <3>3. LogOf(file') \in Seq(Hash) /\ Len(LogOf(file')) = Len(file) + 1
      BY <2>1, <3>1, LogTypes
    <3>4. \A i \in 1 .. Len(file) + 1 : LogOf(file')[i] = Append(LogOf(file), minted + 1)[i]
      BY <1>1, <2>2, <2>3, <3>1, <3>2 DEF LogOf
    <3>5. Append(LogOf(file), minted + 1) \in Seq(Hash)
      BY <1>1, <3>2
    <3>6. LogOf(file') = Append(LogOf(file), minted + 1)
      BY <1>1, <3>2, <3>3, <3>4, <3>5
    <3> QED BY <3>6
  <2> QED BY <2>4, <2>5
<1> QED BY <1>1, <1>2 DEF WriteEvent, Forms

LEMMA NewlineKeepsLog ==
    ASSUME IInv, NEW r \in Recorder, WriteNewline(r)
    PROVE  LogOf(file') = LogOf(file)
BY NewlineKeeps DEF LogOf

LEMMA CrashCutsLog ==
    ASSUME IInv, MachineStops
    PROVE  \E kept \in acked .. EventCount(file) : LogOf(file') = SubSeq(LogOf(file), 1, kept)
<1> USE DEF IInv
<1>1. /\ file' \in Seq(Chunk) /\ Len(file') \in synced .. Len(file)
      /\ \A i \in 1 .. Len(file') : file'[i].event = file[i].event
      /\ EventCount(file') \in Nat
      /\ acked <= EventCount(file') /\ EventCount(file') <= EventCount(file)
  BY WhatRemains
<1>2. file \in Seq(Chunk) /\ acked \in Nat
  BY DEF TypeOK
<1>3. EventCount(file) \in Nat /\ EventCount(file') <= Len(file')
  BY <1>1, <1>2, ReadingTypes
<1>4. LogOf(file) \in Seq(Hash) /\ Len(LogOf(file)) = EventCount(file)
  BY <1>2, LogTypes
<1>5. /\ SubSeq(LogOf(file), 1, EventCount(file')) \in Seq(Hash)
      /\ Len(SubSeq(LogOf(file), 1, EventCount(file'))) = EventCount(file')
      /\ \A i \in 1 .. EventCount(file') :
            SubSeq(LogOf(file), 1, EventCount(file'))[i] = LogOf(file)[i]
  BY <1>1, <1>3, <1>4
<1>6. LogOf(file') \in Seq(Hash) /\ Len(LogOf(file')) = EventCount(file')
  BY <1>1, LogTypes
<1>7. \A i \in 1 .. EventCount(file') : LogOf(file')[i] = LogOf(file)[i]
  BY <1>1, <1>3 DEF LogOf
<1>8. LogOf(file') = SubSeq(LogOf(file), 1, EventCount(file'))
  BY <1>1, <1>5, <1>6, <1>7
<1> QED BY <1>1, <1>2, <1>3, <1>8

\* An append that returns promises everything up to its event.
LEMMA ReturnAcknowledges ==
    ASSUME IInv, NEW r \in Recorder, Sync(r) \/ Checkpoint(r)
    PROVE  /\ UNCHANGED file
           /\ acked' \in acked .. EventCount(file)
<1> USE DEF IInv
<1>1. UNCHANGED file /\ IInv' /\ acked \in Nat /\ acked <= EventCount(file)
  BY SyncPreserves, CheckpointPreserves DEF Sync, Checkpoint, disk, TypeOK, AcknowledgedIsSynced
<1>2. acked' \in Nat /\ acked' <= EventCount(file)
  BY <1>1 DEF TypeOK, AcknowledgedIsSynced, EventCount
<1>3. /\ base[r].count + 1 = Len(file)
      /\ acked' = acked \/ acked' = base[r].count + 1
  BY DEF Sync, Checkpoint, Return, AppendsOwnTheEnd, EndIsOurs
<1>4. EventCount(file) \in Nat /\ EventCount(file) <= Len(file)
  BY ReadingTypes DEF TypeOK
<1> QED BY <1>1, <1>2, <1>3, <1>4

\* Every step extends the log, acknowledges, loses what was not
\* acknowledged, or does nothing to it.
LEMMA StepImplements ==
    ASSUME IInv, [Next]_vars
    PROVE  [Log!Next]_(Log!vars)
<1> USE DEF IInv
<1>1. Len(LogOf(file)) = EventCount(file)
  BY LogTypes DEF TypeOK
<1>2. ASSUME LogOf(file') = LogOf(file), acked' = acked
      PROVE  UNCHANGED Log!vars
  BY <1>2 DEF Log!vars, LogOf
<1>3. CASE MachineStops
  <2>1. acked' = acked
    BY <1>3 DEF MachineStops
  <2>2. \E kept \in acked .. Len(LogOf(file)) : LogOf(file') = SubSeq(LogOf(file), 1, kept)
    BY <1>1, <1>3, CrashCutsLog
  <2>3. Log!Lose
    BY <2>1, <2>2 DEF Log!Lose, LogOf
  <2> QED BY <2>3 DEF Log!Next
<1>4. ASSUME NEW r \in Recorder,
             Acquire(r) \/ LoadHead(r) \/ Fail(r) \/ Die(r)
      PROVE  UNCHANGED Log!vars
  <2>1. file' = file /\ acked' = acked
    BY <1>4 DEF Acquire, LoadHead, StartTrace, UseCachedHead, UseStoredHead, RebuildHead,
                BuildOn, Fail, Die, disk
  <2> QED BY <1>2, <2>1
<1>5. ASSUME NEW r \in Recorder, WriteEvent(r)
      PROVE  [Log!Next]_(Log!vars)
  <2>1. acked' = acked
    BY <1>5 DEF WriteEvent
  <2>2. CASE LogOf(file') = LogOf(file)
    BY <1>2, <2>1, <2>2
  <2>3. CASE \E event \in Hash : LogOf(file') = Append(LogOf(file), event)
    <3>1. Log!Extend
      BY <2>1, <2>3 DEF Log!Extend, LogOf
    <3> QED BY <3>1 DEF Log!Next
  <2> QED BY <1>5, <2>2, <2>3, WriteExtendsLog
<1>6. ASSUME NEW r \in Recorder, WriteNewline(r)
      PROVE  UNCHANGED Log!vars
  BY <1>2, <1>6, NewlineKeepsLog DEF WriteNewline
<1>7. ASSUME NEW r \in Recorder, Sync(r) \/ Checkpoint(r)
      PROVE  [Log!Next]_(Log!vars)
  <2>1. UNCHANGED file /\ acked' \in acked .. Len(LogOf(file))
    BY <1>1, <1>7, ReturnAcknowledges
  <2>2. LogOf(file') = LogOf(file)
    BY <2>1
  <2>3. Log!Acknowledge
    BY <2>1, <2>2 DEF Log!Acknowledge, LogOf
  <2> QED BY <2>3 DEF Log!Next
<1>8. CASE UNCHANGED vars
  <2>1. file' = file /\ acked' = acked
    BY <1>8 DEF vars, disk
  <2> QED BY <1>2, <2>1
<1> QED BY <1>3, <1>4, <1>5, <1>6, <1>7, <1>8 DEF Next

\* What an append returned is never lost, whatever crashes later.
THEOREM AcknowledgedIsKept == Spec => KeepsAcknowledged
<1>1. Init => Log!Init
  BY DEF Init, Log!Init, EventCount
<1> QED BY <1>1, StepImplements, StoreInvariant, PTL DEF Spec, KeepsAcknowledged, Log!Spec

----------------------------------------------------------------------------
(* As long as no two events share a line *)

\* A file whose last chunk is not torn is then one that verification accepts.
LEMMA UntornIsVerified ==
    ASSUME IInv, ~LinesAreJoined, file # <<>> => file[Len(file)].form # "torn"
    PROVE  Verified(file)
<1>1. /\ file \in Seq(Chunk) /\ Len(file) \in Nat
      /\ \A i \in DOMAIN file : i \in 1 .. Len(file) /\ file[i].form \in Forms
  <2>1. file \in Seq(Chunk) /\ \A i \in DOMAIN file : file[i] \in Chunk
    BY DEF IInv, TypeOK
  <2> QED BY <2>1 DEF Chunk
<1>2. Readable(file)
  BY <1>1 DEF IInv, LinesAreJoined, OnlyTheLastIsTorn, Readable, Forms
<1>3. Linked(file)
  BY DEF IInv, ChainIsValid, Linked
<1> QED BY <1>2, <1>3 DEF Verified

\* The checks of a stored and of a cached head are as good as verification.
THEOREM HeadsAreTrue == Spec => []AcceptedHeadsAreTrue
<1>1. IInv => AcceptedHeadsAreTrue
  <2> SUFFICES ASSUME IInv, ~LinesAreJoined
               PROVE  /\ \A h \in heads : StoredHeadApplies(h) => Verified(file) /\ h = HeadOf(file)
                      /\ \A r \in Recorder :
                            CacheApplies(r) => Verified(file) /\ cache[r] = HeadOf(file)
    BY DEF AcceptedHeadsAreTrue
  <2> USE DEF IInv, TypeOK
  <2>1. ASSUME NEW h \in heads, StoredHeadApplies(h)
        PROVE  Verified(file) /\ h = HeadOf(file)
    <3>1. /\ h \in TraceHead /\ h.size = SizeOf(file) /\ HeadMatchesTrace(h, file)
          /\ h.count > 0 => LastLineParses(file)
      BY <2>1 DEF StoredHeadApplies, HeadMatchesTrace
    <3>2. CASE h.count = 0
      <4>1. file = <<>> /\ h.hash = NoHash
        BY <3>1, <3>2 DEF HeadMatchesTrace
      <4>2. Verified(file)
        BY <4>1, UntornIsVerified
      <4> QED BY <3>1, <3>2, <4>1, <4>2 DEF HeadOf, HashBefore, TraceHead
    <3>3. CASE h.count # 0
      <4>1. /\ file # <<>> /\ file[Len(file)].event.hash = h.hash
            /\ file[Len(file)].event.number = h.count
            /\ file[Len(file)].form # "torn"
        BY <3>1, <3>3 DEF HeadMatchesTrace, LastLineParses, TraceHead
      <4>2. Len(file) \in DOMAIN file /\ h.count = Len(file)
        BY <4>1 DEF ChainIsValid
      <4>3. HashBefore(file, Len(file) + 1) = h.hash
        BY <4>1, <4>2 DEF HashBefore
      <4>4. Verified(file)
        BY <4>1, UntornIsVerified
      <4> QED BY <3>1, <4>2, <4>3, <4>4 DEF HeadOf, TraceHead
    <3> QED BY <3>2, <3>3
  <2>2. ASSUME NEW r \in Recorder, CacheApplies(r)
        PROVE  Verified(file) /\ cache[r] = HeadOf(file)
    <3>1. /\ cache[r] \in TraceHead /\ cache[r].size = SizeOf(file)
          /\ Describes(cache[r], file)
      BY <2>2 DEF CacheApplies, CachedHeadMatchesTrace, CachesDescribe
    <3>2. cache[r].count = Len(file) /\ (file # <<>> => file[Len(file)].form # "torn")
      BY <3>1 DEF Describes, SizeOf
    <3>3. Verified(file)
      BY <3>2, UntornIsVerified
    <3> QED BY <3>1, <3>2, <3>3 DEF HeadOf, TraceHead, Describes
  <2> QED BY <2>1, <2>2
<1> QED BY <1>1, StoreInvariant, PTL

\* An event is added only to a trace that verification accepts, or to one
\* in which two events share a line already.
THEOREM AppendsAreGuarded == Spec => OnlyJoinedLinesPass
<1>1. IInv /\ [Next]_vars => (Len(file') > Len(file) => Verified(file) \/ LinesAreJoined)
  <2> SUFFICES ASSUME IInv, ~LinesAreJoined, [Next]_vars, Len(file') > Len(file)
               PROVE  Verified(file)
    OBVIOUS
  <2>1. file \in Seq(Chunk) /\ Len(file) \in Nat /\ synced \in Nat
    BY DEF IInv, TypeOK
  <2>2. CASE MachineStops
    BY <2>1, <2>2, WhatRemains
  <2>3. ASSUME NEW r \in Recorder, WriteEvent(r)
        PROVE  Verified(file)
    <3>1. EventCount(file) = Len(file)
      BY <2>3 DEF WriteEvent, IInv, AppendsOwnTheEnd, EndIsOurs
    <3>2. file # <<>> => file[Len(file)].form # "torn"
      BY <2>1, <3>1 DEF EventCount
    <3> QED BY <3>2, UntornIsVerified
  <2>4. ASSUME NEW r \in Recorder, WriteNewline(r)
        PROVE  Verified(file)
    BY <2>1, <2>4, NewlineKeeps
  <2>5. ASSUME NEW r \in Recorder,
               \/ Acquire(r) \/ LoadHead(r) \/ Sync(r) \/ Checkpoint(r)
               \/ Fail(r) \/ Die(r)
        PROVE  FALSE
    <3>1. file' = file
      BY <2>5 DEF Acquire, LoadHead, StartTrace, UseCachedHead, UseStoredHead, RebuildHead,
                  BuildOn, Sync, Checkpoint, Fail, Die, disk
    <3> QED BY <2>1, <3>1
  <2>6. CASE UNCHANGED vars
    BY <2>1, <2>6 DEF vars, disk
  <2> QED BY <2>2, <2>3, <2>4, <2>5, <2>6 DEF Next
<1> QED BY <1>1, StoreInvariant, PTL DEF Spec, OnlyJoinedLinesPass
============================================================================
