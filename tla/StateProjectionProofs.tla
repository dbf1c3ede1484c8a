----------------------- MODULE StateProjectionProofs -----------------------
(***************************************************************************)
(* Theorems about StateProjection, for any calls, traces, processes and    *)
(* numbers of faults and rebuilds: complete tables are true, interleaving  *)
(* alone loses no event, and a projection refuses an event only with cause.*)
(***************************************************************************)
EXTENDS StateProjection, SequenceTheorems, TLAPS

----------------------------------------------------------------------------
(* Rows and events *)

LEMMA EventKinds ==
    ASSUME NEW e \in Event
    PROVE  \/ e.about = "session" /\ e.status \in SessionStatuses
           \/ e.about = "call" /\ e.status \in CallStatuses /\ e.id \in Call
           \/ e.about = "approval" /\ e.status \in ApprovalStatuses /\ e.id \in Call
BY DEF Event, SessionEvents, CallEvents, ApprovalEvents

LEMMA NoRowsType == NoRows \in Tables
BY DEF NoRows, Tables

LEMMA ProjectedType ==
    ASSUME NEW rows \in Tables, NEW e \in Event
    PROVE  Projected(rows, e) \in Tables
<1>1. CASE e.about = "session" /\ e.status \in SessionStatuses
  BY <1>1 DEF Projected, Tables
<1>2. CASE e.about = "call" /\ e.status \in CallStatuses /\ e.id \in Call
  BY <1>2 DEF Projected, Tables
<1>3. CASE e.about = "approval" /\ e.status \in ApprovalStatuses /\ e.id \in Call
  BY <1>3 DEF Projected, Tables
<1> QED  BY <1>1, <1>2, <1>3, EventKinds

\* What may follow is accepted: the handler finds the rows it needs.
LEMMA FollowersAreAccepted ==
    ASSUME NEW rows \in Tables, NEW e \in Event, MayFollow(rows, e)
    PROVE  Readable(rows, e) /\ Fits(rows, e)
<1>1. CASE e.about = "session"
  BY <1>1, AbsentAssumption
     DEF MayFollow, Readable, Fits, Insertable, Matches, IsInsert, SessionMayBecome,
         SessionTransitions, SessionStatuses
<1>2. CASE e.about = "call"
  BY <1>2, AbsentAssumption
     DEF MayFollow, Readable, Fits, Insertable, Matches, IsInsert, CallMayBecome,
         CallTransitions, CallStatuses
<1>3. CASE e.about = "approval"
  BY <1>3, AbsentAssumption
     DEF MayFollow, Readable, Fits, Insertable, Matches, IsInsert, CallStatuses
<1> QED  BY <1>1, <1>2, <1>3, EventKinds

LEMMA RowsType ==
    ASSUME NEW t \in Seq(Entry), NEW n \in 0 .. Len(t)
    PROVE  Rows(t, n) \in Tables
<1>1. CASE n = 0
  BY <1>1, NoRowsType DEF Rows
<1>2. CASE n # 0
  <2>1. t[n] \in Entry
    BY <1>2
  <2> QED  BY <1>2, <2>1 DEF Rows, Entry
<1> QED  BY <1>1, <1>2

\* An append leaves the rows of the earlier events as they are.
LEMMA AppendKeepsRows ==
    ASSUME NEW t \in Seq(Entry), NEW entry \in Entry, NEW n \in 0 .. Len(t)
    PROVE  Rows(Append(t, entry), n) = Rows(t, n)
BY DEF Rows

LEMMA AppendIsWellFormed ==
    ASSUME NEW t \in Seq(Entry), WellFormed(t), NEW e \in Event, MayFollow(After(t), e)
    PROVE  LET entry == [event |-> e, tables |-> Projected(After(t), e)]
           IN  entry \in Entry /\ WellFormed(Append(t, entry))
<1> DEFINE entry == [event |-> e, tables |-> Projected(After(t), e)]
           new == Append(t, entry)
<1>1. entry \in Entry
  <2>1. After(t) \in Tables
    BY RowsType DEF After
  <2>2. Projected(After(t), e) \in Tables
    BY <2>1, ProjectedType
  <2> QED  BY <2>2 DEF Entry
<1>2. Len(new) = Len(t) + 1 /\ DOMAIN new = 1 .. Len(t) + 1
  BY <1>1
<1>3. ASSUME NEW k \in DOMAIN new
      PROVE  /\ MayFollow(Rows(new, k - 1), new[k].event)
             /\ new[k].tables = Projected(Rows(new, k - 1), new[k].event)
  <2>1. Rows(new, k - 1) = Rows(t, k - 1)
    BY <1>1, <1>2, AppendKeepsRows
  <2>2. CASE k = Len(t) + 1
    BY <2>1, <2>2, <1>1 DEF After
  <2>3. CASE k # Len(t) + 1
    BY <2>1, <2>3, <1>1, <1>2 DEF WellFormed
  <2> QED  BY <2>2, <2>3
<1> HIDE DEF new, entry
<1> QED  BY <1>1, <1>3 DEF WellFormed, new, entry

----------------------------------------------------------------------------
(* The inductive invariant *)

\* Who decides, cancels or resumes holds the lock from its acquisition on.
LockIsHeld ==
    \A p \in Locked : proc[p].step \notin {"idle", "acquiring"} => lock = p

\* What a process projects is in the trace, and so is what a rebuild has read.
HandsAreReal ==
    \A p \in Process :
        /\ proc[p].seen <= Len(trace)
        /\ p \in Rebuilder => proc[p].step \in {"idle", "rebuilding"} /\ proc[p].event = 0
        /\ Holds(p) /\ p \notin Rebuilder => proc[p].event \in DOMAIN trace

\* An event that somebody still holds and that is not in the tables is the
\* last one: whoever appended another has repaired the rows before.
OnlyTheLastIsOut ==
    ~stale => \A p \in Process \ Rebuilder :
                 Holds(p) /\ proc[p].event \notin applied => proc[p].event = Len(trace)

\* Behind a repair the others hold nothing that is not in the tables.
RepairedBehindTheLock ==
    ~stale => \A p \in Locked, q \in Process \ Rebuilder :
                 /\ proc[p].step \notin {"idle", "acquiring", "locked", "preparing"}
                 /\ p # q /\ Holds(q)
                 => proc[q].event \in applied

IInv ==
    /\ TypeOK
    /\ WellFormed(trace)
    /\ LockIsHeld
    /\ HandsAreReal
    /\ OnlyTheLastIsOut
    /\ RepairedBehindTheLock
    /\ CompleteTablesAreTrue
    /\ TablesFollowTheTrace

LEMMA InitHolds == Init => IInv
<1> SUFFICES ASSUME Init PROVE IInv
  OBVIOUS
<1> USE ProjectionAssumption
<1>1. trace \in Seq(Entry) /\ WellFormed(trace)
  BY DEF Init
<1>3. \A p \in Process :
          /\ proc[p].step = IF p \in Live THEN "serving" ELSE "idle"
          /\ proc[p].event = 0 /\ proc[p].seen = 0
  BY DEF Init, At
<1>2. TypeOK
  <2>1. tables \in Tables
    BY <1>1, RowsType DEF Init, After
  <2>2. proc \in [Process -> Proc]
    BY DEF Init, At, Proc, Steps
  <2>3. faults \in 0 .. MaxFaults /\ rebuilds \in 0 .. MaxRebuilds
    BY DEF Init
  <2>4. applied \subseteq DOMAIN trace
    BY Zenon DEF Init
  <2>5. lock \in Process \union {Nobody} /\ gap \in BOOLEAN /\ stale \in BOOLEAN
    BY DEF Init
  <2> QED  BY <1>1, <2>1, <2>2, <2>3, <2>4, <2>5 DEF TypeOK
<1>4. \A p \in Process : ~Holds(p) /\ proc[p].seen = 0
  BY <1>3 DEF Holds
<1>5. LockIsHeld
  BY <1>3 DEF LockIsHeld, Process
<1>6. HandsAreReal
  <2>1. Len(trace) \in Nat
    BY <1>1
  <2> QED  BY <1>3, <1>4, <2>1 DEF HandsAreReal, Process
<1>7. OnlyTheLastIsOut /\ RepairedBehindTheLock
  BY <1>4 DEF OnlyTheLastIsOut, RepairedBehindTheLock, Process
<1>8. CompleteTablesAreTrue
  <2> SUFFICES ASSUME NEW n \in 0 .. Len(trace), applied = 1 .. n
               PROVE  tables = Rows(trace, n)
    BY DEF CompleteTablesAreTrue
  <2>1. applied = 1 .. Len(trace)
    <3>1. DOMAIN trace = 1 .. Len(trace)
      BY <1>1
    <3> QED  BY <3>1, Zenon DEF Init
  <2>2. n = Len(trace)
    BY <2>1, <1>1
  <2> QED  BY <2>2 DEF Init, After
<1>9. TablesFollowTheTrace
  BY DEF TablesFollowTheTrace, Init
<1> QED  BY <1>1, <1>2, <1>5, <1>6, <1>7, <1>8, <1>9 DEF IInv

----------------------------------------------------------------------------
(* Its steps *)

Updated(process, step, event, seen) ==
    [process EXCEPT !.step = step, !.event = event, !.seen = seen]

LEMMA ProcUpdate ==
    ASSUME NEW process \in Proc, NEW step \in Steps, NEW event \in Nat, NEW seen \in Nat
    PROVE  /\ Updated(process, step, event, seen) \in Proc
           /\ Updated(process, step, event, seen).step = step
           /\ Updated(process, step, event, seen).event = event
           /\ Updated(process, step, event, seen).seen = seen
BY DEF Proc, Updated

LEMMA NotLess ==
    ASSUME NEW len \in Nat, NEW n \in 0 .. len, ~(n < len)
    PROVE  n = len
OBVIOUS

HoldingSteps == {"dedup", "check", "write", "fallback", "rebuilding"}
BeforeRepair == {"idle", "acquiring", "locked", "preparing"}

\* The steps of p that touch neither trace nor tables: p takes up no event,
\* and puts one down only if it is in the tables or a fault is noted.
LEMMA CalmStepPreserves ==
    ASSUME IInv,
           NEW p \in Process, NEW new \in Proc,
           proc' = [proc EXCEPT ![p] = new],
           UNCHANGED evidence,
           lock' \in Process \union {Nobody},
           faults' \in 0 .. MaxFaults, rebuilds' \in 0 .. MaxRebuilds,
           stale' = stale, gap' = gap \/ gap' = TRUE,
           p \in Locked /\ new.step \notin {"idle", "acquiring"} => lock' = p,
           \A q \in Locked : q # p /\ lock = q => lock' = q,
           new.seen <= Len(trace),
           p \in Rebuilder => new.step \in {"idle", "rebuilding"} /\ new.event = 0,
           new.step \in HoldingSteps /\ p \notin Rebuilder => Holds(p) /\ new.event = proc[p].event,
           p \in Locked /\ new.step \notin BeforeRepair => proc[p].step \notin BeforeRepair,
           Holds(p) /\ new.step \notin HoldingSteps /\ p \notin Rebuilder =>
               gap' = TRUE \/ stale \/ proc[p].event \in applied
    PROVE  IInv'
<1> USE ProjectionAssumption
<1>1. /\ proc \in [Process -> Proc]
      /\ proc'[p] = new
      /\ \A q \in Process : q # p => proc'[q] = proc[q]
  BY DEF IInv, TypeOK
<1>2. trace' = trace /\ tables' = tables /\ applied' = applied
  BY DEF evidence
<1>3. TypeOK'
  BY <1>1, <1>2 DEF IInv, TypeOK
<1>4. WellFormed(trace)'
  BY <1>2 DEF IInv
<1>5. LockIsHeld'
  BY <1>1 DEF IInv, LockIsHeld, Process
<1>6. \A q \in Process : Holds(q)' <=> (IF q = p THEN new.step \in HoldingSteps ELSE Holds(q))
  BY <1>1 DEF Holds, HoldingSteps
<1>7. HandsAreReal'
  BY <1>1, <1>2, <1>6 DEF IInv, HandsAreReal
<1>8. OnlyTheLastIsOut'
  BY <1>1, <1>2, <1>6 DEF IInv, OnlyTheLastIsOut
<1>9. RepairedBehindTheLock'
  <2> SUFFICES ASSUME ~stale, NEW h \in Locked, NEW q \in Process \ Rebuilder,
                      proc'[h].step \notin BeforeRepair, h # q, Holds(q)'
               PROVE  proc'[q].event \in applied
    BY <1>2 DEF RepairedBehindTheLock, BeforeRepair
  <2>1. proc[h].step \notin BeforeRepair
    BY <1>1 DEF Process
  <2>2. Holds(q) /\ proc'[q].event = proc[q].event
    BY <1>1, <1>6
  <2> QED  BY <2>1, <2>2 DEF IInv, RepairedBehindTheLock, BeforeRepair
<1>10. CompleteTablesAreTrue'
  BY <1>2 DEF IInv, CompleteTablesAreTrue
<1>11. TablesFollowTheTrace'
  <2> SUFFICES ASSUME ~gap', ~stale, NEW k \in DOMAIN trace, k \notin applied
               PROVE  k \in InHands'
    BY <1>2 DEF TablesFollowTheTrace
  <2>1. PICK q \in Process : Holds(q) /\ proc[q].event = k
    BY DEF IInv, TypeOK, TablesFollowTheTrace, InHands
  <2>2. q \notin Rebuilder
    BY <2>1 DEF IInv, TypeOK, HandsAreReal
  <2>3. Holds(q)' /\ proc'[q].event = k
    BY <2>1, <2>2, <1>1, <1>6
  <2> QED  BY <2>3 DEF InHands
<1> QED  BY <1>3, <1>4, <1>5, <1>7, <1>8, <1>9, <1>10, <1>11 DEF IInv

\* An event is accepted when just the earlier ones are in the tables...
LEMMA NextIsAccepted ==
    ASSUME IInv, ~stale, NEW p \in Process \ Rebuilder, Holds(p),
           applied = 1 .. (proc[p].event - 1)
    PROVE  Readable(tables, InHand(p)) /\ Fits(tables, InHand(p))
<1> DEFINE k == proc[p].event
<1>1. trace \in Seq(Entry) /\ WellFormed(trace) /\ tables \in Tables
  BY DEF IInv, TypeOK
<1>2. k \in DOMAIN trace /\ k \in 1 .. Len(trace)
  BY <1>1 DEF IInv, HandsAreReal
<1>3. tables = Rows(trace, k - 1)
  BY <1>2 DEF IInv, CompleteTablesAreTrue
<1>4. MayFollow(tables, trace[k].event)
  BY <1>1, <1>2, <1>3 DEF WellFormed
<1>5. trace[k] \in Entry
  BY <1>1, <1>2
<1>6. trace[k].event \in Event
  BY <1>5 DEF Entry
<1> QED  BY <1>1, <1>4, <1>6, FollowersAreAccepted DEF InHand

\* ...and while no fault has lost one, these are there.
LEMMA EarlierOnesAreThere ==
    ASSUME IInv, ~stale, ~gap, NEW p \in Process \ Rebuilder, Holds(p),
           proc[p].event \notin applied
    PROVE  applied = 1 .. (proc[p].event - 1)
<1> DEFINE k == proc[p].event
<1>1. applied \subseteq 1 .. Len(trace) /\ DOMAIN trace = 1 .. Len(trace) /\ Len(trace) \in Nat
  BY DEF IInv, TypeOK
<1>2. k = Len(trace)
  BY DEF IInv, OnlyTheLastIsOut
<1>3. ASSUME NEW j \in 1 .. (k - 1), j \notin applied
      PROVE  FALSE
  <2>1. j \in DOMAIN trace /\ j # k
    BY ONLY <1>1, <1>2, <1>3
  <2>2. PICK q \in Process : Holds(q) /\ proc[q].event = j
    BY <1>3, <2>1 DEF IInv, TablesFollowTheTrace, InHands
  <2>3. q \notin Rebuilder
    BY <1>1, <2>1, <2>2 DEF IInv, HandsAreReal
  <2> QED  BY <1>2, <1>3, <2>1, <2>2, <2>3 DEF IInv, OnlyTheLastIsOut
<1>4. k \notin applied
  OBVIOUS
<1>5. \A j \in 1 .. (k - 1) : j \in applied
  BY <1>3
<1> HIDE DEF k
<1>6. ASSUME NEW j \in applied PROVE j \in 1 .. (k - 1)
  <2>1. j \in 1 .. Len(trace) /\ j # k
    BY <1>1, <1>4, <1>6
  <2>2. Len(trace) \in Nat
    BY <1>1
  <2> QED  BY <1>2, <2>1, <2>2
<1>7. applied = 1 .. (k - 1)
  BY <1>5, <1>6
<1> QED  BY <1>7 DEF k

LEMMA AppendPreserves ==
    ASSUME IInv, NEW p \in Process, AppendEvent(p)
    PROVE  IInv'
<1> USE ProjectionAssumption
<1>1. PICK e \in Appended :
          /\ MayFollow(After(trace), e)
          /\ trace' = Append(trace, [event |-> e, tables |-> Projected(After(trace), e)])
  BY DEF AppendEvent
<1> DEFINE entry == [event |-> e, tables |-> Projected(After(trace), e)]
<1>2. /\ trace \in Seq(Entry) /\ WellFormed(trace) /\ e \in Event
      /\ Len(trace) \in Nat /\ DOMAIN trace = 1 .. Len(trace)
  BY DEF IInv, TypeOK
<1>3. entry \in Entry /\ WellFormed(trace')
  BY <1>1, <1>2, AppendIsWellFormed
<1>4. trace' = Append(trace, entry)
  BY <1>1
<1> HIDE DEF entry
<1>5. /\ trace' \in Seq(Entry)
      /\ Len(trace') = Len(trace) + 1 /\ DOMAIN trace' = 1 .. Len(trace) + 1
  BY <1>2, <1>3, <1>4
<1>6. /\ proc \in [Process -> Proc]
      /\ p \notin Rebuilder /\ p \in Live \union Locked
      /\ proc[p].step = "serving"
      /\ lock = IF p \in Live THEN Nobody ELSE p
      /\ tables' = tables /\ applied' = applied /\ lock' = lock
      /\ faults' = faults /\ rebuilds' = rebuilds /\ gap' = gap /\ stale' = stale
  BY DEF AppendEvent, IInv, TypeOK, HandsAreReal, history, Process
<1>7. /\ proc' \in [Process -> Proc]
      /\ proc'[p].step = "dedup" /\ proc'[p].event = Len(trace) + 1
      /\ proc'[p].seen = proc[p].seen
      /\ \A q \in Process : q # p => proc'[q] = proc[q]
  <2> DEFINE new == Updated(proc[p], "dedup", Len(trace) + 1, proc[p].seen)
  <2>2. proc[p] \in Proc /\ proc[p].seen \in Nat
    BY <1>6 DEF Proc
  <2>1. proc' = [proc EXCEPT ![p] = new]
    BY <1>6, <2>2 DEF AppendEvent, Proc, Updated
  <2>3. /\ new \in Proc /\ new.step = "dedup"
        /\ new.event = Len(trace) + 1 /\ new.seen = proc[p].seen
    <3> DEFINE next == Len(trace) + 1
               old == proc[p]
               seen == old.seen
    <3>1. "dedup" \in Steps /\ next \in Nat
      BY <1>2 DEF Steps
    <3>2. old \in Proc /\ seen \in Nat
      BY <2>2
    <3> HIDE DEF next, old, seen
    <3>3. /\ Updated(old, "dedup", next, seen) \in Proc
          /\ Updated(old, "dedup", next, seen).step = "dedup"
          /\ Updated(old, "dedup", next, seen).event = next
          /\ Updated(old, "dedup", next, seen).seen = seen
      BY ONLY <3>2, <3>1, ProcUpdate
    <3> QED  BY ONLY <3>3 DEF next, old, seen
  <2> HIDE DEF new
  <2> QED  BY <2>1, <2>3, <1>6
<1>8. Holds(p)' /\ ~Holds(p) /\ \A q \in Process : q # p => (Holds(q)' <=> Holds(q))
  BY <1>6, <1>7 DEF Holds
<1>9. applied \subseteq 1 .. Len(trace)
  BY <1>2 DEF IInv, TypeOK
\* Nobody else has an event in hands that is not in the tables.
<1>10. ASSUME ~stale, NEW q \in Process \ Rebuilder, q # p, Holds(q)
       PROVE  proc[q].event \in applied
  <2>1. CASE p \in Live
    <3>1. q \in Locked
      BY <2>1, <1>10 DEF Process
    <3>2. proc[q].step \notin {"idle", "acquiring"}
      BY <1>10 DEF Holds
    <3>3. lock = q
      BY <3>1, <3>2 DEF IInv, LockIsHeld
    <3> QED  BY <2>1, <3>3, <1>6
  <2>2. CASE p \in Locked
    BY <2>2, <1>6, <1>10 DEF IInv, RepairedBehindTheLock
  <2> QED  BY <2>1, <2>2, <1>6
<1>11. TypeOK'
  <2>1. applied' \subseteq DOMAIN trace'
    BY <1>2, <1>5, <1>6, <1>9
  <2> QED  BY <2>1, <1>5, <1>6, <1>7 DEF IInv, TypeOK
<1>12. WellFormed(trace)'
  BY <1>3
<1>13. LockIsHeld'
  BY <1>6, <1>7 DEF IInv, LockIsHeld, Process
<1>14. HandsAreReal'
  <2> SUFFICES ASSUME NEW q \in Process
               PROVE  /\ proc'[q].seen <= Len(trace')
                      /\ q \in Rebuilder => proc'[q].step \in {"idle", "rebuilding"} /\ proc'[q].event = 0
                      /\ Holds(q)' /\ q \notin Rebuilder => proc'[q].event \in DOMAIN trace'
    BY DEF HandsAreReal
  <2>1. proc[q].seen <= Len(trace) /\ proc[q].seen \in Nat
    BY <1>6 DEF IInv, HandsAreReal, Proc
  <2>2. proc'[q].seen = proc[q].seen
    BY <1>7
  <2>3. CASE q = p
    BY <2>1, <2>2, <2>3, <1>2, <1>5, <1>6, <1>7
  <2>4. CASE q # p
    <3>1. Holds(q)' /\ q \notin Rebuilder => proc[q].event \in DOMAIN trace
      BY <2>4, <1>8 DEF IInv, HandsAreReal
    <3> QED  BY <2>1, <2>2, <2>4, <3>1, <1>2, <1>5, <1>7 DEF IInv, HandsAreReal
  <2> QED  BY <2>3, <2>4
<1>15. OnlyTheLastIsOut'
  BY <1>5, <1>6, <1>7, <1>8, <1>10 DEF OnlyTheLastIsOut
<1>16. RepairedBehindTheLock'
  <2> SUFFICES ASSUME ~stale, NEW h \in Locked, NEW q \in Process \ Rebuilder,
                      proc'[h].step \notin BeforeRepair, h # q, Holds(q)'
               PROVE  proc'[q].event \in applied
    BY <1>6 DEF RepairedBehindTheLock, BeforeRepair
  <2>1. CASE q # p
    BY <2>1, <1>7, <1>8, <1>10
  <2>2. CASE q = p
    <3>1. proc[h].step \notin BeforeRepair
      BY <2>2, <1>7 DEF Process
    <3>2. lock = h
      BY <3>1 DEF IInv, LockIsHeld, BeforeRepair
    <3> QED  BY <2>2, <3>2, <1>6 DEF Process
  <2> QED  BY <2>1, <2>2
<1>17. CompleteTablesAreTrue'
  <2> SUFFICES ASSUME NEW n \in 0 .. Len(trace'), ~stale, applied = 1 .. n
               PROVE  tables = Rows(trace', n)
    BY <1>6 DEF CompleteTablesAreTrue
  <2>1. n \in 0 .. Len(trace)
    <3>1. n # Len(trace) + 1
      BY <1>2, <1>9
    <3> QED  BY <3>1, <1>2, <1>5
  <2>2. tables = Rows(trace, n)
    BY <2>1 DEF IInv, CompleteTablesAreTrue
  <2> QED  BY <2>1, <2>2, <1>2, <1>3, <1>4, AppendKeepsRows
<1>18. TablesFollowTheTrace'
  <2> SUFFICES ASSUME ~gap, ~stale, NEW k \in DOMAIN trace', k \notin applied
               PROVE  k \in InHands'
    BY <1>6 DEF TablesFollowTheTrace
  <2>1. CASE k = Len(trace) + 1
    BY <2>1, <1>7, <1>8 DEF InHands
  <2>2. CASE k # Len(trace) + 1
    <3>1. k \in DOMAIN trace
      BY <2>2, <1>2, <1>5
    <3>2. PICK q \in Process : Holds(q) /\ proc[q].event = k
      BY <3>1 DEF IInv, TablesFollowTheTrace, InHands
    <3>3. Holds(q)' /\ proc'[q].event = k
      BY <3>2, <1>7, <1>8
    <3> QED  BY <3>3 DEF InHands
  <2> QED  BY <2>1, <2>2
<1> QED  BY <1>11, <1>12, <1>13, <1>14, <1>15, <1>16, <1>17, <1>18 DEF IInv

\* A rebuild of the first n events; the process goes on to a step in which
\* it holds none.
LEMMA RebuiltPreserves ==
    ASSUME IInv,
           NEW p \in Process, NEW new \in Proc, NEW n \in 0 .. Len(trace),
           proc' = [proc EXCEPT ![p] = new],
           Rebuilt(n),
           n < Len(trace) => stale',
           lock' \in Process \union {Nobody},
           UNCHANGED <<faults, rebuilds>>,
           stale' \in BOOLEAN, gap' \in BOOLEAN,
           p \in Locked /\ new.step \notin {"idle", "acquiring"} => lock' = p,
           \A q \in Locked : q # p /\ lock = q => lock' = q,
           new.seen = 0 \/ new.seen = proc[p].seen,
           new.step \notin HoldingSteps,
           p \in Rebuilder => new.step = "idle" /\ new.event = 0
    PROVE  IInv'
<1> USE ProjectionAssumption
<1>1. /\ proc \in [Process -> Proc]
      /\ proc'[p] = new
      /\ \A q \in Process : q # p => proc'[q] = proc[q]
  BY DEF IInv, TypeOK
<1>2. /\ trace \in Seq(Entry) /\ Len(trace) \in Nat /\ DOMAIN trace = 1 .. Len(trace)
      /\ trace' = trace /\ tables' = Rows(trace, n) /\ applied' = 1 .. n
  BY DEF IInv, TypeOK, Rebuilt
<1>3. TypeOK'
  <2>1. tables' \in Tables
    BY <1>2, RowsType
  <2>2. applied' \subseteq DOMAIN trace
    BY <1>2
  <2> QED  BY <2>1, <2>2, <1>1, <1>2 DEF IInv, TypeOK
<1>4. WellFormed(trace)'
  BY <1>2 DEF IInv
<1>5. LockIsHeld'
  BY <1>1 DEF IInv, LockIsHeld, Process
<1>6. ~Holds(p)' /\ \A q \in Process : q # p => (Holds(q)' <=> Holds(q))
  BY <1>1 DEF Holds, HoldingSteps
<1>7. HandsAreReal'
  <2> SUFFICES ASSUME NEW q \in Process
               PROVE  /\ proc'[q].seen <= Len(trace)
                      /\ q \in Rebuilder => proc'[q].step \in {"idle", "rebuilding"} /\ proc'[q].event = 0
                      /\ Holds(q)' /\ q \notin Rebuilder => proc'[q].event \in DOMAIN trace
    BY <1>2 DEF HandsAreReal
  <2>1. CASE q = p
    BY <2>1, <1>1, <1>2, <1>6 DEF IInv, HandsAreReal
  <2>2. CASE q # p
    BY <2>2, <1>1, <1>6 DEF IInv, HandsAreReal
  <2> QED  BY <2>1, <2>2
<1>8. ~stale' => applied' = DOMAIN trace
  <2> SUFFICES ASSUME ~stale' PROVE n = Len(trace)
    BY <1>2
  <2>1. ~(n < Len(trace)) /\ Len(trace) \in Nat
    BY <1>2
  <2> QED  BY <2>1, NotLess
<1>9. \A q \in Process \ Rebuilder : Holds(q)' => proc'[q].event \in DOMAIN trace
  BY <1>2, <1>7 DEF HandsAreReal
<1>10. OnlyTheLastIsOut' /\ RepairedBehindTheLock'
  BY <1>8, <1>9 DEF OnlyTheLastIsOut, RepairedBehindTheLock
<1>11. CompleteTablesAreTrue'
  <2> SUFFICES ASSUME NEW m \in 0 .. Len(trace), applied' = 1 .. m
               PROVE  tables' = Rows(trace, m)
    BY <1>2 DEF CompleteTablesAreTrue
  <2>1. m = n
    BY <1>2
  <2> QED  BY <2>1, <1>2
<1>12. TablesFollowTheTrace'
  BY <1>2, <1>8 DEF TablesFollowTheTrace
<1> QED  BY <1>3, <1>4, <1>5, <1>7, <1>10, <1>11, <1>12 DEF IInv

LEMMA WritePreserves ==
    ASSUME IInv, NEW p \in Process, WriteRows(p)
    PROVE  IInv'
<1> USE ProjectionAssumption
<1> DEFINE k == proc[p].event
<1>1. /\ trace \in Seq(Entry) /\ WellFormed(trace) /\ tables \in Tables
      /\ Len(trace) \in Nat /\ DOMAIN trace = 1 .. Len(trace)
      /\ applied \subseteq 1 .. Len(trace)
      /\ proc \in [Process -> Proc]
  BY DEF IInv, TypeOK
<1>2. p \notin Rebuilder /\ Holds(p) /\ proc[p].step = "write"
  BY DEF WriteRows, Holds, IInv, HandsAreReal
<1>3. k \in 1 .. Len(trace) /\ k \notin applied
  BY <1>1, <1>2 DEF IInv, HandsAreReal, WriteRows
<1>4. /\ trace' = trace /\ tables' = Projected(tables, trace[k].event)
      /\ applied' = applied \union {k} /\ lock' = lock
      /\ faults' = faults /\ rebuilds' = rebuilds /\ gap' = gap /\ stale' = stale
  BY DEF WriteRows, InHand, history
<1>5. /\ proc' \in [Process -> Proc]
      /\ proc'[p].step = "serving" /\ proc'[p].seen = 0
      /\ \A q \in Process : q # p => proc'[q] = proc[q]
  <2> DEFINE new == Updated(proc[p], "serving", 0, 0)
  <2>1. proc' = [proc EXCEPT ![p] = new]
    BY <1>1 DEF WriteRows, Drop, Proc, Updated
  <2>2. proc[p] \in Proc /\ "serving" \in Steps /\ 0 \in Nat
    BY <1>1 DEF Steps
  <2>3. new \in Proc /\ new.step = "serving" /\ new.seen = 0
    BY ONLY <2>2, ProcUpdate
  <2> HIDE DEF new
  <2> QED  BY <2>1, <2>3, <1>1
<1> HIDE DEF k
<1>6. ~Holds(p)' /\ \A q \in Process : q # p => (Holds(q)' <=> Holds(q))
  BY <1>5 DEF Holds
<1>7. TypeOK'
  <2>1. trace[k] \in Entry
    BY <1>1, <1>3
  <2>2. tables' \in Tables
    BY <2>1, <1>1, <1>4, ProjectedType DEF Entry
  <2>3. applied' \subseteq DOMAIN trace'
    BY <1>1, <1>3, <1>4
  <2> QED  BY <2>2, <2>3, <1>4, <1>5 DEF IInv, TypeOK
<1>8. WellFormed(trace)'
  BY <1>1, <1>4
<1>9. LockIsHeld'
  BY <1>2, <1>4, <1>5 DEF IInv, LockIsHeld, Process
<1>10. HandsAreReal'
  <2> SUFFICES ASSUME NEW q \in Process
               PROVE  /\ proc'[q].seen <= Len(trace)
                      /\ q \in Rebuilder => proc'[q].step \in {"idle", "rebuilding"} /\ proc'[q].event = 0
                      /\ Holds(q)' /\ q \notin Rebuilder => proc'[q].event \in DOMAIN trace
    BY <1>4 DEF HandsAreReal
  <2>1. CASE q = p
    BY <2>1, <1>1, <1>2, <1>5, <1>6
  <2>2. CASE q # p
    BY <2>2, <1>5, <1>6 DEF IInv, HandsAreReal
  <2> QED  BY <2>1, <2>2
<1>11. OnlyTheLastIsOut'
  BY <1>4, <1>5, <1>6 DEF IInv, OnlyTheLastIsOut
<1>12. RepairedBehindTheLock'
  <2> SUFFICES ASSUME ~stale, NEW h \in Locked, NEW q \in Process \ Rebuilder,
                      proc'[h].step \notin BeforeRepair, h # q, Holds(q)'
               PROVE  proc'[q].event \in applied
    BY <1>4 DEF RepairedBehindTheLock, BeforeRepair
  <2>1. proc[h].step \notin BeforeRepair
    BY <1>2, <1>5 DEF Process, BeforeRepair
  <2>2. Holds(q) /\ proc'[q].event = proc[q].event
    BY <1>5, <1>6
  <2> QED  BY <2>1, <2>2 DEF IInv, RepairedBehindTheLock, BeforeRepair
\* An event that makes the tables complete is written last.
<1>13. CompleteTablesAreTrue'
  <2> SUFFICES ASSUME NEW n \in 0 .. Len(trace), ~stale, applied' = 1 .. n
               PROVE  tables' = Rows(trace, n)
    BY <1>4 DEF CompleteTablesAreTrue
  <2>1. k = Len(trace)
    BY <1>2, <1>3 DEF IInv, OnlyTheLastIsOut, k
  <2>2. n = k
    BY <2>1, <1>1, <1>3, <1>4
  <2>3. applied = 1 .. (k - 1)
    <3>1. \A j \in applied : j \in 1 .. n /\ j # k
      BY <1>3, <1>4
    <3>2. \A j \in 1 .. n : j # k => j \in applied
      BY <1>4
    <3>3. n \in Nat /\ k \in Nat
      BY <2>2, <1>1, <1>3
    <3>4. \A j \in applied : j \in 1 .. (k - 1)
      BY <2>2, <3>1, <3>3
    <3>5. \A j \in 1 .. (k - 1) : j \in applied
      BY <2>2, <3>2, <3>3
    <3> QED  BY <3>4, <3>5
  <2>4. k - 1 \in 0 .. Len(trace)
    BY <1>1, <1>3
  <2>5. tables = Rows(trace, k - 1)
    BY <2>3, <2>4 DEF IInv, CompleteTablesAreTrue
  <2>6. trace[k].tables = Projected(tables, trace[k].event)
    BY <2>5, <1>1, <1>3 DEF WellFormed
  <2>7. Rows(trace, n) = trace[k].tables
    BY <2>2, <1>3 DEF Rows
  <2> QED  BY <2>6, <2>7, <1>4
<1>14. TablesFollowTheTrace'
  <2> SUFFICES ASSUME ~gap, ~stale, NEW j \in DOMAIN trace, j \notin applied, j # k
               PROVE  j \in InHands'
    BY <1>4 DEF TablesFollowTheTrace
  <2>1. PICK q \in Process : Holds(q) /\ proc[q].event = j
    BY DEF IInv, TablesFollowTheTrace, InHands
  <2>2. q # p
    BY <2>1 DEF k
  <2> QED  BY <2>1, <2>2, <1>5, <1>6 DEF InHands
<1> QED  BY <1>7, <1>8, <1>9, <1>10, <1>11, <1>12, <1>13, <1>14 DEF IInv

\* What Goto, Drop and End do to a process.
LEMMA Moves ==
    ASSUME IInv, NEW p \in Process
    PROVE  /\ proc[p] \in Proc
           /\ \A step \in Steps : Goto(p, step) =>
                 \E new \in Proc : /\ proc' = [proc EXCEPT ![p] = new]
                                   /\ new.step = step
                                   /\ new.event = proc[p].event /\ new.seen = proc[p].seen
           /\ \A step \in Steps : Drop(p, step) =>
                 \E new \in Proc : /\ proc' = [proc EXCEPT ![p] = new]
                                   /\ new.step = step
                                   /\ new.event = 0 /\ new.seen = 0
           /\ End(p) =>
                 \E new \in Proc : /\ proc' = [proc EXCEPT ![p] = new]
                                   /\ new.step = IF p \in Live THEN "gone" ELSE "idle"
                                   /\ new.event = 0 /\ new.seen = 0
<1>1. proc \in [Process -> Proc] /\ proc[p] \in Proc
  BY DEF IInv, TypeOK
<1>2. ASSUME NEW step \in Steps, Goto(p, step)
      PROVE  \E new \in Proc : /\ proc' = [proc EXCEPT ![p] = new]
                               /\ new.step = step
                               /\ new.event = proc[p].event /\ new.seen = proc[p].seen
  <2> DEFINE new == [proc[p] EXCEPT !.step = step]
  <2>1. new \in Proc /\ new.step = step /\ new.event = proc[p].event /\ new.seen = proc[p].seen
    BY <1>1 DEF Proc
  <2>2. proc' = [proc EXCEPT ![p] = new]
    BY <1>1, <1>2 DEF Goto
  <2> QED  BY <2>1, <2>2
<1>3. ASSUME NEW step \in Steps, Drop(p, step)
      PROVE  \E new \in Proc : /\ proc' = [proc EXCEPT ![p] = new]
                               /\ new.step = step /\ new.event = 0 /\ new.seen = 0
  <2> DEFINE new == [proc[p] EXCEPT !.step = step, !.event = 0, !.seen = 0]
  <2>1. new \in Proc /\ new.step = step /\ new.event = 0 /\ new.seen = 0
    BY <1>1 DEF Proc
  <2>2. proc' = [proc EXCEPT ![p] = new]
    BY <1>1, <1>3 DEF Drop, Proc
  <2> QED  BY <2>1, <2>2
<1>4. ASSUME End(p)
      PROVE  \E new \in Proc : /\ proc' = [proc EXCEPT ![p] = new]
                               /\ new.step = IF p \in Live THEN "gone" ELSE "idle"
                               /\ new.event = 0 /\ new.seen = 0
  <2> DEFINE new == At(IF p \in Live THEN "gone" ELSE "idle")
  <2>1. /\ new \in Proc /\ new.step = IF p \in Live THEN "gone" ELSE "idle"
        /\ new.event = 0 /\ new.seen = 0
    BY DEF At, Proc, Steps
  <2>2. proc' = [proc EXCEPT ![p] = new]
    BY <1>4 DEF End
  <2> QED  BY <2>1, <2>2
<1> QED  BY <1>1, <1>2, <1>3, <1>4

\* The last process to end frees the lock only if it has it.
LEMMA EndPreserves ==
    ASSUME IInv, NEW p \in Process, End(p), UNCHANGED evidence,
           faults' \in 0 .. MaxFaults, rebuilds' \in 0 .. MaxRebuilds,
           stale' = stale, gap' = gap \/ gap' = TRUE,
           Holds(p) /\ p \notin Rebuilder => gap' = TRUE
    PROVE  IInv'
<1> USE ProjectionAssumption
<1>1. PICK new \in Proc : /\ proc' = [proc EXCEPT ![p] = new]
                          /\ new.step = IF p \in Live THEN "gone" ELSE "idle"
                          /\ new.event = 0 /\ new.seen = 0
  BY Moves
<1>2. /\ lock' \in Process \union {Nobody}
      /\ \A q \in Locked : q # p /\ lock = q => lock' = q
  BY DEF End, IInv, TypeOK
<1>3. new.step \notin HoldingSteps /\ (p \in Locked => new.step = "idle") /\ (p \in Rebuilder => new.step = "idle")
  BY <1>1 DEF HoldingSteps, Process
<1>4. new.seen <= Len(trace)
  BY <1>1 DEF IInv, TypeOK
<1> QED  BY <1>1, <1>2, <1>3, <1>4, CalmStepPreserves DEF BeforeRepair

\* A step that takes p to another one and leaves the lock alone.
LEMMA GotoPreserves ==
    ASSUME IInv, NEW p \in Process, NEW step \in Steps, Goto(p, step),
           p \notin Rebuilder, UNCHANGED <<evidence, lock, gap, stale>>,
           faults' \in 0 .. MaxFaults, rebuilds' \in 0 .. MaxRebuilds,
           step \in HoldingSteps => Holds(p),
           step \notin {"idle", "acquiring"} => proc[p].step \notin {"idle", "acquiring"},
           step \notin BeforeRepair => proc[p].step \notin BeforeRepair,
           Holds(p) => step \in HoldingSteps
    PROVE  IInv'
<1> USE ProjectionAssumption
<1>1. PICK new \in Proc : /\ proc' = [proc EXCEPT ![p] = new]
                          /\ new.step = step
                          /\ new.event = proc[p].event /\ new.seen = proc[p].seen
  BY Moves
<1>2. lock' \in Process \union {Nobody} /\ \A q \in Locked : lock = q => lock' = q
  BY DEF IInv, TypeOK
<1>3. p \in Locked /\ new.step \notin {"idle", "acquiring"} => lock' = p
  BY <1>1 DEF IInv, LockIsHeld
<1>4. new.seen <= Len(trace)
  BY <1>1 DEF IInv, HandsAreReal
<1> QED  BY <1>1, <1>2, <1>3, <1>4, CalmStepPreserves DEF evidence

\* A step that puts the event down.
LEMMA DropPreserves ==
    ASSUME IInv, NEW p \in Process, NEW step \in {"serving", "raised"}, Drop(p, step),
           p \notin Rebuilder, Holds(p), UNCHANGED <<evidence, lock, stale>>,
           faults' \in 0 .. MaxFaults, rebuilds' \in 0 .. MaxRebuilds,
           gap' = gap \/ gap' = TRUE,
           gap' = TRUE \/ stale \/ proc[p].event \in applied
    PROVE  IInv'
<1> USE ProjectionAssumption
<1>1. PICK new \in Proc : /\ proc' = [proc EXCEPT ![p] = new]
                          /\ new.step = step
                          /\ new.event = 0 /\ new.seen = 0
  BY Moves DEF Steps
<1>2. lock' \in Process \union {Nobody} /\ \A q \in Locked : lock = q => lock' = q
  BY DEF IInv, TypeOK
<1>3. proc[p].step \notin BeforeRepair
  BY DEF Holds, BeforeRepair
<1>4. p \in Locked => lock' = p
  BY <1>3 DEF IInv, LockIsHeld, BeforeRepair
<1>5. new.seen <= Len(trace) /\ new.step \notin HoldingSteps
  BY <1>1 DEF IInv, TypeOK, HoldingSteps
<1> QED  BY <1>1, <1>2, <1>3, <1>4, <1>5, CalmStepPreserves DEF evidence

LEMMA ProjectingPreserves ==
    ASSUME IInv, NEW p \in Process, Projecting(p)
    PROVE  IInv'
<1>1. TypeOK /\ HandsAreReal
  BY DEF IInv
<1>2. ASSUME NEW step \in {"serving", "dedup", "check", "write"}, proc[p].step = step
      PROVE  p \notin Rebuilder
  BY <1>1, <1>2 DEF HandsAreReal
<1>3. CASE AppendEvent(p)
  BY <1>3, AppendPreserves
<1>4. CASE Deduplicate(p)
  <2>1. p \notin Rebuilder /\ Holds(p) /\ proc[p].step = "dedup"
    BY <1>2, <1>4 DEF Deduplicate, Holds
  <2>2. UNCHANGED <<evidence, lock, history>>
    BY <1>4 DEF Deduplicate
  <2>3. CASE proc[p].event \in applied
    <3>1. Drop(p, "serving")
      BY <1>4, <2>3 DEF Deduplicate
    <3> QED  BY <1>1, <2>1, <2>2, <2>3, <3>1, DropPreserves DEF history, TypeOK
  <2>4. CASE proc[p].event \notin applied
    <3>1. Goto(p, "check")
      BY <1>4, <2>4 DEF Deduplicate
    <3> QED  BY <1>1, <2>1, <2>2, <3>1, GotoPreserves DEF history, TypeOK, Steps, HoldingSteps, BeforeRepair
  <2> QED  BY <2>3, <2>4
<1>5. CASE Select(p)
  <2>1. p \notin Rebuilder /\ Holds(p) /\ proc[p].step = "check"
    BY <1>2, <1>5 DEF Select, Holds
  <2>2. UNCHANGED <<evidence, lock, history>>
    BY <1>5 DEF Select
  <2>3. CASE ~Readable(tables, InHand(p))
    <3>1. Drop(p, "raised")
      BY <1>5, <2>3 DEF Select
    <3>2. gap \/ stale \/ proc[p].event \in applied
      BY <2>1, <2>3, EarlierOnesAreThere, NextIsAccepted
    <3> QED  BY <1>1, <2>1, <2>2, <3>1, <3>2, DropPreserves DEF history, TypeOK
  <2>4. CASE Readable(tables, InHand(p))
    <3>1. Goto(p, "write")
      BY <1>5, <2>4 DEF Select
    <3> QED  BY <1>1, <2>1, <2>2, <3>1, GotoPreserves DEF history, TypeOK, Steps, HoldingSteps, BeforeRepair
  <2> QED  BY <2>3, <2>4
<1>6. CASE WriteRows(p)
  BY <1>6, WritePreserves
<1>7. CASE WriteFails(p)
  <2>1. p \notin Rebuilder /\ Holds(p) /\ proc[p].step = "write"
    BY <1>2, <1>7 DEF WriteFails, Holds
  <2>2. UNCHANGED <<evidence, lock, history>>
    BY <1>7 DEF WriteFails
  <2>3. CASE ~Fits(tables, InHand(p)) /\ Drop(p, "raised")
    <3>1. gap \/ stale \/ proc[p].event \in applied
      BY <2>1, <2>3, EarlierOnesAreThere, NextIsAccepted
    <3> QED  BY <1>1, <2>1, <2>2, <2>3, <3>1, DropPreserves DEF history, TypeOK
  <2>4. CASE Goto(p, "fallback")
    BY <1>1, <2>1, <2>2, <2>4, GotoPreserves DEF history, TypeOK, Steps, HoldingSteps, BeforeRepair
  <2> QED  BY <1>7, <2>3, <2>4 DEF WriteFails
<1>8. CASE SqliteFails(p)
  <2>1. p \notin Rebuilder /\ Holds(p) /\ proc[p].step \in {"dedup", "check", "write"}
    BY <1>2, <1>8 DEF SqliteFails, Holds
  <2>2. /\ UNCHANGED <<evidence, lock, rebuilds, gap, stale>> /\ Goto(p, "fallback")
        /\ faults' = faults + 1 /\ faults < MaxFaults
    BY <1>8 DEF SqliteFails
  <2>3. faults' \in 0 .. MaxFaults
    BY <1>1, <2>2, ProjectionAssumption DEF TypeOK
  <2> QED  BY <1>1, <2>1, <2>2, <2>3, GotoPreserves DEF TypeOK, Steps, HoldingSteps, BeforeRepair
<1> QED  BY <1>3, <1>4, <1>5, <1>6, <1>7, <1>8 DEF Projecting

LEMMA RebuildingPreserves ==
    ASSUME IInv, NEW p \in Process, Rebuilding(p)
    PROVE  IInv'
<1>1. /\ TypeOK /\ HandsAreReal /\ proc[p] \in Proc
      /\ Len(trace) \in Nat
  BY DEF IInv, TypeOK
<1>2. CASE ReadTrace(p)
  <2> DEFINE new == [proc[p] EXCEPT !.step = "rebuilding", !.seen = Len(trace)]
  <2>1. /\ new \in Proc /\ new.step = "rebuilding"
        /\ new.event = proc[p].event /\ new.seen = Len(trace)
    BY <1>1 DEF Proc, Steps
  <2>2. proc' = [proc EXCEPT ![p] = new]
    BY <1>2 DEF ReadTrace
  <2> HIDE DEF new
  <2>3. /\ UNCHANGED <<evidence, lock, faults, gap, stale>>
        /\ rebuilds' \in 0 .. MaxRebuilds
    BY <1>1, <1>2, ProjectionAssumption DEF ReadTrace, TypeOK
  <2>4. \/ p \notin Rebuilder /\ proc[p].step = "fallback"
        \/ p \in Rebuilder /\ proc[p].step = "idle" /\ proc[p].event = 0
    BY <1>1, <1>2 DEF ReadTrace, HandsAreReal
  <2>5. p \in Locked => lock' = p
    BY <2>3, <2>4, ProjectionAssumption DEF IInv, LockIsHeld
  <2>6. lock' \in Process \union {Nobody} /\ \A q \in Locked : lock = q => lock' = q
    BY <1>1, <2>3 DEF TypeOK
  <2>7. p \notin Rebuilder => Holds(p) /\ proc[p].step \notin BeforeRepair
    BY <2>4 DEF Holds, BeforeRepair
  <2>8. p \in Locked => p \notin Rebuilder
    BY ProjectionAssumption
  <2>9. /\ UNCHANGED evidence /\ faults' \in 0 .. MaxFaults /\ rebuilds' \in 0 .. MaxRebuilds
        /\ stale' = stale /\ gap' = gap /\ new.seen <= Len(trace)
        /\ p \in Rebuilder => new.step \in {"idle", "rebuilding"} /\ new.event = 0
        /\ p \notin Rebuilder => Holds(p) /\ new.event = proc[p].event
        /\ p \in Locked => proc[p].step \notin BeforeRepair
        /\ new.step \in HoldingSteps
    BY <1>1, <2>1, <2>3, <2>4, <2>7, <2>8 DEF TypeOK, HoldingSteps
  <2> QED  BY <2>1, <2>2, <2>5, <2>6, <2>9, CalmStepPreserves
<1>3. CASE Rebuild(p)
  <2>1. /\ Rebuilt(proc[p].seen) /\ proc[p].step = "rebuilding"
        /\ stale' = (stale \/ proc[p].seen < Len(trace))
        /\ UNCHANGED <<faults, rebuilds, gap>>
    BY <1>3 DEF Rebuild
  <2>2. proc[p].seen \in 0 .. Len(trace)
    BY <1>1 DEF HandsAreReal, Proc
  <2>3. CASE p \in Rebuilder
    <3>1. End(p)
      BY <1>3, <2>3 DEF Rebuild
    <3>2. PICK new \in Proc : /\ proc' = [proc EXCEPT ![p] = new]
                              /\ new.step = IF p \in Live THEN "gone" ELSE "idle"
                              /\ new.event = 0 /\ new.seen = 0
      BY <3>1, Moves
    <3>3. new.step = "idle"
      BY <2>3, <3>2, ProjectionAssumption
    <3>4. /\ lock' \in Process \union {Nobody}
          /\ \A q \in Locked : q # p /\ lock = q => lock' = q
      BY <1>1, <3>1 DEF End, TypeOK
    <3> QED  BY <1>1, <2>1, <2>2, <3>2, <3>3, <3>4, RebuiltPreserves DEF TypeOK, HoldingSteps
  <2>4. CASE p \notin Rebuilder
    <3>1. Drop(p, "serving") /\ lock' = lock
      BY <1>3, <2>4 DEF Rebuild
    <3>2. PICK new \in Proc : /\ proc' = [proc EXCEPT ![p] = new]
                              /\ new.step = "serving"
                              /\ new.event = 0 /\ new.seen = 0
      BY <3>1, Moves DEF Steps
    <3>3. p \in Locked => lock' = p
      BY <2>1, <3>1 DEF IInv, LockIsHeld
    <3>4. /\ lock' \in Process \union {Nobody}
          /\ \A q \in Locked : q # p /\ lock = q => lock' = q
      BY <1>1, <3>1 DEF TypeOK
    <3> QED  BY <1>1, <2>1, <2>2, <2>4, <3>2, <3>3, <3>4, RebuiltPreserves DEF TypeOK, HoldingSteps
  <2> QED  BY <2>3, <2>4
<1>4. CASE RebuildFails(p)
  <2>1. UNCHANGED evidence /\ proc[p].step \in {"fallback", "rebuilding"}
    BY <1>4 DEF RebuildFails
  <2>2. CASE p \in Rebuilder
    <3>1. End(p) /\ UNCHANGED history
      BY <1>4, <2>2 DEF RebuildFails
    <3> QED  BY <1>1, <2>1, <2>2, <3>1, EndPreserves DEF history, TypeOK
  <2>3. CASE p \notin Rebuilder
    <3>1. PICK step \in {"serving", "raised"} : Drop(p, step)
      BY <1>4, <2>3 DEF RebuildFails
    <3>2. Fault /\ UNCHANGED lock
      BY <1>4, <2>3 DEF RebuildFails
    <3>3. faults' \in 0 .. MaxFaults /\ gap' = TRUE /\ UNCHANGED <<rebuilds, stale>>
      BY <1>1, <3>2, ProjectionAssumption DEF Fault, TypeOK
    <3>4. Holds(p)
      BY <2>1 DEF Holds
    <3> QED  BY <1>1, <2>1, <2>3, <3>1, <3>2, <3>3, <3>4, DropPreserves DEF TypeOK
  <2> QED  BY <2>2, <2>3
<1> QED  BY <1>2, <1>3, <1>4 DEF Rebuilding

LEMMA ResumingPreserves ==
    ASSUME IInv, NEW p \in Process,
           Begin(p) \/ CancelTask(p) \/ Resuming(p) \/ Finish(p) \/ GoOn(p) \/ Crash(p)
    PROVE  IInv'
<1> USE ProjectionAssumption
<1>1. /\ TypeOK /\ HandsAreReal /\ proc[p] \in Proc /\ Len(trace) \in Nat
      /\ faults \in 0 .. MaxFaults /\ rebuilds \in 0 .. MaxRebuilds
  BY DEF IInv, TypeOK
<1>2. p \in Locked => p \notin Rebuilder
  OBVIOUS
<1>3. proc[p].step \notin {"idle", "rebuilding"} => p \notin Rebuilder
  BY <1>1 DEF HandsAreReal
<1>4. CASE Begin(p)
  <2>1. /\ p \notin Rebuilder /\ proc[p].step = "idle" /\ Goto(p, "acquiring")
        /\ UNCHANGED <<evidence, lock, gap, stale, faults, rebuilds>>
    BY <1>2, <1>4 DEF Begin, history
  <2> QED  BY <1>1, <2>1, GotoPreserves DEF Steps, Holds, HoldingSteps, BeforeRepair
<1>5. CASE CancelTask(p)
  <2> DEFINE new == [proc[p] EXCEPT !.cancelled = TRUE]
  <2>1. /\ new \in Proc /\ new.step = proc[p].step
        /\ new.event = proc[p].event /\ new.seen = proc[p].seen
    BY <1>1 DEF Proc
  <2>2. proc' = [proc EXCEPT ![p] = new]
    BY <1>1, <1>5 DEF CancelTask, Proc
  <2> HIDE DEF new
  <2>3. /\ p \notin Rebuilder /\ proc[p].step \in {"acquiring", "locked", "preparing"}
        /\ UNCHANGED <<evidence, lock, gap, stale, faults, rebuilds>>
    BY <1>2, <1>5 DEF CancelTask, history
  <2>4. /\ lock' \in Process \union {Nobody} /\ \A q \in Locked : lock = q => lock' = q
        /\ p \in Locked /\ new.step \notin {"idle", "acquiring"} => lock' = p
    BY <1>1, <2>1, <2>3 DEF TypeOK, IInv, LockIsHeld
  <2>5. /\ new.step \notin HoldingSteps /\ new.step \in BeforeRepair /\ ~Holds(p)
        /\ new.seen <= Len(trace)
    BY <1>1, <2>1, <2>3 DEF Holds, HoldingSteps, BeforeRepair, HandsAreReal
  <2> QED  BY <1>1, <2>1, <2>2, <2>3, <2>4, <2>5, CalmStepPreserves
<1>6. CASE Acquire(p)
  <2>1. /\ p \notin Rebuilder /\ proc[p].step = "acquiring" /\ Goto(p, "locked")
        /\ lock = Nobody /\ lock' = p
        /\ UNCHANGED <<evidence, gap, stale, faults, rebuilds>>
    BY <1>3, <1>6 DEF Acquire, history
  <2>2. PICK new \in Proc : /\ proc' = [proc EXCEPT ![p] = new]
                            /\ new.step = "locked"
                            /\ new.event = proc[p].event /\ new.seen = proc[p].seen
    BY <2>1, Moves DEF Steps
  <2>3. /\ lock' \in Process \union {Nobody}
        /\ \A q \in Locked : lock # q
    BY <2>1 DEF Process
  <2>4. /\ new.step \notin HoldingSteps /\ new.step \in BeforeRepair /\ ~Holds(p)
        /\ new.seen <= Len(trace)
    BY <1>1, <2>1, <2>2 DEF Holds, HoldingSteps, BeforeRepair, HandsAreReal
  <2> QED  BY <1>1, <2>1, <2>2, <2>3, <2>4, CalmStepPreserves
<1>7. CASE TimeOut(p) \/ Refuse(p) \/ LetGo(p) \/ Finish(p)
  <2>1. /\ End(p) /\ ~Holds(p)
        /\ UNCHANGED <<evidence, gap, stale, faults, rebuilds>>
    BY <1>7 DEF TimeOut, Refuse, LetGo, Finish, Holds, history
  <2> QED  BY <1>1, <2>1, EndPreserves
<1>8. CASE Prepare(p)
  <2>1. /\ p \notin Rebuilder /\ proc[p].step = "locked" /\ Goto(p, "preparing")
        /\ UNCHANGED <<evidence, lock, gap, stale, faults, rebuilds>>
    BY <1>3, <1>8 DEF Prepare, history
  <2> QED  BY <1>1, <2>1, GotoPreserves DEF Steps, Holds, HoldingSteps, BeforeRepair
<1>9. CASE Repair(p)
  <2>1. /\ p \notin Rebuilder /\ proc[p].step = "preparing" /\ Goto(p, "serving")
        /\ Rebuilt(Len(trace)) /\ gap' = FALSE /\ stale' = FALSE
        /\ UNCHANGED <<lock, faults, rebuilds>>
    BY <1>3, <1>9 DEF Repair
  <2>2. PICK new \in Proc : /\ proc' = [proc EXCEPT ![p] = new]
                            /\ new.step = "serving"
                            /\ new.event = proc[p].event /\ new.seen = proc[p].seen
    BY <2>1, Moves DEF Steps
  <2>3. /\ p \in Locked => lock' = p
        /\ lock' \in Process \union {Nobody}
        /\ \A q \in Locked : q # p /\ lock = q => lock' = q
    BY <1>1, <2>1 DEF IInv, LockIsHeld, TypeOK
  <2>4. Len(trace) \in 0 .. Len(trace) /\ ~(Len(trace) < Len(trace))
    BY <1>1
  <2>5. new.step \notin HoldingSteps
    BY <2>2 DEF HoldingSteps
  <2> QED  BY <2>1, <2>2, <2>3, <2>4, <2>5, RebuiltPreserves
<1>10. CASE GoOn(p)
  <2>1. /\ p \notin Rebuilder /\ proc[p].step = "raised" /\ Goto(p, "serving")
        /\ UNCHANGED <<evidence, lock, gap, stale, faults, rebuilds>>
    BY <1>3, <1>10 DEF GoOn, history
  <2> QED  BY <1>1, <2>1, GotoPreserves DEF Steps, Holds, HoldingSteps, BeforeRepair
<1>11. CASE Crash(p)
  <2>1. End(p) /\ UNCHANGED evidence /\ Fault
    BY <1>11 DEF Crash
  <2>2. faults' \in 0 .. MaxFaults /\ gap' = TRUE /\ UNCHANGED <<rebuilds, stale>>
    BY <1>1, <2>1 DEF Fault
  <2> QED  BY <1>1, <2>1, <2>2, EndPreserves
<1> QED  BY <1>4, <1>5, <1>6, <1>7, <1>8, <1>9, <1>10, <1>11 DEF Resuming

LEMMA StepHolds == IInv /\ [Next]_vars => IInv'
<1> SUFFICES ASSUME IInv, [Next]_vars PROVE IInv'
  OBVIOUS
<1>1. CASE Next
  <2> PICK p \in Process :
        Projecting(p) \/ Rebuilding(p) \/ Begin(p) \/ CancelTask(p) \/ Resuming(p) \/ Ending(p)
    BY <1>1 DEF Next
  <2> QED  BY ProjectingPreserves, RebuildingPreserves, ResumingPreserves DEF Ending
<1>2. CASE UNCHANGED vars
  BY <1>2 DEF vars, IInv, TypeOK, LockIsHeld, HandsAreReal, OnlyTheLastIsOut,
              RepairedBehindTheLock, CompleteTablesAreTrue, TablesFollowTheTrace, InHands, Holds
<1> QED  BY <1>1, <1>2

----------------------------------------------------------------------------
(* The theorems *)

THEOREM ProjectionInvariant == Spec => []IInv
BY InitHolds, StepHolds, PTL DEF Spec

\* The variables keep their types.
THEOREM ProjectionTypes == Spec => []TypeOK
<1>1. IInv => TypeOK
  BY DEF IInv
<1> QED  BY <1>1, ProjectionInvariant, PTL

\* Tables that hold every event up to some point are the ones these events
\* lead to.
THEOREM CompleteTablesHold == Spec => []CompleteTablesAreTrue
<1>1. IInv => CompleteTablesAreTrue
  BY DEF IInv
<1> QED  BY <1>1, ProjectionInvariant, PTL

\* Interleaving alone loses no event.
THEOREM NothingIsLost == Spec => []TablesFollowTheTrace
<1>1. IInv => TablesFollowTheTrace
  BY DEF IInv
<1> QED  BY <1>1, ProjectionInvariant, PTL

\* A projection that refuses an event has cause to.
THEOREM RefusalsHaveCause == Spec => RefusedOnlyWithCause
<1>1. IInv /\ [Next]_vars =>
        [\A p \in Process :
            proc[p].step \in {"check", "write"} /\ proc'[p].step = "raised" =>
                stale \/ applied # 1 .. (proc[p].event - 1)]_vars
  <2> SUFFICES ASSUME IInv, Next, NEW p \in Process,
                      proc[p].step \in {"check", "write"}, proc'[p].step = "raised",
                      ~stale, applied = 1 .. (proc[p].event - 1)
               PROVE  FALSE
    BY DEF vars
  <2>1. proc \in [Process -> Proc]
    BY DEF IInv, TypeOK
  <2>2. p \in Process \ Rebuilder /\ Holds(p)
    BY DEF IInv, HandsAreReal, Holds
  <2>3. Readable(tables, InHand(p)) /\ Fits(tables, InHand(p))
    BY <2>2, NextIsAccepted
  <2>4. PICK q \in Process :
          Projecting(q) \/ Rebuilding(q) \/ Begin(q) \/ CancelTask(q) \/ Resuming(q) \/ Ending(q)
    BY DEF Next
  <2>5. CASE q # p
    <3>1. proc'[p] = proc[p]
      BY <2>1, <2>4, <2>5
         DEF Projecting, Rebuilding, Resuming, Ending, AppendEvent, Deduplicate, Select, WriteRows,
             WriteFails, SqliteFails, ReadTrace, Rebuild, RebuildFails, Begin, CancelTask, Acquire,
             TimeOut, Prepare, Repair, Refuse, LetGo, Finish, GoOn, Crash, Goto, Drop, End
    <3> QED  BY <3>1
  <2>6. CASE q = p
    <3>1. Select(p) \/ WriteFails(p) \/ WriteRows(p) \/ SqliteFails(p) \/ Crash(p)
      BY <2>4, <2>6
         DEF Projecting, Rebuilding, Resuming, Ending, AppendEvent, Deduplicate,
             ReadTrace, Rebuild, RebuildFails, Begin, CancelTask, Acquire,
             TimeOut, Prepare, Repair, Refuse, LetGo, Finish, GoOn
    <3>2. ASSUME NEW step \in Steps \ {"raised"}, Goto(p, step) \/ Drop(p, step) PROVE FALSE
      BY <2>1, <3>2, Moves
    <3>3. ~End(p)
      BY <2>1, Moves
    <3>4. {"write", "serving", "fallback"} \subseteq Steps \ {"raised"}
      BY DEF Steps
    <3>5. CASE Select(p)
      BY <2>3, <3>2, <3>4, <3>5 DEF Select
    <3>6. CASE WriteFails(p)
      BY <2>3, <3>2, <3>4, <3>6 DEF WriteFails
    <3>7. CASE WriteRows(p) \/ SqliteFails(p) \/ Crash(p)
      BY <3>2, <3>3, <3>4, <3>7 DEF WriteRows, SqliteFails, Crash
    <3> QED  BY <3>1, <3>5, <3>6, <3>7
  <2> QED  BY <2>5, <2>6
<1> QED  BY <1>1, ProjectionInvariant, PTL DEF Spec, RefusedOnlyWithCause
=============================================================================
