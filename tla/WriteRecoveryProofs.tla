------------------------ MODULE WriteRecoveryProofs ------------------------
(***************************************************************************)
(* Theorems about WriteRecovery, for any files, texts, edits, number of    *)
(* calls and number of restores: a restore that has gone through the trace *)
(* leaves nothing a call wrote, brings back only what the calls found, and *)
(* overwrites no edit unless forced, or made between a check and its write. *)
(***************************************************************************)
EXTENDS WriteRecovery, TLAPS

USE DEF outside

----------------------------------------------------------------------------
(* The inductive invariant *)

\* Who is in a restore holds the run lock.
LockIsHeld == \A r \in Restorer : restore[r].step # "idle" => lock = r

\* A call that is not the last one is over, or left to its thread; one that
\* goes on past its write has written.
CallsInOrder ==
    \A c \in DOMAIN call :
        /\ call[c].step \notin {"over", "abandoned"} => c = Len(call)
        /\ call[c].step \in {"written", "reported", "observed"} => call[c].wrote
        /\ call[c].step \in {"backed_up", "abandoned"} => ~call[c].wrote

\* Call c put the text into f.
Wrote(c, f, text) ==
    /\ c \in DOMAIN call
    /\ call[c].wrote /\ call[c].file = f /\ call[c].text = text

\* A text in a file was written there by a call, and what a call found there
\* by an earlier one; a backup that differs from what it was made of is not
\* a text.
TextsComeFromCalls ==
    /\ \A f \in File : disk[f] \in Text => \E c \in DOMAIN call : Wrote(c, f, disk[f])
    /\ \A c \in DOMAIN call :
          /\ call[c].before \in Text =>
                \E k \in 1 .. c - 1 : Wrote(k, call[c].file, call[c].before)
          /\ call[c].backup = call[c].before \/ call[c].backup \in Foreign \union {Missing}

\* A checkpoint says what its call found and wrote; they are in the order of
\* the calls.
CheckpointsAreTrue ==
    /\ \A i \in DOMAIN checkpoints :
          /\ Wrote(checkpoints[i].call, checkpoints[i].file, checkpoints[i].after)
          /\ call[checkpoints[i].call].step = "over"
          /\ call[checkpoints[i].call].before = checkpoints[i].before
    /\ \A i, j \in DOMAIN checkpoints : i < j => checkpoints[i].call < checkpoints[j].call

\* With the first checkpoints still to be undone, a text in a wanted file is
\* what one of these says was written there.
UndoneFromTheEnd ==
    \A r \in Restorer :
        /\ restore[r].left <= Len(checkpoints)
        /\ restore[r].step = "write" =>
              restore[r].left > 0 /\ ~restore[r].dry_run /\ ~restore[r].moved
        /\ restore[r].step = "done" => restore[r].left = 0
        /\ restore[r].step # "idle" /\ ~restore[r].dry_run /\ ~restore[r].moved =>
              \A f \in restore[r].wanted :
                  Recoverable(f) /\ disk[f] \in Text =>
                      \E i \in CheckpointsOf(f) :
                          i <= restore[r].left /\ checkpoints[i].after = disk[f]

IInv ==
    /\ TypeOK
    /\ LockIsHeld
    /\ CallsInOrder
    /\ TextsComeFromCalls
    /\ CheckpointsAreTrue
    /\ UndoneFromTheEnd

\* Between a check and its write, what was checked still holds, unless people
\* have changed it.
CheckHolds ==
    \A r \in Restorer :
        restore[r].step = "write" /\ ~raced =>
            /\ Undoing(r).before = Missing \/ BackupIsGood(Undoing(r))
            /\ restore[r].force \/ disk[Undoing(r).file] \notin Foreign \union {Missing}

----------------------------------------------------------------------------
(* What the steps do to the calls *)

\* A step after which every call has found and written what it had, no
\* backup is repaired, and no text has come into a file.
Calm ==
    /\ DOMAIN call' = DOMAIN call
    /\ \A c \in DOMAIN call :
          /\ call'[c].file = call[c].file
          /\ call'[c].text = call[c].text
          /\ call'[c].before = call[c].before
          /\ call'[c].wrote = call[c].wrote
          /\ call[c].step = "over" => call'[c].step = "over"
          /\ \/ call'[c].backup = call[c].backup
             \/ call'[c].backup \in (Foreign \union {Missing}) \ {call[c].before}
    /\ checkpoints' = checkpoints
    /\ \A f \in File : disk'[f] = disk[f] \/ disk'[f] \notin Text

LEMMA ReplaceInSequence ==
    ASSUME NEW S, NEW s \in Seq(S), NEW i \in DOMAIN s, NEW x \in S
    PROVE  /\ [s EXCEPT ![i] = x] \in Seq(S)
           /\ Len([s EXCEPT ![i] = x]) = Len(s)
           /\ DOMAIN [s EXCEPT ![i] = x] = DOMAIN s
           /\ \A j \in DOMAIN s : [s EXCEPT ![i] = x][j] = IF j = i THEN x ELSE s[j]
<1>1. s \in [1 .. Len(s) -> S] /\ Len(s) \in Nat
  OBVIOUS
<1>2. [s EXCEPT ![i] = x] \in [1 .. Len(s) -> S]
  BY <1>1
<1> QED BY <1>1, <1>2

LEMMA MoveKeeps ==
    ASSUME TypeOK, NEW c \in DOMAIN call, NEW step \in CallSteps, Move(c, step)
    PROVE  /\ call' \in Seq(CallRecord)
           /\ Len(call') = Len(call) /\ DOMAIN call' = DOMAIN call
           /\ \A d \in DOMAIN call :
                 /\ call'[d].file = call[d].file
                 /\ call'[d].text = call[d].text
                 /\ call'[d].before = call[d].before
                 /\ call'[d].backup = call[d].backup
                 /\ call'[d].wrote = call[d].wrote
                 /\ call'[d].step = IF d = c THEN step ELSE call[d].step
<1> DEFINE moved == [call[c] EXCEPT !.step = step]
<1>1. call \in Seq(CallRecord) /\ call[c] \in CallRecord
  BY DEF TypeOK
<1>2. moved \in CallRecord
  BY <1>1 DEF CallRecord
<1>3. call' = [call EXCEPT ![c] = moved]
  BY DEF Move
<1>4. /\ moved.file = call[c].file /\ moved.text = call[c].text
      /\ moved.before = call[c].before /\ moved.backup = call[c].backup
      /\ moved.wrote = call[c].wrote /\ moved.step = step
  BY <1>1 DEF CallRecord
<1> HIDE DEF moved
<1> QED BY <1>1, <1>2, <1>3, <1>4, ReplaceInSequence

LEMMA TypesOfTheTrace ==
    ASSUME TypeOK
    PROVE  /\ Len(call) \in Nat /\ DOMAIN call = 1 .. Len(call)
           /\ \A c \in DOMAIN call : call[c] \in CallRecord
           /\ Len(checkpoints) \in Nat /\ DOMAIN checkpoints = 1 .. Len(checkpoints)
           /\ \A i \in DOMAIN checkpoints : checkpoints[i] \in Checkpoint
BY DEF TypeOK

LEMMA CalmKeepsTexts ==
    ASSUME IInv, Calm
    PROVE  TextsComeFromCalls'
<1>1. ASSUME NEW c, NEW f \in File, NEW text, Wrote(c, f, text) PROVE Wrote(c, f, text)'
  BY <1>1 DEF Wrote, Calm
<1>2. ASSUME NEW f \in File, disk'[f] \in Text
      PROVE  \E c \in DOMAIN call' : Wrote(c, f, disk[f])' /\ disk'[f] = disk[f]
  <2>1. disk'[f] = disk[f]
    BY <1>2 DEF Calm
  <2>2. PICK c \in DOMAIN call : Wrote(c, f, disk[f])
    BY <1>2, <2>1 DEF IInv, TextsComeFromCalls
  <2> QED BY <1>1, <2>1, <2>2 DEF Calm
<1>3. ASSUME NEW c \in DOMAIN call', call'[c].before \in Text
      PROVE  \E k \in 1 .. c - 1 : Wrote(k, call[c].file, call[c].before)'
  <2>1. c \in DOMAIN call /\ call[c].before \in Text /\ call[c].file \in File
    BY <1>3, TypesOfTheTrace DEF Calm, IInv, CallRecord
  <2>2. PICK k \in 1 .. c - 1 : Wrote(k, call[c].file, call[c].before)
    BY <2>1 DEF IInv, TextsComeFromCalls
  <2> QED BY <2>1, <2>2 DEF Wrote, Calm
<1>4. ASSUME NEW c \in DOMAIN call'
      PROVE  call'[c].backup = call'[c].before \/ call'[c].backup \in Foreign \union {Missing}
  BY <1>4 DEF Calm, IInv, TextsComeFromCalls
<1> QED BY <1>2, <1>3, <1>4 DEF TextsComeFromCalls, Wrote, Calm

LEMMA CalmKeepsCheckpoints ==
    ASSUME IInv, Calm
    PROVE  CheckpointsAreTrue'
BY DEF IInv, Calm, CheckpointsAreTrue, Wrote

LEMMA CalmRecovers ==
    ASSUME IInv, Calm, NEW f \in File, Recoverable(f)'
    PROVE  Recoverable(f)
<1>1. CheckpointsOf(f)' = CheckpointsOf(f)
  BY DEF Calm, CheckpointsOf
<1>2. ASSUME NEW i \in CheckpointsOf(f), call'[checkpoints[i].call].backup = checkpoints[i].before
      PROVE  call[checkpoints[i].call].backup = checkpoints[i].before
  BY <1>2 DEF CheckpointsOf, IInv, CheckpointsAreTrue, Wrote, Calm
<1> QED BY <1>1, <1>2 DEF Recoverable, BackupIsGood, Calm

\* If no restore moves either, what they have undone stays undone.
LEMMA CalmKeepsRestores ==
    ASSUME IInv, Calm, restore' = restore
    PROVE  UndoneFromTheEnd'
<1>1. ASSUME NEW r \in Restorer, restore[r].step # "idle", ~restore[r].dry_run, ~restore[r].moved,
             NEW f \in restore[r].wanted, Recoverable(f)', disk'[f] \in Text
      PROVE  \E i \in CheckpointsOf(f) : i <= restore[r].left /\ checkpoints[i].after = disk'[f]
  <2>1. f \in File
    BY <1>1 DEF IInv, TypeOK, Restore
  <2> QED BY <1>1, <2>1, CalmRecovers DEF IInv, UndoneFromTheEnd, Calm
<1> QED BY <1>1 DEF UndoneFromTheEnd, CheckpointsOf, Calm, IInv

----------------------------------------------------------------------------
(* The steps of the calls *)

\* A call moves on and at most loses its file.
LEMMA MovePreserves ==
    ASSUME IInv, NEW c \in DOMAIN call, NEW step \in CallSteps, Move(c, step),
           call[c].step # "over",
           step \notin {"over", "abandoned"} => c = Len(call),
           step \in {"written", "reported", "observed"} => call[c].wrote,
           step \in {"backed_up", "abandoned"} => ~call[c].wrote,
           disk' \in [File -> Content],
           \A f \in File : disk'[f] = disk[f] \/ disk'[f] \notin Text,
           UNCHANGED <<checkpoints, lock, restore, outside>>
    PROVE  IInv'
<1>1. TypeOK
  BY DEF IInv
<1>2. Calm
  BY <1>1, MoveKeeps DEF Calm
<1>3. TypeOK'
  BY <1>1, MoveKeeps DEF TypeOK
<1>4. CallsInOrder'
  BY <1>1, MoveKeeps DEF CallsInOrder, IInv
<1>5. LockIsHeld'
  BY DEF IInv, LockIsHeld
<1> QED BY <1>2, <1>3, <1>4, <1>5, CalmKeepsTexts, CalmKeepsCheckpoints, CalmKeepsRestores DEF IInv

LEMMA TypesOfACall ==
    ASSUME IInv, NEW c \in DOMAIN call
    PROVE  /\ call[c].step \in CallSteps /\ call[c].file \in File
           /\ call[c].text \in Text /\ call[c].before \in Content
           /\ call[c].backup \in Content
           /\ call[c].wrote \in BOOLEAN
           /\ call[c].text \in Content /\ call[c].text # Partial
BY TypesOfTheTrace, RecoveryAssumption DEF IInv, CallRecord, Content

LEMMA AbandonPreserves ==
    ASSUME IInv, NEW c \in DOMAIN call, Abandon(c) PROVE IInv'
BY MovePreserves DEF Abandon, CallSteps, IInv, CallsInOrder, TypeOK

LEMMA RecordResultPreserves ==
    ASSUME IInv, NEW c \in DOMAIN call, RecordResult(c) PROVE IInv'
BY MovePreserves DEF RecordResult, CallSteps, IInv, CallsInOrder, TypeOK

LEMMA ObservePreserves ==
    ASSUME IInv, NEW c \in DOMAIN call, Observe(c) PROVE IInv'
<1>1. /\ call[c].step = "reported" /\ disk' = disk /\ UNCHANGED <<checkpoints, lock, restore, outside>>
      /\ Move(c, "observed") \/ Move(c, "over")
  BY DEF Observe
<1> QED BY <1>1, MovePreserves DEF CallSteps, IInv, CallsInOrder, TypeOK

LEMMA GiveUpPreserves ==
    ASSUME IInv, NEW c \in DOMAIN call, GiveUp(c) PROVE IInv'
BY MovePreserves DEF GiveUp, CallSteps, IInv, CallsInOrder, TypeOK

LEMMA WriteFailsPreserves ==
    ASSUME IInv, NEW c \in DOMAIN call, WriteFails(c) PROVE IInv'
<1>1. PICK left \in {disk[call[c].file], Partial} :
          disk' = [disk EXCEPT ![call[c].file] = left]
  BY DEF WriteFails
<1>2. Partial \in Content /\ Partial \notin Text /\ disk \in [File -> Content]
  BY RecoveryAssumption DEF Content, IInv, TypeOK
<1>3. disk' \in [File -> Content] /\ \A f \in File : disk'[f] = disk[f] \/ disk'[f] \notin Text
  BY <1>1, <1>2, TypesOfACall
<1> QED BY <1>3, MovePreserves DEF WriteFails, CallSteps

LEMMA BackUpPreserves ==
    ASSUME IInv, NEW f \in File, NEW text \in Text, BackUp(f, text) PROVE IInv'
<1> DEFINE new == [step |-> "backed_up", file |-> f, text |-> text,
                   before |-> disk[f], backup |-> disk[f], wrote |-> FALSE]
<1> DEFINE n == Len(call)
<1>1. call \in Seq(CallRecord) /\ disk[f] \in Content
  BY DEF IInv, TypeOK
<1>2. new \in CallRecord
  BY <1>1 DEF CallRecord, CallSteps
<1>3. call' = Append(call, new) /\ UNCHANGED <<disk, checkpoints, lock, restore, outside>>
  BY DEF BackUp
<1>4. /\ new.step = "backed_up" /\ new.file = f /\ new.before = disk[f]
      /\ new.backup = disk[f] /\ new.wrote = FALSE
  OBVIOUS
<1> HIDE DEF new
<1>5. /\ n \in Nat /\ DOMAIN call = 1 .. n
      /\ call' \in Seq(CallRecord) /\ Len(call') = n + 1 /\ DOMAIN call' = 1 .. (n + 1)
      /\ \A c \in 1 .. n : call'[c] = call[c]
      /\ call'[n + 1] = new
  BY <1>1, <1>2, <1>3
<1>6. TypeOK'
  BY <1>3, <1>5 DEF IInv, TypeOK
<1>7. CallsInOrder'
  <2>1. \A c \in 1 .. n : call[c].step \in {"over", "abandoned"}
    BY <1>5 DEF BackUp, IInv, CallsInOrder
  <2> QED BY <1>4, <1>5, <2>1 DEF CallsInOrder, IInv
<1>8. TextsComeFromCalls'
  <2>1. ASSUME NEW c \in DOMAIN call', call'[c].before \in Text
        PROVE  \E k \in 1 .. c - 1 : Wrote(k, call[c].file, call[c].before)'
    <3>1. CASE c = n + 1
      <4>1. PICK k \in DOMAIN call : Wrote(k, f, disk[f])
        BY <1>4, <1>5, <2>1, <3>1 DEF IInv, TextsComeFromCalls
      <4> QED BY <1>4, <1>5, <3>1, <4>1 DEF Wrote
    <3>2. CASE c \in 1 .. n
      BY <1>5, <2>1, <3>2 DEF IInv, TextsComeFromCalls, Wrote
    <3> QED BY <1>5, <3>1, <3>2
  <2>2. ASSUME NEW c \in DOMAIN call'
        PROVE  call'[c].backup = call'[c].before \/ call'[c].backup \in Foreign \union {Missing}
    BY <1>4, <1>5 DEF IInv, TextsComeFromCalls
  <2>3. ASSUME NEW g \in File, disk[g] \in Text PROVE \E c \in DOMAIN call' : Wrote(c, g, disk[g])'
    BY <1>3, <1>5, <2>3 DEF IInv, TextsComeFromCalls, Wrote
  <2> QED BY <1>3, <2>1, <2>2, <2>3 DEF TextsComeFromCalls
<1>9. CheckpointsAreTrue'
  BY <1>3, <1>5 DEF IInv, CheckpointsAreTrue, Wrote
<1>10. ASSUME NEW g \in File, Recoverable(g)' PROVE Recoverable(g)
  <2>1. \A i \in CheckpointsOf(g) : checkpoints[i].call \in 1 .. n
    BY <1>5 DEF CheckpointsOf, IInv, CheckpointsAreTrue, Wrote
  <2> QED BY <1>3, <1>5, <1>10, <2>1 DEF Recoverable, CheckpointsOf, BackupIsGood
<1>11. UndoneFromTheEnd'
  BY <1>3, <1>10 DEF IInv, UndoneFromTheEnd, CheckpointsOf, TypeOK, Restore
<1>12. LockIsHeld'
  BY <1>3 DEF IInv, LockIsHeld
<1> QED BY <1>6, <1>7, <1>8, <1>9, <1>11, <1>12 DEF IInv

\* A write that lands makes its file one whose last write has no checkpoint.
LEMMA WritePreserves ==
    ASSUME IInv, NEW c \in DOMAIN call, Write(c) PROVE IInv'
<1> DEFINE new == [call[c] EXCEPT !.wrote = TRUE,
                                  !.step = IF @ = "abandoned" THEN "over" ELSE "written"]
<1> DEFINE f == call[c].file
<1>1. /\ TypeOK /\ call \in Seq(CallRecord) /\ call[c] \in CallRecord
      /\ f \in File /\ call[c].text \in Text /\ disk \in [File -> Content]
  BY TypesOfTheTrace, TypesOfACall DEF IInv, TypeOK
<1>2. /\ call' = [call EXCEPT ![c] = new]
      /\ disk' = [disk EXCEPT ![f] = call[c].text]
      /\ UNCHANGED <<checkpoints, lock, restore, outside>>
  BY DEF Write
<1>3. /\ new \in CallRecord
      /\ new.file = f /\ new.text = call[c].text /\ new.before = call[c].before
      /\ new.backup = call[c].backup /\ new.wrote = TRUE
      /\ new.step = IF call[c].step = "abandoned" THEN "over" ELSE "written"
  BY <1>1 DEF CallRecord, CallSteps
<1> HIDE DEF new
<1>4. /\ call' \in Seq(CallRecord) /\ Len(call') = Len(call) /\ DOMAIN call' = DOMAIN call
      /\ \A d \in DOMAIN call : call'[d] = IF d = c THEN new ELSE call[d]
  BY <1>1, <1>2, <1>3, ReplaceInSequence
<1>5. \A d \in DOMAIN call :
          /\ call'[d].file = call[d].file /\ call'[d].text = call[d].text
          /\ call'[d].before = call[d].before /\ call'[d].backup = call[d].backup
          /\ call[d].wrote => call'[d].wrote
  BY <1>3, <1>4
<1>6. call'[c].wrote /\ call[c].step # "over" /\ (call[c].step = "abandoned" \/ c = Len(call))
  BY <1>3, <1>4 DEF Write, IInv, CallsInOrder
<1>7. TypeOK'
  <2>1. disk' \in [File -> Content]
    BY <1>1, <1>2, TypesOfACall
  <2> QED BY <1>1, <1>2, <1>4, <2>1 DEF TypeOK
<1>8. CallsInOrder'
  BY <1>3, <1>4, <1>6 DEF IInv, CallsInOrder, Write
<1>9. TextsComeFromCalls'
  <2>1. ASSUME NEW d, NEW g \in File, NEW text, Wrote(d, g, text) PROVE Wrote(d, g, text)'
    BY <1>4, <1>5, <2>1 DEF Wrote
  <2>2. ASSUME NEW g \in File, disk'[g] \in Text
        PROVE  \E d \in DOMAIN call' : Wrote(d, g, disk[g])'
    <3>1. CASE g = f
      BY <1>1, <1>2, <1>4, <1>5, <1>6, <3>1 DEF Wrote
    <3>2. CASE g # f
      BY <1>1, <1>2, <1>4, <1>5, <2>2, <3>2 DEF IInv, TextsComeFromCalls, Wrote
    <3> QED BY <3>1, <3>2
  <2>3. ASSUME NEW d \in DOMAIN call', call'[d].before \in Text
        PROVE  \E k \in 1 .. d - 1 : Wrote(k, call[d].file, call[d].before)'
    <3>1. PICK k \in 1 .. d - 1 : Wrote(k, call[d].file, call[d].before)
      BY <1>4, <1>5, <2>3 DEF IInv, TextsComeFromCalls
    <3> QED BY <1>4, <1>5, <3>1 DEF Wrote
  <2> QED BY <1>4, <1>5, <2>2, <2>3 DEF TextsComeFromCalls, IInv
<1>10. CheckpointsAreTrue'
  BY <1>2, <1>4, <1>5, <1>6 DEF IInv, CheckpointsAreTrue, Wrote
<1>11. ~Recoverable(f)'
  <2>1. \A i \in DOMAIN checkpoints : checkpoints[i].call # c
    BY <1>6 DEF IInv, CheckpointsAreTrue
  <2> QED BY <1>2, <1>4, <1>5, <1>6, <2>1 DEF Recoverable, CheckpointsOf
<1>12. ASSUME NEW g \in File, Recoverable(g)' PROVE Recoverable(g) /\ disk'[g] = disk[g]
  <2>1. \A i \in CheckpointsOf(g) : checkpoints[i].call \in DOMAIN call
    BY DEF CheckpointsOf, IInv, CheckpointsAreTrue, Wrote
  <2> QED BY <1>1, <1>2, <1>4, <1>5, <1>11, <1>12, <2>1 DEF Recoverable, CheckpointsOf, BackupIsGood
<1>13. UndoneFromTheEnd'
  BY <1>2, <1>12 DEF IInv, UndoneFromTheEnd, CheckpointsOf, TypeOK, Restore
<1>14. LockIsHeld'
  BY <1>2 DEF IInv, LockIsHeld
<1> QED BY <1>7, <1>8, <1>9, <1>10, <1>13, <1>14 DEF IInv

\* While the lock is free no restore is under way, so a checkpoint disturbs none.
LEMMA RecordCheckpointPreserves ==
    ASSUME IInv, NEW c \in DOMAIN call, RecordCheckpoint(c) PROVE IInv'
<1> DEFINE new == [call |-> c, file |-> call[c].file,
                   before |-> call[c].before, after |-> call[c].text]
<1>1. /\ TypeOK /\ checkpoints \in Seq(Checkpoint)
      /\ Len(checkpoints) \in Nat /\ DOMAIN checkpoints = 1 .. Len(checkpoints)
  BY TypesOfTheTrace DEF IInv, TypeOK
<1>2. new \in Checkpoint
  BY TypesOfTheTrace, TypesOfACall DEF Checkpoint, IInv
<1>3. /\ checkpoints' = Append(checkpoints, new) /\ Move(c, "over")
      /\ call[c].step = "observed" /\ lock = Nobody
      /\ UNCHANGED <<disk, lock, restore, outside>>
  BY DEF RecordCheckpoint
<1>4. /\ new.call = c /\ new.file = call[c].file
      /\ new.before = call[c].before /\ new.after = call[c].text
  OBVIOUS
<1> HIDE DEF new
<1>5. /\ checkpoints' \in Seq(Checkpoint) /\ Len(checkpoints') = Len(checkpoints) + 1
      /\ DOMAIN checkpoints' = 1 .. (Len(checkpoints) + 1)
      /\ \A i \in DOMAIN checkpoints : checkpoints'[i] = checkpoints[i]
      /\ checkpoints'[Len(checkpoints) + 1] = new
  BY <1>1, <1>2, <1>3
<1>6. "over" \in CallSteps
  BY DEF CallSteps
<1>7. /\ call' \in Seq(CallRecord) /\ Len(call') = Len(call) /\ DOMAIN call' = DOMAIN call
      /\ \A d \in DOMAIN call :
            /\ call'[d].file = call[d].file /\ call'[d].text = call[d].text
            /\ call'[d].before = call[d].before /\ call'[d].backup = call[d].backup
            /\ call'[d].wrote = call[d].wrote
            /\ call'[d].step = IF d = c THEN "over" ELSE call[d].step
  BY <1>1, <1>3, <1>6, MoveKeeps
<1>8. TypeOK'
  BY <1>1, <1>3, <1>5, <1>7 DEF TypeOK
<1>9. CallsInOrder'
  BY <1>7 DEF IInv, CallsInOrder
<1>10. TextsComeFromCalls'
  <2>1. ASSUME NEW g \in File, disk[g] \in Text PROVE \E d \in DOMAIN call' : Wrote(d, g, disk[g])'
    BY <1>3, <1>7, <2>1 DEF IInv, TextsComeFromCalls, Wrote
  <2>2. ASSUME NEW d \in DOMAIN call', call'[d].before \in Text
        PROVE  \E k \in 1 .. d - 1 : Wrote(k, call[d].file, call[d].before)'
    <3>1. PICK k \in 1 .. d - 1 : Wrote(k, call[d].file, call[d].before)
      BY <1>7, <2>2 DEF IInv, TextsComeFromCalls
    <3> QED BY <1>7, <3>1 DEF Wrote
  <2> QED BY <1>3, <1>7, <2>1, <2>2 DEF TextsComeFromCalls, IInv
<1>11. c = Len(call) /\ call[c].wrote
  BY <1>3 DEF IInv, CallsInOrder
<1>12. \A i \in DOMAIN checkpoints : checkpoints[i].call < c
  <2>1. \A i \in DOMAIN checkpoints : checkpoints[i].call \in DOMAIN call /\ checkpoints[i].call # c
    BY <1>3 DEF IInv, CheckpointsAreTrue, Wrote
  <2> QED BY <1>1, <1>11, <2>1, TypesOfTheTrace
<1>13. CheckpointsAreTrue'
  <2>1. ASSUME NEW i \in DOMAIN checkpoints'
        PROVE  /\ Wrote(checkpoints[i].call, checkpoints[i].file, checkpoints[i].after)'
               /\ call'[checkpoints'[i].call].step = "over"
               /\ call'[checkpoints'[i].call].before = checkpoints'[i].before
    <3>1. CASE i \in DOMAIN checkpoints
      BY <1>5, <1>7, <3>1 DEF IInv, CheckpointsAreTrue, Wrote
    <3>2. CASE i = Len(checkpoints) + 1
      BY <1>4, <1>5, <1>7, <1>11, <3>2 DEF Wrote
    <3> QED BY <1>1, <1>5, <3>1, <3>2
  <2>2. \A i, j \in DOMAIN checkpoints' : i < j => checkpoints'[i].call < checkpoints'[j].call
    BY <1>1, <1>4, <1>5, <1>12 DEF IInv, CheckpointsAreTrue
  <2> QED BY <2>1, <2>2 DEF CheckpointsAreTrue
<1>14. \A r \in Restorer : restore[r].step = "idle" /\ restore'[r] = restore[r]
  BY <1>3, RecoveryAssumption DEF IInv, LockIsHeld
<1>15. UndoneFromTheEnd'
  <2>1. \A r \in Restorer : restore[r].left <= Len(checkpoints')
    BY <1>1, <1>5 DEF IInv, UndoneFromTheEnd, TypeOK, Restore
  <2> QED BY <1>3, <1>14, <2>1 DEF UndoneFromTheEnd
<1>16. LockIsHeld'
  BY <1>3 DEF IInv, LockIsHeld
<1> QED BY <1>8, <1>9, <1>10, <1>13, <1>15, <1>16 DEF IInv

----------------------------------------------------------------------------
(* The steps of the restores *)

LEMMA OthersAreIdle ==
    ASSUME IInv, NEW r \in Restorer, lock = r \/ lock = Nobody \/ restore[r].step # "idle"
    PROVE  \A q \in Restorer \ {r} : restore[q].step = "idle"
BY RecoveryAssumption DEF IInv, LockIsHeld

\* The checkpoint to be undone next is there.
LEMMA UndoingIsThere ==
    ASSUME IInv, NEW r \in Restorer, restore[r].left > 0
    PROVE  /\ restore[r].left \in DOMAIN checkpoints
           /\ restore[r].left - 1 \in Nat
           /\ Undoing(r) \in Checkpoint
           /\ Undoing(r).call \in DOMAIN call
           /\ Undoing(r).file = call[Undoing(r).call].file
           /\ Undoing(r).before = call[Undoing(r).call].before
           /\ Undoing(r).file \in File
<1>1. restore[r].left \in Nat /\ restore[r].left \in DOMAIN checkpoints
  BY TypesOfTheTrace DEF IInv, TypeOK, Restore, UndoneFromTheEnd
<1>2. Undoing(r) \in Checkpoint
  BY <1>1, TypesOfTheTrace DEF IInv, Undoing
<1> QED BY <1>1, <1>2 DEF Undoing, IInv, CheckpointsAreTrue, Wrote, Checkpoint

\* A step of one restore that changes no call, file or checkpoint.
LEMMA RestoreStepPreserves ==
    ASSUME IInv, NEW r \in Restorer, NEW new \in Restore,
           restore' = [restore EXCEPT ![r] = new],
           lock' \in Restorer \union {Nobody},
           UNCHANGED <<disk, call, checkpoints, edits>>, raced' \in BOOLEAN,
           \A q \in Restorer \ {r} : restore[q].step = "idle",
           new.step # "idle" => lock' = r,
           new.left <= Len(checkpoints),
           new.step = "write" => new.left > 0 /\ ~new.dry_run /\ ~new.moved,
           new.step = "done" => new.left = 0,
           new.step # "idle" /\ ~new.dry_run /\ ~new.moved =>
              \A f \in new.wanted :
                  Recoverable(f) /\ disk[f] \in Text =>
                      \E i \in CheckpointsOf(f) : i <= new.left /\ checkpoints[i].after = disk[f]
    PROVE  IInv'
<1>1. /\ restore' \in [Restorer -> Restore] /\ restore'[r] = new
      /\ \A q \in Restorer \ {r} : restore'[q] = restore[q]
  BY DEF IInv, TypeOK
<1>2. TypeOK'
  BY <1>1 DEF IInv, TypeOK
<1>3. LockIsHeld'
  BY <1>1 DEF LockIsHeld
<1>4. CallsInOrder' /\ TextsComeFromCalls' /\ CheckpointsAreTrue'
  BY DEF IInv, CallsInOrder, TextsComeFromCalls, CheckpointsAreTrue, Wrote
<1>5. UndoneFromTheEnd'
  BY <1>1 DEF IInv, UndoneFromTheEnd, Recoverable, CheckpointsOf, BackupIsGood
<1> QED BY <1>2, <1>3, <1>4, <1>5 DEF IInv

LEMMA StartRestorePreserves ==
    ASSUME IInv, NEW r \in Restorer, StartRestore(r) PROVE IInv'
<1>1. PICK wanted \in (SUBSET File) \ {{}}, dry_run \in BOOLEAN, force \in BOOLEAN, moved \in BOOLEAN :
          restore' = [restore EXCEPT ![r] =
              [step |-> "check", left |-> Len(checkpoints), wanted |-> wanted,
               dry_run |-> dry_run, force |-> force, moved |-> moved]]
  BY DEF StartRestore
<1> DEFINE new == [step |-> "check", left |-> Len(checkpoints), wanted |-> wanted,
                   dry_run |-> dry_run, force |-> force, moved |-> moved]
<1>2. new \in Restore /\ Len(checkpoints) \in Nat
  BY TypesOfTheTrace DEF Restore, RestoreSteps, IInv
<1>3. ASSUME NEW f \in wanted, Recoverable(f), disk[f] \in Text
      PROVE  \E i \in CheckpointsOf(f) : i <= Len(checkpoints) /\ checkpoints[i].after = disk[f]
  <2>1. PICK c \in DOMAIN call : Wrote(c, f, disk[f])
    BY <1>3 DEF IInv, TextsComeFromCalls
  <2>2. PICK i \in CheckpointsOf(f) : checkpoints[i].call = c
    BY <1>3, <2>1 DEF Recoverable, Wrote
  <2>3. i \in DOMAIN checkpoints /\ checkpoints[i].after = disk[f]
    BY <2>1, <2>2 DEF CheckpointsOf, IInv, CheckpointsAreTrue, Wrote
  <2> QED BY <2>2, <2>3, TypesOfTheTrace DEF IInv
<1>4. \A q \in Restorer \ {r} : restore[q].step = "idle"
  BY OthersAreIdle DEF StartRestore
<1>5. restore' = [restore EXCEPT ![r] = new] /\ lock' = r /\ UNCHANGED <<disk, call, checkpoints, outside>>
  BY <1>1 DEF StartRestore
<1>6. new.step = "check" /\ new.left = Len(checkpoints) /\ new.wanted = wanted
  OBVIOUS
<1> HIDE DEF new
<1>7. new.left <= Len(checkpoints) /\ lock' \in Restorer \union {Nobody}
  BY <1>2, <1>5, <1>6
<1>8. new.step # "idle" /\ new.step # "write" /\ new.step # "done"
  BY <1>6
<1>9. \A f \in new.wanted :
          Recoverable(f) /\ disk[f] \in Text =>
              \E i \in CheckpointsOf(f) : i <= new.left /\ checkpoints[i].after = disk[f]
  BY <1>3, <1>6
<1> QED BY <1>2, <1>4, <1>5, <1>7, <1>8, <1>9, RestoreStepPreserves DEF IInv, TypeOK

LEMMA AdvanceTypes ==
    ASSUME IInv, NEW r \in Restorer, restore[r].left > 0, Advance(r)
    PROVE  \E new \in Restore :
              /\ restore' = [restore EXCEPT ![r] = new]
              /\ new.step = "check" /\ new.left = restore[r].left - 1
              /\ new.wanted = restore[r].wanted /\ new.dry_run = restore[r].dry_run
              /\ new.force = restore[r].force /\ new.moved = restore[r].moved
<1> DEFINE new == [restore[r] EXCEPT !.left = @ - 1, !.step = "check"]
<1>1. restore[r] \in Restore /\ restore' = [restore EXCEPT ![r] = new]
  BY DEF IInv, TypeOK, Advance
<1>2. new \in Restore
  BY <1>1, UndoingIsThere DEF Restore, RestoreSteps
<1> QED BY <1>1, <1>2 DEF Restore

LEMMA PassPreserves ==
    ASSUME IInv, NEW r \in Restorer, Pass(r) PROVE IInv'
<1>1. PICK new \in Restore :
          /\ restore' = [restore EXCEPT ![r] = new]
          /\ new.step = "check" /\ new.left = restore[r].left - 1
          /\ new.wanted = restore[r].wanted /\ new.dry_run = restore[r].dry_run
          /\ new.force = restore[r].force /\ new.moved = restore[r].moved
  BY AdvanceTypes DEF Pass
<1>2. /\ restore[r].step = "check" /\ restore[r].left > 0 /\ restore[r].left \in Nat
      /\ UNCHANGED <<disk, call, checkpoints, lock, outside>>
  BY DEF Pass, IInv, TypeOK, Restore
<1>3. ASSUME ~new.dry_run, ~new.moved, NEW f \in new.wanted, Recoverable(f), disk[f] \in Text
      PROVE  \E i \in CheckpointsOf(f) : i <= new.left /\ checkpoints[i].after = disk[f]
  <2>1. PICK i \in CheckpointsOf(f) : i <= restore[r].left /\ checkpoints[i].after = disk[f]
    BY <1>1, <1>2, <1>3 DEF IInv, UndoneFromTheEnd
  <2>2. CASE i = restore[r].left
    <3>1. Undoing(r) = checkpoints[i] /\ Undoing(r).file = f
      BY <2>2 DEF Undoing, CheckpointsOf
    <3>2. Applicable(r, Undoing(r))
      BY <1>1, <1>3, <2>1, <3>1 DEF Applicable, Recoverable
    <3> QED BY <1>1, <1>3, <3>2 DEF Pass
  <2>3. CASE i # restore[r].left
    BY <1>1, <1>2, <2>1, <2>3, TypesOfTheTrace DEF CheckpointsOf, IInv
  <2> QED BY <2>2, <2>3
<1>4. lock' = r /\ lock' \in Restorer \union {Nobody}
  BY <1>2 DEF IInv, LockIsHeld, TypeOK
<1>5. new.left <= Len(checkpoints)
  BY <1>1, <1>2, TypesOfTheTrace DEF IInv, UndoneFromTheEnd
<1> QED BY <1>1, <1>2, <1>3, <1>4, <1>5, OthersAreIdle, RestoreStepPreserves DEF IInv, TypeOK

LEMMA CheckPreserves ==
    ASSUME IInv, NEW r \in Restorer, Check(r) PROVE IInv'
<1> DEFINE new == [restore[r] EXCEPT !.step = "write"]
<1>1. /\ restore[r] \in Restore /\ restore' = [restore EXCEPT ![r] = new]
      /\ restore[r].step = "check" /\ restore[r].left > 0 /\ ~restore[r].dry_run
      /\ ~restore[r].moved /\ UNCHANGED <<disk, call, checkpoints, lock, edits>>
      /\ raced' \in BOOLEAN
  BY DEF Check, IInv, TypeOK, Applicable
<1>2. /\ new \in Restore /\ new.step = "write" /\ new.left = restore[r].left
      /\ new.wanted = restore[r].wanted /\ new.dry_run = restore[r].dry_run
      /\ new.moved = restore[r].moved
  BY <1>1 DEF Restore, RestoreSteps
<1> HIDE DEF new
<1>3. lock' = r /\ lock' \in Restorer \union {Nobody}
  BY <1>1 DEF IInv, LockIsHeld, TypeOK
<1>4. new.left <= Len(checkpoints) /\ new.left > 0 /\ ~new.dry_run /\ ~new.moved
  BY <1>1, <1>2 DEF IInv, UndoneFromTheEnd
<1>5. \A f \in new.wanted :
          Recoverable(f) /\ disk[f] \in Text =>
              \E i \in CheckpointsOf(f) : i <= new.left /\ checkpoints[i].after = disk[f]
  BY <1>1, <1>2 DEF IInv, UndoneFromTheEnd
<1>6. \A q \in Restorer \ {r} : restore[q].step = "idle"
  BY <1>1, OthersAreIdle
<1> QED BY <1>1, <1>2, <1>3, <1>4, <1>5, <1>6, RestoreStepPreserves

LEMMA FinishPreserves ==
    ASSUME IInv, NEW r \in Restorer, Finish(r) PROVE IInv'
<1> DEFINE new == [restore[r] EXCEPT !.step = "done"]
<1>1. /\ restore[r] \in Restore /\ restore' = [restore EXCEPT ![r] = new]
      /\ restore[r].step = "check" /\ restore[r].left = 0
      /\ UNCHANGED <<disk, call, checkpoints, lock, outside>>
  BY DEF Finish, IInv, TypeOK
<1>2. /\ new \in Restore /\ new.step = "done" /\ new.left = restore[r].left
      /\ new.wanted = restore[r].wanted /\ new.dry_run = restore[r].dry_run
      /\ new.moved = restore[r].moved
  BY <1>1 DEF Restore, RestoreSteps
<1> HIDE DEF new
<1>3. lock' = r /\ lock' \in Restorer \union {Nobody}
  BY <1>1 DEF IInv, LockIsHeld, TypeOK
<1>4. new.left <= Len(checkpoints) /\ new.left = 0
  BY <1>1, <1>2 DEF IInv, UndoneFromTheEnd
<1>5. ~new.dry_run /\ ~new.moved =>
          \A f \in new.wanted :
              Recoverable(f) /\ disk[f] \in Text =>
                  \E i \in CheckpointsOf(f) : i <= new.left /\ checkpoints[i].after = disk[f]
  BY <1>1, <1>2 DEF IInv, UndoneFromTheEnd
<1>6. \A q \in Restorer \ {r} : restore[q].step = "idle"
  BY <1>1, OthersAreIdle
<1> QED BY <1>1, <1>2, <1>3, <1>4, <1>5, <1>6, RestoreStepPreserves DEF IInv, TypeOK

LEMMA NoRestoreTypes ==
    NoRestore \in Restore /\ NoRestore.step = "idle" /\ NoRestore.left = 0
BY DEF NoRestore, Restore, RestoreSteps

LEMMA LeaveFreesTheLock ==
    ASSUME IInv, NEW r \in Restorer, Leave(r), restore[r].step # "idle"
    PROVE  /\ restore' = [restore EXCEPT ![r] = NoRestore]
           /\ lock' \in Restorer \union {Nobody}
           /\ \A q \in Restorer : restore'[q].step = "idle" /\ restore'[q].left <= Len(checkpoints)
<1>1. restore' = [restore EXCEPT ![r] = NoRestore] /\ lock' \in Restorer \union {Nobody}
  BY DEF Leave, IInv, TypeOK
<1>2. \A q \in Restorer \ {r} : restore'[q] = restore[q] /\ restore[q].step = "idle"
  BY <1>1, OthersAreIdle DEF IInv, TypeOK
<1>3. restore'[r] = NoRestore
  BY <1>1 DEF IInv, TypeOK
<1>4. \A q \in Restorer \ {r} : restore[q].left <= Len(checkpoints)
  BY DEF IInv, UndoneFromTheEnd
<1> QED BY <1>1, <1>2, <1>3, <1>4, NoRestoreTypes, TypesOfTheTrace DEF IInv

LEMMA ReleasePreserves ==
    ASSUME IInv, NEW r \in Restorer, Release(r) PROVE IInv'
<1>1. /\ Leave(r) /\ restore[r].step # "idle" /\ UNCHANGED <<disk, call, checkpoints, outside>>
  BY DEF Release
<1>2. \A q \in Restorer \ {r} : restore[q].step = "idle"
  BY <1>1, OthersAreIdle
<1>3. 0 <= Len(checkpoints)
  BY TypesOfTheTrace DEF IInv
<1> QED BY <1>1, <1>2, <1>3, LeaveFreesTheLock, NoRestoreTypes, RestoreStepPreserves DEF IInv, TypeOK

\* What a restore writes is no text, or one that an earlier call had written.
LEMMA RestoredIsKnown ==
    ASSUME IInv, NEW r \in Restorer, restore[r].left > 0
    PROVE  /\ Restored(Undoing(r)) \in Content
           /\ Restored(Undoing(r)) \in Text =>
                 \E k \in DOMAIN call :
                     k < Undoing(r).call /\ Wrote(k, Undoing(r).file, Restored(Undoing(r)))
<1> DEFINE c == Undoing(r).call
<1>1. /\ c \in DOMAIN call /\ Undoing(r).file = call[c].file /\ Undoing(r).before = call[c].before
  BY UndoingIsThere
<1>2. Missing \in Content /\ Missing \notin Text /\ Text \intersect Foreign = {}
  BY RecoveryAssumption DEF Content
<1>3. CASE Undoing(r).before = Missing
  BY <1>2, <1>3 DEF Restored
<1>4. CASE Undoing(r).before # Missing
  <2>1. Restored(Undoing(r)) = call[c].backup /\ call[c].backup \in Content
    BY <1>1, <1>4, TypesOfACall DEF Restored
  <2>2. ASSUME call[c].backup \in Text
        PROVE  \E k \in DOMAIN call : k < c /\ Wrote(k, call[c].file, call[c].backup)
    <3>1. call[c].backup = call[c].before
      BY <1>1, <1>2, <2>2 DEF IInv, TextsComeFromCalls
    <3>2. PICK k \in 1 .. c - 1 : Wrote(k, call[c].file, call[c].before)
      BY <1>1, <2>2, <3>1 DEF IInv, TextsComeFromCalls
    <3> QED BY <1>1, <3>1, <3>2, TypesOfTheTrace DEF IInv, Wrote
  <2> QED BY <1>1, <2>1, <2>2
<1> QED BY <1>3, <1>4

\* A restore puts known content, or part of it, into one file.
LEMMA RestoringKeepsTexts ==
    ASSUME IInv, NEW r \in Restorer, restore[r].left > 0,
           NEW content \in {Restored(Undoing(r)), Partial},
           disk' = [disk EXCEPT ![Undoing(r).file] = content],
           UNCHANGED <<call, checkpoints>>
    PROVE  /\ disk' \in [File -> Content]
           /\ TextsComeFromCalls'
<1> DEFINE f == Undoing(r).file
<1>1. Partial \in Content /\ Partial \notin Text /\ disk \in [File -> Content] /\ f \in File
  BY RecoveryAssumption, UndoingIsThere DEF Content, IInv, TypeOK
<1>2. /\ content \in Content
      /\ content \in Text => \E k \in DOMAIN call : Wrote(k, f, content)
  BY <1>1, RestoredIsKnown
<1>3. disk' \in [File -> Content] /\ disk'[f] = content /\ \A g \in File : g # f => disk'[g] = disk[g]
  BY <1>1, <1>2
<1>4. ASSUME NEW g \in File, disk'[g] \in Text PROVE \E c \in DOMAIN call : Wrote(c, g, disk'[g])
  <2>1. CASE g = f
    BY <1>2, <1>3, <1>4, <2>1
  <2>2. CASE g # f
    BY <1>3, <1>4, <2>2 DEF IInv, TextsComeFromCalls
  <2> QED BY <2>1, <2>2
<1> QED BY <1>3, <1>4 DEF TextsComeFromCalls, IInv, Wrote

LEMMA ApplyPreserves ==
    ASSUME IInv, NEW r \in Restorer, Apply(r) PROVE IInv'
<1> DEFINE f == Undoing(r).file
<1>1. /\ restore[r].step = "write" /\ restore[r].left > 0 /\ restore[r].left \in Nat
      /\ ~restore[r].dry_run /\ ~restore[r].moved
      /\ restore[r].left <= Len(checkpoints)
  BY DEF Apply, IInv, UndoneFromTheEnd, TypeOK, Restore
<1>2. PICK new \in Restore :
          /\ restore' = [restore EXCEPT ![r] = new]
          /\ new.step = "check" /\ new.left = restore[r].left - 1
          /\ new.wanted = restore[r].wanted /\ new.dry_run = restore[r].dry_run
          /\ new.force = restore[r].force /\ new.moved = restore[r].moved
  BY <1>1, AdvanceTypes DEF Apply
<1>3. /\ disk' = [disk EXCEPT ![f] = Restored(Undoing(r))]
      /\ UNCHANGED <<call, checkpoints, lock, outside>>
  BY DEF Apply
<1>4. disk' \in [File -> Content] /\ TextsComeFromCalls'
  BY <1>1, <1>3, RestoringKeepsTexts
<1>5. /\ restore' \in [Restorer -> Restore] /\ restore'[r] = new
      /\ \A q \in Restorer \ {r} : restore'[q] = restore[q] /\ restore[q].step = "idle"
  BY <1>1, <1>2, OthersAreIdle DEF IInv, TypeOK
<1>6. TypeOK' /\ LockIsHeld'
  BY <1>1, <1>3, <1>4, <1>5 DEF IInv, TypeOK, LockIsHeld
<1>7. CallsInOrder' /\ CheckpointsAreTrue'
  BY <1>3 DEF IInv, CallsInOrder, CheckpointsAreTrue, Wrote
<1>8. \A g : CheckpointsOf(g)' = CheckpointsOf(g) /\ (Recoverable(g)' <=> Recoverable(g))
  BY <1>3 DEF CheckpointsOf, Recoverable, BackupIsGood
<1>9. ASSUME NEW g \in restore[r].wanted, Recoverable(g), disk'[g] \in Text
      PROVE  \E i \in CheckpointsOf(g) : i <= restore[r].left - 1 /\ checkpoints[i].after = disk'[g]
  <2>1. restore[r].left \in DOMAIN checkpoints /\ Undoing(r) = checkpoints[restore[r].left]
    BY <1>1, UndoingIsThere DEF Undoing
  <2>2. g \in File /\ disk \in [File -> Content] /\ f \in File
    BY <1>1, UndoingIsThere DEF IInv, TypeOK, Restore
  <2>3. CASE g = f
    <3>1. disk'[g] = Restored(Undoing(r))
      BY <1>3, <2>2, <2>3
    <3>2. PICK k \in DOMAIN call : k < Undoing(r).call /\ Wrote(k, f, disk'[g])
      BY <1>1, <1>9, <3>1, RestoredIsKnown
    <3>3. PICK i \in CheckpointsOf(g) : checkpoints[i].call = k
      BY <1>9, <2>3, <3>2 DEF Recoverable, Wrote
    <3>4. i \in DOMAIN checkpoints /\ checkpoints[i].after = disk'[g]
      BY <3>2, <3>3 DEF CheckpointsOf, IInv, CheckpointsAreTrue, Wrote
    <3>5. i < restore[r].left
      <4>1. i \in Nat /\ k \in Nat /\ Undoing(r).call \in Nat
        BY <3>2, <3>4, <2>1, <1>1, TypesOfTheTrace, UndoingIsThere DEF IInv
      <4>2. ~(restore[r].left < i) /\ i # restore[r].left
        BY <2>1, <3>2, <3>3, <3>4, <4>1 DEF IInv, CheckpointsAreTrue
      <4> QED BY <1>1, <4>1, <4>2
    <3> QED BY <1>1, <3>3, <3>4, <3>5, TypesOfTheTrace DEF IInv
  <2>4. CASE g # f
    <3>1. disk'[g] = disk[g]
      BY <1>3, <2>2, <2>4
    <3>2. PICK i \in CheckpointsOf(g) : i <= restore[r].left /\ checkpoints[i].after = disk[g]
      BY <1>1, <1>9, <3>1 DEF IInv, UndoneFromTheEnd
    <3>3. i # restore[r].left /\ i \in Nat
      BY <2>1, <2>4, <3>2, TypesOfTheTrace DEF CheckpointsOf, IInv
    <3> QED BY <1>1, <3>1, <3>2, <3>3
  <2> QED BY <2>3, <2>4
<1>10. UndoneFromTheEnd'
  <2>1. \A q \in Restorer : restore'[q].left <= Len(checkpoints)
    BY <1>1, <1>2, <1>5, TypesOfTheTrace DEF IInv, UndoneFromTheEnd
  <2>2. /\ restore'[r].step = "check" /\ restore'[r].wanted = restore[r].wanted
        /\ restore'[r].left = restore[r].left - 1
        /\ \A q \in Restorer : q # r => restore'[q].step = "idle"
    BY <1>2, <1>5
  <2> QED BY <1>3, <1>8, <1>9, <2>1, <2>2 DEF UndoneFromTheEnd
<1> QED BY <1>4, <1>6, <1>7, <1>10 DEF IInv

LEMMA StopRestorePreserves ==
    ASSUME IInv, NEW r \in Restorer, StopRestore(r) PROVE IInv'
<1>1. Leave(r) /\ restore[r].step # "idle" /\ UNCHANGED <<call, checkpoints, outside>>
  BY DEF StopRestore
<1>2. /\ restore' = [restore EXCEPT ![r] = NoRestore]
      /\ lock' \in Restorer \union {Nobody}
      /\ \A q \in Restorer : restore'[q].step = "idle" /\ restore'[q].left <= Len(checkpoints)
  BY <1>1, LeaveFreesTheLock
<1>3. disk' \in [File -> Content] /\ TextsComeFromCalls'
  <2>1. CASE UNCHANGED disk
    BY <1>1, <2>1 DEF IInv, TypeOK, TextsComeFromCalls, Wrote
  <2>2. CASE /\ restore[r].step = "write"
             /\ \E content \in {Restored(Undoing(r)), Partial} :
                   disk' = [disk EXCEPT ![Undoing(r).file] = content]
    <3>1. restore[r].left > 0
      BY <2>2 DEF IInv, UndoneFromTheEnd
    <3> QED BY <1>1, <2>2, <3>1, RestoringKeepsTexts
  <2> QED BY <2>1, <2>2 DEF StopRestore
<1>4. TypeOK' /\ LockIsHeld' /\ UndoneFromTheEnd'
  BY <1>1, <1>2, <1>3, NoRestoreTypes DEF IInv, TypeOK, LockIsHeld, UndoneFromTheEnd
<1>5. CallsInOrder' /\ CheckpointsAreTrue'
  BY <1>1 DEF IInv, CallsInOrder, CheckpointsAreTrue, Wrote
<1> QED BY <1>3, <1>4, <1>5 DEF IInv

----------------------------------------------------------------------------
(* Everybody else, and the invariant *)

LEMMA EditPreserves ==
    ASSUME IInv, NEW f \in File, Edit(f) PROVE IInv'
<1>1. PICK content \in (Foreign \union {Missing}) \ {disk[f]} : disk' = [disk EXCEPT ![f] = content]
  BY DEF Edit
<1>2. /\ content \in Content /\ content \notin Text /\ disk \in [File -> Content]
      /\ UNCHANGED <<call, checkpoints, lock, restore>> /\ edits' \in 0 .. MaxEdits /\ raced' \in BOOLEAN
  BY RecoveryAssumption DEF Content, IInv, TypeOK, Edit, Outside
<1>3. Calm
  BY <1>1, <1>2 DEF Calm
<1>4. TypeOK'
  BY <1>1, <1>2 DEF IInv, TypeOK
<1>5. LockIsHeld' /\ CallsInOrder'
  BY <1>2 DEF IInv, LockIsHeld, CallsInOrder
<1> QED BY <1>2, <1>3, <1>4, <1>5, CalmKeepsTexts, CalmKeepsCheckpoints, CalmKeepsRestores DEF IInv

LEMMA DamageBackupPreserves ==
    ASSUME IInv, NEW c \in DOMAIN call, DamageBackup(c) PROVE IInv'
<1>1. PICK content \in (Foreign \union {Missing}) \ {call[c].backup, call[c].before} :
          call' = [call EXCEPT ![c].backup = content]
  BY DEF DamageBackup
<1> DEFINE new == [call[c] EXCEPT !.backup = content]
<1>2. /\ content \in Content /\ call \in Seq(CallRecord) /\ call[c] \in CallRecord
      /\ UNCHANGED <<disk, checkpoints, lock, restore>> /\ edits' \in 0 .. MaxEdits /\ raced' \in BOOLEAN
  BY TypesOfTheTrace, RecoveryAssumption DEF Content, IInv, TypeOK, DamageBackup, Outside
<1>3. /\ new \in CallRecord /\ new.backup = content
      /\ new.step = call[c].step /\ new.file = call[c].file /\ new.text = call[c].text
      /\ new.before = call[c].before /\ new.wrote = call[c].wrote
  BY <1>2 DEF CallRecord
<1>4. call' = [call EXCEPT ![c] = new]
  BY <1>1
<1> HIDE DEF new
<1>5. /\ call' \in Seq(CallRecord) /\ Len(call') = Len(call) /\ DOMAIN call' = DOMAIN call
      /\ \A d \in DOMAIN call : call'[d] = IF d = c THEN new ELSE call[d]
  BY <1>2, <1>3, <1>4, ReplaceInSequence
<1>6. Calm
  BY <1>1, <1>2, <1>3, <1>5 DEF Calm
<1>7. TypeOK'
  BY <1>2, <1>5 DEF IInv, TypeOK
<1>8. LockIsHeld' /\ CallsInOrder'
  BY <1>2, <1>3, <1>5 DEF IInv, LockIsHeld, CallsInOrder
<1> QED BY <1>2, <1>6, <1>7, <1>8, CalmKeepsTexts, CalmKeepsCheckpoints, CalmKeepsRestores DEF IInv

LEMMA InitEstablishes == Init => IInv
<1> SUFFICES ASSUME Init PROVE IInv
  OBVIOUS
<1>1. call = <<>> /\ checkpoints = <<>> /\ DOMAIN call = {} /\ DOMAIN checkpoints = {}
  BY DEF Init
<1>2. /\ disk \in [File -> Content] /\ \A f \in File : disk[f] \notin Text
  BY RecoveryAssumption DEF Init, Content
<1>3. TypeOK
  <2>1. <<>> \in Seq(CallRecord) /\ <<>> \in Seq(Checkpoint) /\ 0 \in 0 .. MaxEdits
    BY RecoveryAssumption
  <2>2. restore \in [Restorer -> Restore]
    BY NoRestoreTypes DEF Init
  <2> QED BY <1>1, <1>2, <2>1, <2>2 DEF Init, TypeOK
<1>4. \A r \in Restorer : restore[r].step = "idle" /\ restore[r].left = 0
  BY NoRestoreTypes DEF Init
<1> QED BY <1>1, <1>2, <1>3, <1>4
        DEF IInv, LockIsHeld, CallsInOrder, TextsComeFromCalls, CheckpointsAreTrue, UndoneFromTheEnd

LEMMA NextPreserves == IInv /\ [Next]_vars => IInv'
<1> SUFFICES ASSUME IInv, [Next]_vars PROVE IInv'
  OBVIOUS
<1>1. CASE UNCHANGED vars
  BY <1>1 DEF vars, IInv, TypeOK, LockIsHeld, CallsInOrder, TextsComeFromCalls, Wrote,
              CheckpointsAreTrue, UndoneFromTheEnd, Recoverable, CheckpointsOf, BackupIsGood
<1>2. ASSUME NEW f \in File, NEW text \in Text, BackUp(f, text) PROVE IInv'
  BY <1>2, BackUpPreserves
<1>3. ASSUME NEW c \in DOMAIN call, GovernedStep(c) PROVE IInv'
  BY <1>3, WritePreserves, WriteFailsPreserves, AbandonPreserves, RecordResultPreserves,
     ObservePreserves, RecordCheckpointPreserves, GiveUpPreserves DEF GovernedStep
<1>4. ASSUME NEW r \in Restorer, RestoreStep(r) PROVE IInv'
  BY <1>4, StartRestorePreserves, PassPreserves, CheckPreserves, ApplyPreserves,
     FinishPreserves, ReleasePreserves, StopRestorePreserves DEF RestoreStep
<1> QED BY <1>1, <1>2, <1>3, <1>4, EditPreserves, DamageBackupPreserves DEF Next

\* The inductive invariant.
THEOREM RecoveryInvariant == Spec => []IInv
BY InitEstablishes, NextPreserves, PTL DEF Spec

\* Files, calls, checkpoints and restores keep their types.
THEOREM RecoveryTypes == Spec => []TypeOK
<1>1. IInv => TypeOK
  BY DEF IInv
<1> QED BY <1>1, RecoveryInvariant, PTL

\* A restore that has gone through the trace leaves nothing that a call
\* wrote in the files it was asked for.
THEOREM RestoresAreComplete == Spec => []NothingGovernedRemains
<1>1. ASSUME IInv PROVE NothingGovernedRemains
  <2> SUFFICES ASSUME NEW r \in Restorer, restore[r].step = "done",
                      ~restore[r].dry_run, ~restore[r].moved,
                      NEW f \in restore[r].wanted, Recoverable(f), disk[f] \in Text
               PROVE  FALSE
    BY DEF NothingGovernedRemains
  <2>1. PICK i \in CheckpointsOf(f) : i <= 0
    BY <1>1 DEF IInv, UndoneFromTheEnd
  <2> QED BY <1>1, <2>1, TypesOfTheTrace DEF IInv, CheckpointsOf
<1> QED BY <1>1, RecoveryInvariant, PTL

----------------------------------------------------------------------------
(* Between a check and its write *)

\* A step that leaves the restores, backups and checkpoints, and in which no
\* edit reaches a file, disturbs no check.
LEMMA ChecksUndisturbed ==
    ASSUME IInv, CheckHolds, UNCHANGED <<checkpoints, restore, raced>>,
           \A c \in DOMAIN call : call'[c].backup = call[c].backup,
           \A f \in File : disk'[f] = disk[f] \/ disk'[f] \notin Foreign \union {Missing}
    PROVE  CheckHolds'
<1> SUFFICES ASSUME NEW r \in Restorer, restore[r].step = "write", ~raced
             PROVE  /\ Undoing(r).before = Missing \/ BackupIsGood(Undoing(r))'
                    /\ restore[r].force \/ disk'[Undoing(r).file] \notin Foreign \union {Missing}
  BY DEF CheckHolds, Undoing
<1>1. Undoing(r).file \in File /\ Undoing(r).call \in DOMAIN call /\ Undoing(r)' = Undoing(r)
  BY UndoingIsThere DEF IInv, UndoneFromTheEnd, Undoing
<1> QED BY <1>1 DEF CheckHolds, BackupIsGood

LEMMA GovernedKeepsChecks ==
    ASSUME IInv, CheckHolds, NEW c \in DOMAIN call, GovernedStep(c)
    PROVE  CheckHolds'
<1>1. TypeOK /\ disk \in [File -> Content] /\ call \in Seq(CallRecord) /\ call[c] \in CallRecord
  BY TypesOfTheTrace DEF IInv, TypeOK
<1>2. \A step : Move(c, step) => \A d \in DOMAIN call : call'[d].backup = call[d].backup
  BY <1>1 DEF Move, CallRecord
<1>3. CASE RecordCheckpoint(c)
  <2>1. \A r \in Restorer : restore'[r].step = "idle"
    BY <1>3, RecoveryAssumption DEF RecordCheckpoint, IInv, LockIsHeld
  <2> QED BY <2>1 DEF CheckHolds
<1>4. CASE Write(c)
  <2>1. /\ \A d \in DOMAIN call : call'[d].backup = call[d].backup
        /\ disk' = [disk EXCEPT ![call[c].file] = call[c].text]
        /\ UNCHANGED <<checkpoints, restore, raced>>
    BY <1>1, <1>4 DEF Write, CallRecord
  <2>2. call[c].text \notin Foreign \union {Missing}
    BY TypesOfACall, RecoveryAssumption
  <2> QED BY <1>1, <2>1, <2>2, ChecksUndisturbed
<1>5. CASE WriteFails(c)
  <2>1. /\ \A d \in DOMAIN call : call'[d].backup = call[d].backup
        /\ \A f \in File : disk'[f] = disk[f] \/ disk'[f] = Partial
        /\ UNCHANGED <<checkpoints, restore, raced>>
    BY <1>1, <1>2, <1>5 DEF WriteFails
  <2>2. Partial \notin Foreign \union {Missing}
    BY RecoveryAssumption
  <2> QED BY <2>1, <2>2, ChecksUndisturbed
<1>6. CASE Abandon(c) \/ RecordResult(c) \/ Observe(c) \/ GiveUp(c)
  <2>1. UNCHANGED <<disk, checkpoints, restore, raced>> /\ \E step : Move(c, step)
    BY <1>6 DEF Abandon, RecordResult, Observe, GiveUp
  <2> QED BY <1>2, <2>1, ChecksUndisturbed
<1> QED BY <1>3, <1>4, <1>5, <1>6 DEF GovernedStep

LEMMA RestoreKeepsChecks ==
    ASSUME IInv, CheckHolds, NEW r \in Restorer, RestoreStep(r)
    PROVE  CheckHolds'
<1>1. \A q \in Restorer \ {r} : restore'[q] = restore[q] /\ restore[q].step = "idle"
  <2>1. restore \in [Restorer -> Restore] /\ (lock = Nobody \/ restore[r].step # "idle")
    BY DEF IInv, TypeOK, RestoreStep, StartRestore, Pass, Check, Apply, Finish, Release, StopRestore
  <2>2. \A q \in Restorer \ {r} : restore[q].step = "idle"
    BY <2>1, OthersAreIdle
  <2>3. \E new : restore' = [restore EXCEPT ![r] = new]
    BY DEF RestoreStep, StartRestore, Pass, Check, Apply, Finish, Release, StopRestore, Leave, Advance
  <2> QED BY <2>1, <2>2, <2>3
<1>2. CASE Check(r)
  <2>1. /\ restore[r] \in Restore /\ restore'[r] = [restore[r] EXCEPT !.step = "write"]
        /\ Applicable(r, Undoing(r)) /\ UNCHANGED <<disk, call, checkpoints>>
    BY <1>2 DEF Check, IInv, TypeOK
  <2>2. restore'[r].left = restore[r].left /\ restore'[r].force = restore[r].force
    BY <2>1 DEF Restore
  <2>3. Undoing(r)' = Undoing(r) /\ (BackupIsGood(Undoing(r))' <=> BackupIsGood(Undoing(r)))
    BY <2>1, <2>2 DEF Undoing, BackupIsGood
  <2>4. Undoing(r).after \notin Foreign \union {Missing}
    BY <1>2, UndoingIsThere, RecoveryAssumption DEF Check, Checkpoint
  <2> QED BY <1>1, <2>1, <2>2, <2>3, <2>4 DEF CheckHolds, Applicable
<1>3. CASE StartRestore(r) \/ Pass(r) \/ Apply(r) \/ Finish(r) \/ Release(r) \/ StopRestore(r)
  <2>1. restore[r] \in Restore
    BY DEF IInv, TypeOK
  <2>2. restore'[r].step # "write"
    BY <1>3, <2>1, NoRestoreTypes
       DEF StartRestore, Pass, Apply, Finish, Release, StopRestore, Leave, Advance, Restore, IInv, TypeOK
  <2> QED BY <1>1, <2>2 DEF CheckHolds
<1> QED BY <1>2, <1>3 DEF RestoreStep

\* An edit of a file that is about to be written, or the loss of the backup,
\* makes a race of it; any other leaves the check as it is.
LEMMA OutsideKeepsChecks ==
    ASSUME IInv, CheckHolds,
           (\E f \in File : Edit(f)) \/ (\E c \in DOMAIN call : DamageBackup(c))
    PROVE  CheckHolds'
<1> SUFFICES ASSUME NEW r \in Restorer, restore[r].step = "write", ~raced'
             PROVE  /\ Undoing(r).before = Missing \/ BackupIsGood(Undoing(r))'
                    /\ restore[r].force \/ disk'[Undoing(r).file] \notin Foreign \union {Missing}
  BY DEF CheckHolds, Undoing, Edit, DamageBackup
<1>1. Undoing(r).file \in File /\ Undoing(r).call \in DOMAIN call /\ Undoing(r)' = Undoing(r)
  BY UndoingIsThere DEF IInv, UndoneFromTheEnd, Undoing, Edit, DamageBackup
<1>2. CASE \E f \in File : Edit(f)
  <2>1. PICK f \in File : Edit(f)
    BY <1>2
  <2>2. f # Undoing(r).file /\ ~raced /\ disk \in [File -> Content] /\ UNCHANGED call
    BY <2>1 DEF Edit, IInv, TypeOK
  <2>3. disk'[Undoing(r).file] = disk[Undoing(r).file]
    BY <1>1, <2>1, <2>2 DEF Edit
  <2> QED BY <1>1, <2>2, <2>3 DEF CheckHolds, BackupIsGood
<1>3. CASE \E c \in DOMAIN call : DamageBackup(c)
  <2>1. PICK c \in DOMAIN call : DamageBackup(c)
    BY <1>3
  <2>2. c # Undoing(r).call /\ ~raced /\ call \in Seq(CallRecord) /\ UNCHANGED disk
    BY <2>1 DEF DamageBackup, IInv, TypeOK
  <2>3. call'[Undoing(r).call] = call[Undoing(r).call]
    BY <1>1, <2>1, <2>2 DEF DamageBackup
  <2> QED BY <1>1, <2>2, <2>3 DEF CheckHolds, BackupIsGood
<1> QED BY <1>2, <1>3

LEMMA ChecksHold == Spec => []CheckHolds
<1>1. Init => CheckHolds
  BY NoRestoreTypes DEF Init, CheckHolds
<1>2. IInv /\ CheckHolds /\ [Next]_vars => CheckHolds'
  <2> SUFFICES ASSUME IInv, CheckHolds, [Next]_vars PROVE CheckHolds'
    OBVIOUS
  <2>1. CASE UNCHANGED vars
    BY <2>1 DEF vars, CheckHolds, Undoing, BackupIsGood
  <2>2. ASSUME NEW f \in File, NEW text \in Text, BackUp(f, text) PROVE CheckHolds'
    <3>1. call \in Seq(CallRecord) /\ UNCHANGED <<disk, checkpoints, restore, raced>>
          /\ \E new : call' = Append(call, new)
      BY <2>2 DEF BackUp, IInv, TypeOK
    <3>2. \A c \in DOMAIN call : call'[c].backup = call[c].backup
      BY <3>1
    <3> QED BY <3>1, <3>2, ChecksUndisturbed
  <2> QED BY <2>1, <2>2, OutsideKeepsChecks, GovernedKeepsChecks, RestoreKeepsChecks DEF Next
<1> QED BY <1>1, <1>2, RecoveryInvariant, PTL DEF Spec

\* Only the step that writes, or one that stops in it, changes a file.
LEMMA WhatARestoreChanges ==
    ASSUME IInv, [Next]_vars, NEW r \in Restorer, NEW f \in File, RestoreChanges(r, f)
    PROVE  /\ restore[r].step = "write" /\ f = Undoing(r).file
           /\ disk'[f] \in {Restored(Undoing(r)), Partial}
<1> USE DEF RestoreChanges
<1>1. disk \in [File -> Content] /\ restore \in [Restorer -> Restore]
  BY DEF IInv, TypeOK
<1>2. PICK q \in Restorer : RestoreStep(q)
  BY DEF Next, vars, BackUp, GovernedStep, Write, WriteFails, Abandon, RecordResult, Observe,
         RecordCheckpoint, GiveUp, Edit, DamageBackup
<1>3. CASE Apply(q) \/ StopRestore(q)
  <2>1. /\ restore[q].step = "write"
        /\ \E content \in {Restored(Undoing(q)), Partial} :
              disk' = [disk EXCEPT ![Undoing(q).file] = content]
        /\ \E new : restore' = [restore EXCEPT ![q] = new]
    BY <1>3 DEF Apply, StopRestore, Leave, Advance
  <2>2. q = r
    BY <1>1, <2>1
  <2> QED BY <1>1, <2>1, <2>2
<1>4. CASE StartRestore(q) \/ Pass(q) \/ Check(q) \/ Finish(q) \/ Release(q)
  BY <1>4 DEF StartRestore, Pass, Check, Finish, Release
<1> QED BY <1>2, <1>3, <1>4 DEF RestoreStep

\* A restore puts into a file only what a call found there, or part of
\* it, unless the backup was changed between its check and the write.
THEOREM RestoresAreGenuine == Spec => RestoredContentIsGenuine
<1>1. ASSUME IInv, CheckHolds, [Next]_vars, NEW r \in Restorer, NEW f \in File,
             RestoreChanges(r, f), disk'[f] # Partial, ~raced
      PROVE  \E c \in DOMAIN call :
                call[c].wrote /\ call[c].file = f /\ call[c].before = disk'[f]
  <2>1. restore[r].step = "write" /\ f = Undoing(r).file /\ disk'[f] = Restored(Undoing(r))
    BY <1>1, WhatARestoreChanges
  <2>2. restore[r].left > 0 /\ restore[r].left \in DOMAIN checkpoints
    BY <1>1, <2>1, UndoingIsThere DEF IInv, UndoneFromTheEnd
  <2>3. disk'[f] = Undoing(r).before
    BY <1>1, <2>1 DEF CheckHolds, Restored, BackupIsGood
  <2>4. Wrote(Undoing(r).call, f, Undoing(r).after) /\ call[Undoing(r).call].before = Undoing(r).before
    BY <1>1, <2>1, <2>2 DEF IInv, CheckpointsAreTrue, Undoing
  <2> QED BY <2>3, <2>4 DEF Wrote
<1>2. IInv /\ CheckHolds /\ [Next]_vars =>
        \A r \in Restorer, f \in File :
          RestoreChanges(r, f) =>
              \/ raced
              \/ disk'[f] = Partial
              \/ \E c \in DOMAIN call : call[c].wrote /\ call[c].file = f /\ call[c].before = disk'[f]
  BY <1>1
<1> QED BY <1>2, RecoveryInvariant, ChecksHold, PTL DEF Spec, RestoredContentIsGenuine

\* A preview changes no file, and a restore that is not forced none that a
\* person changed or removed before the restore checked it.
THEOREM EditsSurviveRestores == Spec => EditsSurvive
<1>1. ASSUME IInv, CheckHolds, [Next]_vars, NEW r \in Restorer, NEW f \in File, RestoreChanges(r, f)
      PROVE  ~restore[r].dry_run /\ (restore[r].force \/ raced \/ disk[f] \notin Foreign \union {Missing})
  BY <1>1, WhatARestoreChanges DEF CheckHolds, IInv, UndoneFromTheEnd
<1>2. IInv /\ CheckHolds /\ [Next]_vars =>
        \A r \in Restorer, f \in File :
          RestoreChanges(r, f) =>
              /\ ~restore[r].dry_run
              /\ restore[r].force \/ raced \/ disk[f] \notin Foreign \union {Missing}
  BY <1>1
<1> QED BY <1>2, RecoveryInvariant, ChecksHold, PTL DEF Spec, EditsSurvive
============================================================================
