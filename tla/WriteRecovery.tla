--------------------------- MODULE WriteRecovery ---------------------------
(***************************************************************************)
(* Backups of the files that write_file changes, the checkpoints that make *)
(* them restorable, and `agenttrust restore` (adapters/evidence/recovery.py*)
(* with the stages of run_tool.py that call it). The governed calls of a   *)
(* run come one after the other: each backs the target up, writes it, has  *)
(* its result appended, looks at the target again and appends a checkpoint *)
(* bound to what it saw. A restore holds the run lock and undoes the       *)
(* checkpoints newest first, each in a check and a write.                  *)
(*                                                                         *)
(* Meanwhile people edit the files, backups are lost or damaged, a         *)
(* cancelled call leaves its write to a thread that finishes later,        *)
(* appends raise, and processes die in the middle of a write.              *)
(*                                                                         *)
(* A digest is its content. No edit happens to produce what a call wrote.  *)
(***************************************************************************)
EXTENDS Integers, Sequences, FiniteSets

CONSTANTS
    File,           \* paths inside the project
    Text,           \* what calls write
    Foreign,        \* what people write
    Missing,        \* no such file
    Partial,        \* part of a write that did not end
    Restorer,       \* processes running `agenttrust restore`
    Nobody,         \* the run lock is free
    MaxCalls,       \* bound: governed calls of the run
    MaxEdits        \* bound: changes of files and backups by people

ASSUME RecoveryAssumption ==
    /\ Text \intersect Foreign = {}
    /\ Missing # Partial
    /\ {Missing, Partial} \intersect (Text \union Foreign) = {}
    /\ Nobody \notin Restorer
    /\ MaxCalls \in Nat
    /\ MaxEdits \in Nat

Content == Text \union Foreign \union {Missing, Partial}

\* A call from its backup on: what it writes, what it found (BackupRecord),
\* and what its .bak file holds now.
CallSteps == {"backed_up", "abandoned", "written", "reported", "observed", "over"}
CallRecord ==
    [step : CallSteps, file : File, text : Text, before : Content,
     backup : Content, wrote : BOOLEAN]

\* WriteRecoveryCheckpoint: before is Missing if the call created the file.
Checkpoint == [call : Nat, file : File, before : Content, after : Text]

\* left counts the checkpoints still to be undone.
RestoreSteps == {"idle", "check", "write", "done"}
Restore ==
    [step : RestoreSteps, left : Nat, wanted : SUBSET File,
     dry_run : BOOLEAN, force : BOOLEAN, moved : BOOLEAN]

VARIABLES
    disk,           \* content of each file
    call,           \* the governed calls, in their order
    checkpoints,    \* the write_recovery_checkpoint events of the trace
    lock,           \* the restorer that holds the run lock
    restore,        \* the restores
    edits,          \* how many of these so far
    raced           \* history: what a restore is about to write, or to write over,
                    \* was changed by people since its check

outside == <<edits, raced>>
vars == <<disk, call, checkpoints, lock, restore, outside>>

TypeOK ==
    /\ disk \in [File -> Content]
    /\ call \in Seq(CallRecord)
    /\ checkpoints \in Seq(Checkpoint)
    /\ lock \in Restorer \union {Nobody}
    /\ restore \in [Restorer -> Restore]
    /\ edits \in 0 .. MaxEdits
    /\ raced \in BOOLEAN

NoRestore ==
    [step |-> "idle", left |-> 0, wanted |-> {},
     dry_run |-> TRUE, force |-> FALSE, moved |-> FALSE]

Init ==
    /\ disk \in [File -> Foreign \union {Missing}]
    /\ call = <<>>
    /\ checkpoints = <<>>
    /\ lock = Nobody
    /\ restore = [r \in Restorer |-> NoRestore]
    /\ edits = 0
    /\ raced = FALSE

----------------------------------------------------------------------------
(* A governed write *)

Move(c, step) == call' = [call EXCEPT ![c].step = step]

\* create_backup_for_write, in the stage before the call executes.
BackUp(f, text) ==
    /\ Len(call) < MaxCalls
    /\ call # <<>> => call[Len(call)].step \in {"over", "abandoned"}
    /\ call' = Append(call, [step |-> "backed_up", file |-> f, text |-> text,
                             before |-> disk[f], backup |-> disk[f], wrote |-> FALSE])
    /\ UNCHANGED <<disk, checkpoints, lock, restore, outside>>

\* write_file.
Write(c) ==
    /\ call[c].step \in {"backed_up", "abandoned"}
    /\ disk' = [disk EXCEPT ![call[c].file] = call[c].text]
    /\ call' = [call EXCEPT ![c].wrote = TRUE,
                            ![c].step = IF @ = "abandoned" THEN "over" ELSE "written"]
    /\ UNCHANGED <<checkpoints, lock, restore, outside>>

\* The write raises, or the process dies in it: the file is untouched,
\* truncated or written in part.
WriteFails(c) ==
    /\ call[c].step \in {"backed_up", "abandoned"}
    /\ \E left \in {disk[call[c].file], Partial} :
          disk' = [disk EXCEPT ![call[c].file] = left]
    /\ Move(c, "over")
    /\ UNCHANGED <<checkpoints, lock, restore, outside>>

\* The task of an asynchronous call is cancelled while its thread runs.
Abandon(c) ==
    /\ call[c].step = "backed_up"
    /\ Move(c, "abandoned")
    /\ UNCHANGED <<disk, checkpoints, lock, restore, outside>>

\* tool_result is appended; an append needs the run lock.
RecordResult(c) ==
    /\ call[c].step = "written"
    /\ lock = Nobody
    /\ Move(c, "reported")
    /\ UNCHANGED <<disk, checkpoints, lock, restore, outside>>

\* bind_successful_write: no checkpoint unless the file still holds what
\* the call wrote.
Observe(c) ==
    /\ call[c].step = "reported"
    /\ Move(c, IF disk[call[c].file] = call[c].text THEN "observed" ELSE "over")
    /\ UNCHANGED <<disk, checkpoints, lock, restore, outside>>

\* Wrong: the digest is taken when the checkpoint is appended.
RecordCheckpointLate(c) ==
    /\ call[c].step = "observed"
    /\ lock = Nobody
    /\ checkpoints' = Append(checkpoints, [call |-> c, file |-> call[c].file,
                             before |-> call[c].before, after |-> disk[call[c].file]])
    /\ Move(c, "over")
    /\ UNCHANGED <<disk, lock, restore, outside>>

RecordCheckpoint(c) ==
    /\ call[c].step = "observed"
    /\ lock = Nobody
    /\ checkpoints' = Append(checkpoints, [call |-> c, file |-> call[c].file,
                                           before |-> call[c].before, after |-> call[c].text])
    /\ Move(c, "over")
    /\ UNCHANGED <<disk, lock, restore, outside>>

\* An append raises or times out on the lock, or the process dies.
GiveUp(c) ==
    /\ call[c].step \in {"written", "reported", "observed"}
    /\ Move(c, "over")
    /\ UNCHANGED <<disk, checkpoints, lock, restore, outside>>

----------------------------------------------------------------------------
(* A restore *)

\* Wrong: oldest first.
UndoingOldest(r) == checkpoints[Len(checkpoints) + 1 - restore[r].left]

\* The trace's checkpoints, newest first.
Undoing(r) == checkpoints[restore[r].left]

\* restore_run: the lock is taken and the verified trace read. --file names
\* one file, or several of one name. A project that moved has another root
\* than the one in its checkpoints.
StartRestore(r) ==
    /\ restore[r].step = "idle"
    /\ lock = Nobody
    /\ lock' = r
    /\ \E wanted \in (SUBSET File) \ {{}}, dry_run, force, moved \in BOOLEAN :
          restore' = [restore EXCEPT ![r] =
              [step |-> "check", left |-> Len(checkpoints), wanted |-> wanted,
               dry_run |-> dry_run, force |-> force, moved |-> moved]]
    /\ UNCHANGED <<disk, call, checkpoints, outside>>

BackupIsGood(checkpoint) == call[checkpoint.call].backup = checkpoint.before

\* Wrong: the backup is there, whatever it holds.
ApplicableByPresence(r, checkpoint) ==
    /\ checkpoint.file \in restore[r].wanted
    /\ ~restore[r].moved
    /\ checkpoint.before = Missing \/ call[checkpoint.call].backup # Missing
    /\ restore[r].force \/ disk[checkpoint.file] = checkpoint.after

\* Wrong: a file that is gone counts as unchanged.
ApplicableToMissing(r, checkpoint) ==
    /\ checkpoint.file \in restore[r].wanted
    /\ ~restore[r].moved
    /\ checkpoint.before = Missing \/ BackupIsGood(checkpoint)
    /\ restore[r].force \/ disk[checkpoint.file] \in {checkpoint.after, Missing}

\* The checks of _restore_run_locked; a checkpoint that fails one is skipped.
Applicable(r, checkpoint) ==
    /\ checkpoint.file \in restore[r].wanted
    /\ ~restore[r].moved
    /\ checkpoint.before = Missing \/ BackupIsGood(checkpoint)
    /\ restore[r].force \/ disk[checkpoint.file] = checkpoint.after

Advance(r) ==
    restore' = [restore EXCEPT ![r].left = @ - 1, ![r].step = "check"]

\* Skipped, in conflict, or only previewed.
Pass(r) ==
    /\ restore[r].step = "check" /\ restore[r].left > 0
    /\ Applicable(r, Undoing(r)) => restore[r].dry_run
    /\ Advance(r)
    /\ UNCHANGED <<disk, call, checkpoints, lock, outside>>

Check(r) ==
    /\ restore[r].step = "check" /\ restore[r].left > 0
    /\ Applicable(r, Undoing(r)) /\ ~restore[r].dry_run
    /\ restore' = [restore EXCEPT ![r].step = "write"]
    /\ raced' = FALSE
    /\ UNCHANGED <<disk, call, checkpoints, lock, edits>>

\* The backup is read again and written; a file the call created is removed.
Restored(checkpoint) ==
    IF checkpoint.before = Missing THEN Missing ELSE call[checkpoint.call].backup

Apply(r) ==
    /\ restore[r].step = "write"
    /\ disk' = [disk EXCEPT ![Undoing(r).file] = Restored(Undoing(r))]
    /\ Advance(r)
    /\ UNCHANGED <<call, checkpoints, lock, outside>>

Finish(r) ==
    /\ restore[r].step = "check" /\ restore[r].left = 0
    /\ restore' = [restore EXCEPT ![r].step = "done"]
    /\ UNCHANGED <<disk, call, checkpoints, lock, outside>>

Leave(r) ==
    /\ lock' = IF lock = r THEN Nobody ELSE lock
    /\ restore' = [restore EXCEPT ![r] = NoRestore]

Release(r) ==
    /\ restore[r].step = "done"
    /\ Leave(r)
    /\ UNCHANGED <<disk, call, checkpoints, outside>>

\* An append or a file operation raises, or the process dies; its last
\* write may be partial, or there without its restore_applied.
StopRestore(r) ==
    /\ restore[r].step \in {"check", "write"}
    /\ \/ UNCHANGED disk
       \/ /\ restore[r].step = "write"
          /\ \E content \in {Restored(Undoing(r)), Partial} :
                /\ content = Partial => Undoing(r).before # Missing
                /\ disk' = [disk EXCEPT ![Undoing(r).file] = content]
    /\ Leave(r)
    /\ UNCHANGED <<call, checkpoints, outside>>

----------------------------------------------------------------------------
(* Everybody else *)

Outside == edits < MaxEdits /\ edits' = edits + 1

Edit(f) ==
    /\ Outside
    /\ \E content \in (Foreign \union {Missing}) \ {disk[f]} :
          disk' = [disk EXCEPT ![f] = content]
    /\ raced' = (raced \/ \E r \in Restorer : restore[r].step = "write" /\ Undoing(r).file = f)
    /\ UNCHANGED <<call, checkpoints, lock, restore>>

\* A .bak file is removed or changed; nobody repairs one.
DamageBackup(c) ==
    /\ Outside
    /\ call[c].backup # Missing
    /\ \E content \in (Foreign \union {Missing}) \ {call[c].backup, call[c].before} :
          call' = [call EXCEPT ![c].backup = content]
    /\ raced' = (raced \/ \E r \in Restorer : restore[r].step = "write" /\ Undoing(r).call = c)
    /\ UNCHANGED <<disk, checkpoints, lock, restore>>

GovernedStep(c) ==
    \/ Write(c)
    \/ WriteFails(c)
    \/ Abandon(c)
    \/ RecordResult(c)
    \/ Observe(c)
    \/ RecordCheckpoint(c)
    \/ GiveUp(c)

RestoreStep(r) ==
    \/ StartRestore(r)
    \/ Pass(r)
    \/ Check(r)
    \/ Apply(r)
    \/ Finish(r)
    \/ Release(r)
    \/ StopRestore(r)

Next ==
    \/ \E f \in File, text \in Text : BackUp(f, text)
    \/ \E c \in DOMAIN call : GovernedStep(c)
    \/ \E r \in Restorer : RestoreStep(r)
    \/ \E f \in File : Edit(f)
    \/ \E c \in DOMAIN call : DamageBackup(c)

Spec == Init /\ [][Next]_vars

----------------------------------------------------------------------------
(* Properties *)

CheckpointsOf(f) == {i \in DOMAIN checkpoints : checkpoints[i].file = f}

\* Every write that reached f is in a checkpoint, and the backups of f are
\* what the checkpoints say.
Recoverable(f) ==
    /\ \A c \in DOMAIN call :
          call[c].wrote /\ call[c].file = f => \E i \in CheckpointsOf(f) : checkpoints[i].call = c
    /\ \A i \in CheckpointsOf(f) :
          checkpoints[i].before = Missing \/ BackupIsGood(checkpoints[i])

\* When `restore --apply` has gone through the whole trace, no file it was
\* asked to restore holds what a call wrote: not after several writes to one
\* file, nor equal ones, nor after edits between them, nor when earlier
\* restores stopped half way, forced or not. (A file is excepted if one of
\* its writes has no checkpoint, or one of its backups is gone.)
NothingGovernedRemains ==
    \A r \in Restorer :
        restore[r].step = "done" /\ ~restore[r].dry_run /\ ~restore[r].moved =>
            \A f \in restore[r].wanted :
                Recoverable(f) => disk[f] \notin Text

\* The steps in which a restore, and no call, changes f.
RestoreChanges(r, f) ==
    /\ disk'[f] # disk[f]
    /\ restore'[r].step # restore[r].step

\* A restore puts into a file only what a governed call found there, or part
\* of it if it is interrupted: never a damaged backup, nor another file's.
\* (The backup is read once more after its check; one that is changed in
\* between is excepted, here and below.)
RestoredContentIsGenuine ==
    [][\A r \in Restorer, f \in File :
          RestoreChanges(r, f) =>
              \/ raced
              \/ disk'[f] = Partial
              \/ \E c \in DOMAIN call : call[c].wrote /\ call[c].file = f /\ call[c].before = disk'[f]]_vars

\* A restore that is not forced overwrites nothing a person wrote and brings
\* back nothing a person removed before the restore looked at it, whichever of
\* its own or of earlier restores' writes lie between; a preview changes nothing.
EditsSurvive ==
    [][\A r \in Restorer, f \in File :
          RestoreChanges(r, f) =>
              /\ ~restore[r].dry_run
              /\ restore[r].force \/ raced \/ disk[f] \notin Foreign \union {Missing}]_vars

\* "a changed target is skipped unless --force is explicitly supplied"
\* (README): so also one that is changed while the restore runs.
ChangedTargetsAreSkipped ==
    [][\A r \in Restorer, f \in File :
          RestoreChanges(r, f) /\ ~restore[r].force => disk[f] \notin Foreign \union {Missing}]_vars
============================================================================
