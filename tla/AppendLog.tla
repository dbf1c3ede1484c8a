----------------------------- MODULE AppendLog -----------------------------
(***************************************************************************)
(* What the evidence trace promises, whoever writes it and whatever        *)
(* crashes: it is a log that grows at its end, and once an append has      *)
(* returned, the event it returned and every event before it are never     *)
(* lost, changed or reordered.                                             *)
(***************************************************************************)
EXTENDS Naturals, Sequences

CONSTANT Event

VARIABLES
    log,            \* the events of the trace
    acknowledged    \* how many of them, from the first, are promised

vars == <<log, acknowledged>>

TypeOK ==
    /\ log \in Seq(Event)
    /\ acknowledged \in 0..Len(log)

Init ==
    /\ log = <<>>
    /\ acknowledged = 0

\* An event reaches the trace; nothing is promised of it yet.
Extend ==
    /\ \E event \in Event : log' = Append(log, event)
    /\ UNCHANGED acknowledged

\* An append returns.
Acknowledge ==
    /\ acknowledged' \in acknowledged .. Len(log)
    /\ UNCHANGED log

\* A crash takes events that no append has acknowledged.
Lose ==
    /\ \E kept \in acknowledged .. Len(log) : log' = SubSeq(log, 1, kept)
    /\ UNCHANGED acknowledged

Next == Extend \/ Acknowledge \/ Lose

Spec == Init /\ [][Next]_vars
============================================================================
