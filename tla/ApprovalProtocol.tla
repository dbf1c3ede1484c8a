-------------------------- MODULE ApprovalProtocol --------------------------
(***************************************************************************)
(* What governance promises about each tool call, without sessions, logs,  *)
(* locks or processes: a call is performed at most once, only after it was *)
(* granted; a call that was put to a person is granted only when that      *)
(* person approved; a decision and a refusal are final.                    *)
(***************************************************************************)
CONSTANT Calls

VARIABLES
  phase,     \* how far each call has come
  consent    \* the decision on the approval request of each call, if any

Phases == {"new", "asked", "granted", "performed", "refused"}

Consents == {"absent", "pending", "approved", "denied"}

Init ==
  /\ phase = [c \in Calls |-> "new"]
  /\ consent = [c \in Calls |-> "absent"]

\* A call moves on.  An asked call without an approval request was answered
\* on the spot.
Moves(c) ==
  \/ phase[c] = "new" /\ phase'[c] \in {"asked", "granted", "refused"}
  \/ phase[c] = "asked" /\ phase'[c] = "refused"
  \/ phase[c] = "asked" /\ phase'[c] = "granted" /\ consent[c] \in {"absent", "approved"}
  \/ phase[c] = "granted" /\ phase'[c] \in {"performed", "refused"}

\* Its approval request is raised while it is asked, and decided once.
IsDecided(c) ==
  \/ consent[c] = "absent" /\ consent'[c] = "pending" /\ phase[c] = "asked"
  \/ consent[c] = "pending" /\ consent'[c] \in {"approved", "denied"}

\* A cancellation moves every call at once.
Next ==
  \A c \in Calls :
    /\ Moves(c) \/ phase'[c] = phase[c]
    /\ IsDecided(c) \/ consent'[c] = consent[c]

Spec == Init /\ [][Next]_<<phase, consent>>
=============================================================================
