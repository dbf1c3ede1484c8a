\* A run whose call has been requested, and up to three more events.
CONSTANTS
    c1 = c1
    Call = {c1}
    Absent = Absent
    Live = {l}
    Locked = {a, d}
    AsyncResumer = {a}
    Rebuilder = {b}
    Nobody = Nobody
    Starts <- MCStarts
    Appended <- MCAppended
    MaxEvents = 6
    MaxFaults = 2
    MaxRebuilds = 1
SPECIFICATION Spec
INVARIANTS
    TypeOK
    CompleteTablesAreTrue
    TablesFollowTheTrace
PROPERTIES
    RefusedOnlyWithCause
    CancelledResumesLetGo
