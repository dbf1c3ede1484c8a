\* Two recorders, four events, a checkpoint at every second event; a write
\* leaves a whole line, an event without its newline, or part of an event.
CONSTANTS
    Recorder = {r1, r2}
    Nobody = Nobody
    MaxEvents = 4
    Interval = 2
SPECIFICATION Spec
INVARIANTS
    TypeOK
    ChainIsValid
    AcceptedHeadsAreTrue
PROPERTIES
    OnlyJoinedLinesPass
    KeepsAcknowledged
