\* One recorder whose write stops before the newline, and then two appends.
CONSTANTS
    Recorder = {r1}
    Nobody = Nobody
    MaxEvents = 3
    Interval = 2
SPECIFICATION Spec
PROPERTIES
    AppendsFailClosed
