CONSTANTS
    a = a
    b = b
    s = s
    c = c
    u = u
    v = v
    Actor = {a, b}
    Caller = {a, b}
    Server = {s}
    Command = {c}
    Surface = {u, v}
    None = None
    Absent = Absent
    Many = Many
    AnyTool = AnyTool
    Allowance <- MCAllowance
    MaxPipe = 1
    Earlier <- MCEarlier
    Programs <- MCPrograms
SPECIFICATION MCSpec
INVARIANTS
    TypeOK
    FilesKeepEveryChange
    CallsMatchGrants
    OnlyEntitledServersStart
    OkMeansAnswered
    ServersAreStopped
    RunsArePermitted
    ValuesReachTheirCallers
CHECK_DEADLOCK FALSE
PROPERTIES
    CallsEnd
