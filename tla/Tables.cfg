SPECIFICATION TablesSpec
CONSTANTS
    Thread = {h1, h2}
    Conn = {n1}
    ArgsMax = 1
    FilteredMax = 1
    GrpcMax = 1
    SlotsKept = TRUE
    MaxOpens = 2
    None = None
    Context = {x1, x2}
    Task = {idle, t1}
    Source = {"client", "resolver"}
    MaxConns = 3
    SourceOf <- MCSourceOf
    SPort <- MCSPort
    DPort <- MCDPort
    MaxTime = 2
    ConnMax = 1
    NfMax = 2
    Pod = {p1}
    Svc = {v1}
    PodIP = {a1}
    ClusterIP = {c1, c2}
    NoIP = NoIP
    PodTtl = 2
    DefaultTtl = 4
    SvcTtl = 2
    PodPeriod = 2
    SvcPeriod = 1
    MaxDelay = 1
    MaxNow = 4
    MaxChanges = 3
    Pid = {1, 2}
    UID = {u1, u2}
    SysMax = 1
    OomMax = 1
    OomChCap = 1
    MaxStarts = 2
    MaxKills = 3
SYMMETRY MCSymmetry
INVARIANTS TypeOK OwnSocket KnownProcessUsedSocket NatIsLatest StaleBounded ProcessKnown KillsCounted
CHECK_DEADLOCK FALSE
