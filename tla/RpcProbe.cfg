SPECIFICATION FairSpec
CONSTANTS
    Conn = {c1, c2}
    TcpSeq = {s1, s2}
    CPU = {k1, k2}
    RpcTypes = {"DUBBO"}
    RequestMax = 1
    TraceMax = 1
    ChCap = 1
    Word = 2
    Pinned = {c1}
    RequestId = {r1, r2}
    TraceId = {i1, i2}
    None = None
    MaxTime = 2
CHECK_DEADLOCK FALSE
INVARIANTS TypeOK DurationExact RequestOfThePod OneTracePerRequest DeleteFindsKey Conserved LostToSameSeq
PROPERTIES OnlyAnsweredRequestsLeave RefinesDelivery EveryTraceSettles
