SPECIFICATION Spec
CONSTANTS
    Conn = {c1, c2}
    CPU = {k1, k2}
    ProcessingMax = 2
    MetricsMax = 2
    ChCap = 1
    Pinned = {}
    SlotsKept = FALSE
    Exchange = {i1, i2, i3}
    Undecodable = {}
    None = None
CHECK_DEADLOCK FALSE
INVARIANTS NoReportWithoutResponse
