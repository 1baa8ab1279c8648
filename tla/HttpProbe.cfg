SPECIFICATION FairSpec
CONSTANTS
    Conn = {c1, c2}
    CPU = {k1, k2}
    ProcessingMax = 1
    MetricsMax = 1
    ChCap = 1
    Pinned = {c1}
    SlotsKept = TRUE
    Exchange = {i1, i2, i3}
    Undecodable = {}
    None = None
CHECK_DEADLOCK FALSE
INVARIANTS TypeOK AccountedFor LostToSameConnection
PROPERTIES OnlyAnsweredLeave RefinesDelivery EveryExchangeSettles
