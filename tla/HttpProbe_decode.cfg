SPECIFICATION FairSpec
CONSTANTS
    Conn = {c1, c2}
    CPU = {k1, k2}
    ProcessingMax = 2
    MetricsMax = 2
    ChCap = 1
    Pinned = {c1, c2}
    SlotsKept = TRUE
    Exchange = {i1, i2}
    Undecodable = {i1}
    None = None
CHECK_DEADLOCK FALSE
PROPERTIES EveryExchangeSettles
