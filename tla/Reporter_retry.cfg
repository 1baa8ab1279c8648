SPECIFICATION FairSpec
CONSTANTS
    Metric = {m1, m2, m3}
    Names = {"application_rpc", "span", "trace", "nil"}
    ChCap = 1
    Retry = 2
CHECK_DEADLOCK FALSE
INVARIANTS TypeOK WaitsOnce TakenOnce TakenInOrder
PROPERTIES RefinesDelivery EveryMetricSettles
