SPECIFICATION Spec
CONSTANTS
    Metric = {m1}
    Names = {"application_rpc"}
    ChCap = 1
    Retry = 3
CHECK_DEADLOCK FALSE
INVARIANTS SuccessMeansTaken
