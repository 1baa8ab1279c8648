SPECIFICATION Spec
CONSTANTS
    Thread = {t1, t2}
    Conn = {c1}
    ArgsMax = 2
    FilteredMax = 2
    GrpcMax = 2
    SlotsKept = FALSE
    MaxOpens = 1
    None = None
PROPERTIES ClosedForgotten
