SPECIFICATION Spec
CONSTANTS
    c1 = c1
    c2 = c2
    Conn = {c1, c2}
    Worlds <- MCWorlds
    None = None
    ChCap = 1
    MaxOld = 1
    MaxLost = 1
    MaxIterations = 2
    MaxArrays = 2
    MaxTailCalls = 6
INVARIANT OwnRequest
CHECK_DEADLOCK FALSE
