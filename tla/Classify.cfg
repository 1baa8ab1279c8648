SPECIFICATION Spec
CONSTANTS
    t1 = t1
    t2 = t2
    Tuple = {t1, t2}
    Packets <- MCPackets
    None = None
    MaxCount = 2
    SqlCommands <- MCSqlCommands
    GrpcType <- MCGrpcType
    Http2Preface <- MCHttp2Preface
    AmqpPreface <- MCAmqpPreface
    RedisErrors <- MCRedisErrors
    MaxFrames = 3
    MaxHeaders = 2
INVARIANTS ScanAgrees TraceCounts
