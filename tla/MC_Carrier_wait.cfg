CONSTANTS
    Clients = {c1, c2}
    ZeroClientID = zero
    Queries <- MCQueries
    SmallLens = {100}
    ChanCap = 2
    QueueCap = 1
    MaxQueries = 3
    MaxPackets = 3
SPECIFICATION Spec
PROPERTY FirstPacketWaitedFor
CHECK_DEADLOCK FALSE
