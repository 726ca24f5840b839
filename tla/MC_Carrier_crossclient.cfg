CONSTANTS
    Clients = {c1, c2}
    ZeroClientID = zero
    Queries <- MCTunnelQueries
    SmallLens = {100}
    ChanCap = 2
    QueueCap = 1
    MaxQueries = 3
    MaxPackets = 3
SPECIFICATION Spec
INVARIANT PacketsReachTheirClient
CHECK_DEADLOCK FALSE
