CONSTANTS
    Clients = {c1, c2}
    ZeroClientID = zero
    Queries <- MCAllQueries
    SmallLens = {226}
    ChanCap = 2
    QueueCap = 1
    MaxQueries = 3
    MaxPackets = 3
    NameLens = {120, 255}
SPECIFICATION Spec
INVARIANT ResponseFitsRequestor
CHECK_DEADLOCK FALSE
