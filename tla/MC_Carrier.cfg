CONSTANTS
    Clients = {c1}
    ZeroClientID = zero
    Queries <- MCQueries
    SmallLens = {100}
    ChanCap = 2
    QueueCap = 2
    MaxQueries = 3
    MaxPackets = 3
SPECIFICATION Spec
INVARIANT TypeOK
INVARIANT AnswerWithinBudget
PROPERTY ImplementsResponseChannel
CHECK_DEADLOCK FALSE
