CONSTANTS
    Clients = {c1}
    ZeroClientID = zero
    ClientIDLen = 8
    Payloads = {pl}
    EncodedLens = {0, 9, 12, 13, 14, 16}
    PayloadSizes = {100, 1231, 1232}
    PacketContents <- MCPacketContents
    PadLens <- MCPadLens
    MaxPackets = 3
SPECIFICATION Spec
INVARIANT ResponseMatchesSpec
INVARIANT QueryServedIffAnswered
INVARIANT FramingRoundTrips
INVARIANT FramingTruncation
CHECK_DEADLOCK FALSE
