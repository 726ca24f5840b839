CONSTANTS
    s1 = s1
    s2 = s2
    t1 = t1
    t2 = t2
    Sessions = {s1, s2}
    NoiseSessions = {s2}
    Streams = {t1, t2}
    Owner <- MCOwner
SPECIFICATION Spec
PROPERTY BridgeEndsOnPeerClose
PROPERTY SessionDeathEndsItsBridges
CHECK_DEADLOCK FALSE
