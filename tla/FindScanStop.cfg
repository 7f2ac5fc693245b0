SPECIFICATION Spec
CONSTANTS
    p1 = p1
    p2 = p2
    p3 = p3
    Peers = {p1}
    KnownPeers = {p1}
    Host <- MCHost
    Unsupported = {}
    ThreadsNum = 1
    MaxRounds = 2
INVARIANT
    SchedulerIsToldToStop
CHECK_DEADLOCK FALSE
