SPECIFICATION LiveSpec
CONSTANTS
    p1 = p1
    p2 = p2
    p3 = p3
    Peers = {p1, p2}
    KnownPeers = {p1}
    Host <- MCHost
    Unsupported = {p2}
    ThreadsNum = 1
    MaxRounds = 3
INVARIANTS
    TypeOK
    NoTaskLost
    AtMostOneLateScan
    CleanStopIsQuiet
PROPERTIES
    NmapStops
    ScanWorkersStop
    StopEndsUnlessStalled
CHECK_DEADLOCK FALSE
