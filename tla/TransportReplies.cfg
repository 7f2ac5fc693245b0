SPECIFICATION Spec
CONSTANTS
    a = a
    b = b
    f = f
    m1 = m1
    m2 = m2
    new = new
    Nobody = Nobody
    Urls = {}
    Methods = {m1}
    Threads = {r1, r2}
    Snapshots <- NoSnapshots
    MaxUpdates = 0
    Failovers = {f}
    FailoverList <- OneFailover
    ReqLimitHourly <- HigherLimits
    ScannedMethods = {m1}
    MethodSets = {{m1}}
    Answers = {"ok", "userError", "badStatus", "unreadable", "badBody", "rpcError", "transportError"}
    Impatient = {r1, r2}
    MaxAttempts = 3
    MaxRequests = 2
    MaxNow = 3
    WithJail = FALSE
    LimitWindowSeconds = 2
    SecondsInHour = 4
    TargetJailTime = 1
    ConsecutiveSuccessResponses = 1
SYMMETRY Symmetry
INVARIANTS
    BadAnswerOnlyWhenExhausted
    FailureMeansNoGoodAnswer
    AttemptsByReply
    CodesOfGoodAnswer
PROPERTIES
    ServesClients
CHECK_DEADLOCK FALSE
