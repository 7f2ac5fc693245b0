SPECIFICATION Spec
CONSTANTS
    a = a
    b = b
    f = f
    m1 = m1
    m2 = m2
    new = new
    Nobody = Nobody
    Urls = {}
    Methods = {m1}
    Threads = {r1}
    Snapshots <- NoSnapshots
    MaxUpdates = 0
    Failovers = {f}
    FailoverList <- OneFailover
    ReqLimitHourly <- LowLimit
    ScannedMethods = {m1}
    MethodSets = {{m1}}
    Answers = {"ok", "transportError"}
    Impatient = {}
    MaxAttempts = 2
    MaxRequests = 3
    MaxNow = 2
    WithJail = FALSE
    LimitWindowSeconds = 2
    SecondsInHour = 4
    TargetJailTime = 1
    ConsecutiveSuccessResponses = 1
INVARIANTS
    ConfiguredLimitKept
CHECK_DEADLOCK FALSE
