SPECIFICATION Spec
CONSTANTS
    a = a
    b = b
    f = f
    m1 = m1
    m2 = m2
    new = new
    Nobody = Nobody
    Urls = {}
    Methods = {m1}
    Threads = {r1, r2}
    Snapshots <- NoSnapshots
    MaxUpdates = 0
    Failovers = {f}
    FailoverList <- OneFailover
    ReqLimitHourly <- HourlyLimits
    ScannedMethods = {m1}
    MethodSets = {{m1}}
    Answers = {"ok", "transportError"}
    Impatient = {}
    MaxAttempts = 2
    MaxRequests = 4
    MaxNow = 5
    WithJail = TRUE
    LimitWindowSeconds = 2
    SecondsInHour = 4
    TargetJailTime = 1
    ConsecutiveSuccessResponses = 1
SYMMETRY Symmetry
INVARIANTS
    TypeOK
    SendsBounded
PROPERTIES
    JailHolds
CHECK_DEADLOCK FALSE
