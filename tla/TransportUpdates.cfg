SPECIFICATION LiveSpec
CONSTANTS
    a = a
    b = b
    f = f
    m1 = m1
    m2 = m2
    new = new
    Nobody = Nobody
    Urls = {a, b}
    Methods = {m1, m2, new}
    Threads = {r1, r2}
    Snapshots <- TwoSnapshots
    MaxUpdates = 2
    Failovers = {f}
    FailoverList <- OneFailover
    ReqLimitHourly <- Unlimited
    ScannedMethods = {m1, m2}
    MethodSets = {{m1}, {m1, m2}, {new}}
    Answers = {"transportError"}
    Impatient = {}
    MaxAttempts = 2
    MaxRequests = 2
    MaxNow = 2
    WithJail = FALSE
    LimitWindowSeconds = 2
    SecondsInHour = 4
    TargetJailTime = 1
    ConsecutiveSuccessResponses = 1
INVARIANTS
    SentWhereSuitable
PROPERTIES
    OnlyNodesDelay
    FailoverOnlyAsLastResort
CHECK_DEADLOCK FALSE
