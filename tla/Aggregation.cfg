SPECIFICATION AggLiveSpec
CONSTANTS
    r1 = r1
    r2 = r2
    r3 = r3
    alice = alice
    bob = bob
    block = block
    slot = slot
    Records = {r1, r2, r3}
    User <- MCUser
    RequestData <- MCRequestData
    MaxTop = 1
    MaxDay = 1
INVARIANTS
    Accounted
    AggTypeOK
    CountedBeforeDeleted
    TopRequestsKept
PROPERTIES
    EventuallySettled
    Implements
CHECK_DEADLOCK FALSE
