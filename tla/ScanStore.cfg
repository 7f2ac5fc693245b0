SPECIFICATION Spec
CONSTANTS
    Peers = {p1, p2}
    NoPeer = NoPeer
    KnownPeers = {p1}
    Methods = {getVersion, getSlot}
    GetVersion = getVersion
    w1 = w1
    w2 = w2
    Workers = {w1, w2}
    MaxRounds = 2
    Slots = {1, 4, 6}
    SlotSpace = 16
    OutdatedSlotShift = 2
SYMMETRY WorkerSymmetry
INVARIANTS
    TypeOK
    VisibleHasMethods
    RowsAreAsFound
    RecordsAreKept
    OutdatedAsMeasured
CHECK_DEADLOCK FALSE
