SPECIFICATION TLSpec
CONSTANTS
    a = a
    b = b
    c = c
    d = d
    m1 = m1
    Nobody = Nobody
    Urls = {a, b, c, d}
    Methods = {m1}
    Threads = {t1}
    Snapshots <- MCSnapshots
    MaxUpdates = 3
INVARIANTS
    TLTypeOK
    NoDuplicateUrls
    WantedAreListed
    UpdateHalvesStale
    ProbesAll
PROPERTY
    StableWhileHeld
