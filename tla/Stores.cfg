SPECIFICATION PartSpec
CONSTANTS
    Off = Off
    NoKey = NoKey
    Nobody = Nobody
    None = None
    a1 = a1
    a2 = a2
    a3 = a3
    k1 = k1
    k2 = k2
    k3 = k3
    k4 = k4
    i1 = i1
    i2 = i2
    p1 = p1
    p2 = p2
    t1 = t1
    t2 = t2
    c1 = c1
    Slots = {t1, t2}
    Runs = {1}
    Chats = {c1}
    Principals = {p1}
    Keys = {k1, k3}
    Resource <- PairsResource
    Caller <- PairsCaller
    Kinds <- EveryKind
SYMMETRY Symmetry
CHECK_DEADLOCK FALSE
INVARIANT LockOrderSound
PROPERTY SqliteStoreSound
PROPERTY JsonStoreSound
