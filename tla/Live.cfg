SPECIFICATION Spec
CONSTANTS
    None = None
    Nobody = Nobody
    NoKey = NoKey
    NoMsg = NoMsg
    NoAttempt = NoAttempt
    NoRecord = NoRecord
    Unregistered = Unregistered
    a1 = a1
    a2 = a2
    b1 = b1
    i1 = i1
    i2 = i2
    key1 = key1
    key2 = key2
    m1 = m1
    m2 = m2
    p1 = p1
    p2 = p2
CHECK_DEADLOCK FALSE
PROPERTY RowsSettle
PROPERTY WorkEnds
