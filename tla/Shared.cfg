SPECIFICATION PartSpec
CONSTANTS
    Off = Off
    Nobody = Nobody
    old = old
    new = new
    i1 = i1
    i2 = i2
    a1 = a1
    a2 = a2
    r1 = r1
    r2 = r2
    b1 = b1
    b2 = b2
    b3 = b3
    f1 = f1
    f2 = f2
    q1 = q1
    q2 = q2
    p1 = p1
    t1 = t1
    t2 = t2
    s1 = s1
    s2 = s2
    s3 = s3
    k1 = k1
    k2 = k2
    None = None
    MaxReads = 4
    Fingerprint = {old, new}
    MaxKeys = 2
    Replica = {i1, i2}
    Owner = i1
    Ask = {a1, a2}
    Req = {r1, r2}
    MaxPending = 1
    Keyed = TRUE
    OwnerRings <- HumanRings
    PeerRings <- OtherRings
CONSTRAINT OneOrTheOther
CONSTRAINT FewReads
CHECK_DEADLOCK FALSE
PROPERTY HumanInputSound
PROPERTY StatusSound
PROPERTY AdmissionSound
PROPERTY SharedStateSound
