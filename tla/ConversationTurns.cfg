SPECIFICATION Spec
CONSTANTS
    i1 = i1
    i2 = i2
    k1 = k1
    k2 = k2
    b1 = b1
    m1 = m1
    m2 = m2
    m3 = m3
    NoKey = NoKey
    NoMsg = NoMsg
    Instance = {i1, i2}
    Key = {k1, k2}
    Body = {b1}
    Msg = {m1, m2, m3}
    Req <- Requests
    LeaseTTL = 1
    Retention = 2
    Horizon = 1
    MaxTime = 3
    MaxInc = 2
    Opens = {i1, i2}
    Deletes = {i1}
    Crashable = {i1}
    Stoppable = {i1}
CONSTRAINT OneAtATime
CHECK_DEADLOCK FALSE
INVARIANT TypeOK
INVARIANT ClaimPinsConversation
INVARIANT OneTurnPerKey
INVARIANT CacheAgrees
INVARIANT ScopeHeldByOneRow
INVARIANT UnsettledTurnBlocks
INVARIANT RecoveryGrace
PROPERTY LinearTranscript
