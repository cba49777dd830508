SPECIFICATION Spec
CONSTANTS
  i1 = i1
  i2 = i2
  k1 = k1
  p1 = p1
  a1 = a1
  a2 = a2
  NoAttempt = NoAttempt
  Instance = {i1, i2}
  Key = {k1}
  Ident = {p1}
  Attempt = {a1, a2}
  Req <- TwoReplicas
  LeaseTTL = 2
  Retention = 2
  Horizon = 1
  MaxTime = 4
  Crashable = {i1}
  Drainable = {i1}
  Controlled = {a1}
CHECK_DEADLOCK FALSE
INVARIANT TypeOK
INVARIANT OneExecutionPerKey
INVARIANT RepliesConverge
INVARIANT AckedRunIsDurable
INVARIANT LiveFenceExcludesPeers
INVARIANT LedgerMatchesRun
INVARIANT DrainFenceComplete
PROPERTY DrainedOwnerTakesNoControl
PROPERTY TerminalIsFinal
