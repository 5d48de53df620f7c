SPECIFICATION FairSpec
CONSTANTS
  Nil = Nil
  Second = 1
  HalfRange = 4
  MaxDelaySeconds = 1
  Conns = {c1, c2}
  Ids = {a}
  Requests <- ApiRequests
  MaxLimit = 2
  MaxDeliveries = 1
INVARIANTS
  StatusIsTruth
  RefusedOnlyWhenForced
PROPERTIES
  ShutdownLosesNothing
  HandlersFinish
