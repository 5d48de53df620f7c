SPECIFICATION FairSpec
CONSTANTS
  Nil = Nil
  Second = 1
  HalfRange = 2
  MaxDelaySeconds = 1
  Writers = {w1, w2}
  Readers = {r1}
  Ids = {a}
  Requests <- DelayRequests
  MaxNow = 1
  MaxLog = 3
  Faults = {"powerLoss"}
PROPERTIES
  CallsReturn
  AcceptedIsPopped
