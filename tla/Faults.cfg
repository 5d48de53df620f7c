SPECIFICATION Spec
CONSTANTS
  Nil = Nil
  Second = 1
  HalfRange = 2
  MaxDelaySeconds = 1
  Writers = {w1}
  Readers = {}
  Ids = {a, b}
  Requests <- PlainRequests
  MaxNow = 1
  MaxLog = 4
  Faults = {"powerLoss", "tornWrite", "shortWrite", "syncErr", "clockBack"}
SYMMETRY Symmetry
INVARIANTS
  LogTotallyOrdered
  DamageConfined
