SPECIFICATION Spec
CONSTANTS
  Nil = Nil
  Second = 1
  HalfRange = 2
  MaxDelaySeconds = 1
  Writers = {w1}
  Readers = {}
  Ids = {a, b}
  Requests <- PlainRequests
  MaxNow = 0
  MaxLog = 5
  Faults = {"powerLoss", "tornWrite"}
SYMMETRY Symmetry
INVARIANTS
  Durability
