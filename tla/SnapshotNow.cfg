SPECIFICATION Spec
CONSTANTS
  Nil = Nil
  Second = 1
  HalfRange = 2
  MaxDelaySeconds = 1
  Writers = {w1}
  Readers = {r1, r2}
  Ids = {a, b}
  Requests <- DelayRequests
  MaxNow = 2
  MaxLog = 4
  Faults = {}
SYMMETRY Symmetry
PROPERTIES
  SnapshotRespectsNow
