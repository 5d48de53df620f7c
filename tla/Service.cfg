SPECIFICATION Spec
CONSTANTS
  Nil = Nil
  Second = 1
  HalfRange = 2
  MaxDelaySeconds = 1
  Writers = {w1, w2}
  Readers = {r1, r2}
  Ids = {a, b}
  Requests <- EdgeRequests
  MaxNow = 1
  MaxLog = 3
  Faults = {"powerLoss", "writeErr"}
SYMMETRY Symmetry
INVARIANTS
  TypeOK
  Durability
  AtMostOnce
  MemoryMatchesLog
  LiveSeqUnique
  DelayHonoured
PROPERTIES
  ImplementsDurableQueue
  StatsAddUp
  NeverEarly
