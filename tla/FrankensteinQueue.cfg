SPECIFICATION Spec
CONSTANTS
  Second = 1
  HalfRange = 8
  MaxDelaySeconds = 3
  Messages <- MixedMessages
  Limits = {0, 1}
  MaxTime = 1
  MaxOrder = 5
INVARIANTS
  HeapIntegrity
  SnapshotIsDrainOrder
PROPERTIES
  ImplementsEngineSpec
