SPECIFICATION Spec
CONSTANTS
  Nil = Nil
  Records <- MCRecords
  MaxChunks = 4
  Window = 8
  Bytes <- MCBytes
  Limits <- MCLimits
INVARIANTS
  RecoverReturnsLive
  FailsOnlyOnCorruption
  TailIsNewest
