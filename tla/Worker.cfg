SPECIFICATION Spec
CONSTANTS
  Nil = Nil
  Second = 4
  HalfRange = 64
  MaxDelaySeconds = 8
  Script <- PairedScript
  Backlogs <- ShortBacklogs
  PollInterval = 2
  IdleGrace = 6
  Patience = 120
  JustNow = 4
  Lag = 1
  Thieves = 1
INVARIANTS
  PredictionHolds
  VerdictsTrue
  TimesOutOnlyIfRobbed
  EndsInTime
