SPECIFICATION MCSpec
CONSTANTS
  Word = 16
  Go <- MCGo
  Rust <- MCRust
  Nothing = Nothing
  Samples <- MCSamples
  MessageIds = {"m1", "m2"}
  MinLedger = 2
  Lookback = 2
  Retention = 3
  PageLimit = 2
  MaxPerLedger = 1
  MaxLedger = 6
  MaxStarts = 2
INVARIANTS
  CallsUnderstood
  EventsUnderstood
  AttemptsExact
PROPERTY AttemptsCatchUp
CHECK_DEADLOCK FALSE
