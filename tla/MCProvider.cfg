CONSTANTS
  Clients = {"a", "b"}
  IntervalConfigured = TRUE
  MaxChanges = 2
  MaxScheds = 2
SPECIFICATION FairProviderSpec
INVARIANTS
  MutexOK
PROPERTIES
  EveryRequestAnswered
  IntervalMiningFollows
CHECK_DEADLOCK FALSE
