SPECIFICATION FairSpec
CONSTANTS
  alice = alice
  squad = squad
  None = None
  w1 = w1
  w2 = w2
  Ids <- TwoRows
  Workers <- TwoWorkers
  Payloads <- BothTiers
  Invalid <- NoneRejected
  BatchSize = 1
  Concurrency = 2
  MaxRetries = 2
  RetryCap = 2
  DbAttempts = 2
  MaxFaults = 1
PROPERTIES
  UrgentFirst
  EveryOperationSettles
CHECK_DEADLOCK FALSE
