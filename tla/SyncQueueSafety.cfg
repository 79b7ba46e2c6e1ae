SPECIFICATION Spec
CONSTANTS
  alice = alice
  squad = squad
  None = None
  w1 = w1
  w2 = w2
  Ids <- TwoRows
  Workers <- TwoWorkers
  Payloads <- AllKinds
  Invalid <- Rejected
  BatchSize = 2
  Concurrency = 2
  MaxRetries = 3
  RetryCap = 2
  DbAttempts = 2
  MaxFaults = 2
INVARIANTS
  SoleOwner
  ProcessingAccounted
  StrandedOnlySuperseded
  LanesSequential
PROPERTY
  TerminalFinal
SYMMETRY WorkerSymmetry
CHECK_DEADLOCK FALSE
