SPECIFICATION FairSpec
CONSTANTS
  j1 = j1
  w1 = w1
  w2 = w2
  c1 = c1
  NoResult = NoResult
  NoWorker = NoWorker
  Jobs = {j1}
  Workers = {w1}
  Cancellers = {c1}
  MaxJobs = 1
  MaxRetries = 1
  MaxTokens = 2
  MaxDeltas = 1
  Faults = {"slow_model", "crash"}
  MaxRestarts = 2
INVARIANTS
  TypeOK
  NeverStranded
  CancelOvershoot
PROPERTIES
  ImplementsLifecycle
  EventuallyAnnounced
CHECK_DEADLOCK FALSE
