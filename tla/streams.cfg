SPECIFICATION SystemSpec
CONSTANTS
  j1 = j1
  j2 = j2
  w1 = w1
  c1 = c1
  s1 = s1
  q1 = q1
  NoResult = NoResult
  NoWorker = NoWorker
  Jobs = {j1}
  Workers = {w1}
  Cancellers = {c1}
  MaxJobs = 1
  MaxRetries = 1
  MaxTokens = 2
  MaxDeltas = 2
  Faults = {"slow_model"}
  MaxRestarts = 0
  Clients = {s1}
  Waiters = {}
  MaxReconnects = 1
INVARIANTS
  SystemTypeOK
  NoDuplicates
  NoGaps
  ClosesComplete
  NoLostWakeup
CHECK_DEADLOCK FALSE
