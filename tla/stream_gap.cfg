SPECIFICATION SystemSpec
CONSTANTS
  j1 = j1
  j2 = j2
  w1 = w1
  c1 = c1
  s1 = s1
  q1 = q1
  NoResult = NoResult
  NoWorker = NoWorker
  Jobs = {j1}
  Workers = {w1}
  Cancellers = {}
  MaxJobs = 1
  MaxRetries = 1
  MaxTokens = 1
  MaxDeltas = 1
  Faults = {"crash"}
  MaxRestarts = 1
  Clients = {s1}
  Waiters = {}
  MaxReconnects = 0
INVARIANTS
  NoGaps
CHECK_DEADLOCK FALSE
