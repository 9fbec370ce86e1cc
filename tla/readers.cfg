SPECIFICATION SystemFairSpec
CONSTANTS
  j1 = j1
  j2 = j2
  w1 = w1
  c1 = c1
  s1 = s1
  q1 = q1
  NoResult = NoResult
  NoWorker = NoWorker
  Jobs = {j1, j2}
  Workers = {w1}
  Cancellers = {c1}
  MaxJobs = 1
  MaxRetries = 1
  MaxTokens = 0
  MaxDeltas = 1
  Faults = {"abort", "crash"}
  MaxRestarts = 1
  Clients = {s1}
  Waiters = {q1}
  MaxReconnects = 0
INVARIANTS
  NoLostWakeup
PROPERTIES
  ReadersReleased
CONSTRAINT OneReader
CHECK_DEADLOCK FALSE
