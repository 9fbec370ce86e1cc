SPECIFICATION FairSpec
CONSTANTS
  j1 = j1
  w1 = w1
  w2 = w2
  c1 = c1
  NoResult = NoResult
  NoWorker = NoWorker
  Jobs = {j1}
  Workers = {w1, w2}
  Cancellers = {c1}
  MaxJobs = 1
  MaxRetries = 1
  MaxTokens = 2
  MaxDeltas = 1
  Faults = {"sigterm", "abort", "crash"}
  MaxRestarts = 1
INVARIANTS
  BufferEndsWithResult
  CancelOvershoot
PROPERTIES
  JobsDroppedForAReason
  EventuallyAnnounced
CHECK_DEADLOCK FALSE
