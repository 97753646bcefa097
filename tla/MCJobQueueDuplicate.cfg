CONSTANTS
  j1 = j1
  j2 = j2
  e1 = e1
  e2 = e2
  w1 = w1
  w2 = w2
  None = None
  Jobs = {j1}
  Execs = {e1, e2}
  Workers = {w1, w2}
  WorkerOf <- MCWorkerOf
  Eligible <- MCEligible
  Priority <- SamePriority
  Backoff <- MCBackoff
  MaxAttempts = 3
  LeaseTicks = 1
  AgeCap = 0
SPECIFICATION PunctualSpec
INVARIANTS
  JobLeasesPreventDuplicateMutation
