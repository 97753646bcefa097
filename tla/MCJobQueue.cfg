CONSTANTS
  j1 = j1
  j2 = j2
  e1 = e1
  e2 = e2
  w1 = w1
  w2 = w2
  None = None
  Jobs = {j1, j2}
  Execs = {e1, e2}
  Workers = {w1, w2}
  WorkerOf <- MCWorkerOf
  Eligible <- MCEligible
  Priority <- J2First
  Backoff <- MCBackoff
  MaxAttempts = 2
  LeaseTicks = 0
  AgeCap = 1
SPECIFICATION FairSpec
INVARIANTS
  TypeOK
  AttemptBudget
  HistoryAgrees
PROPERTIES
  CompletionIsOwn
  SettledStaysSettled
  LedgerSpec
  EveryJobSettles
