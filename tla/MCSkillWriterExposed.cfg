CONSTANTS
  v1 = v1
  v2 = v2
  v3 = v3
  w1 = w1
  w2 = w2
  None = None
  Txs = {v1, v2}
  Slots = {w1, w2}
  Concurrency = 1
  MaxAttempts = 2
  MaxStops = 1
  MaxFaults = 1
SPECIFICATION Spec
SYMMETRY AnyOrder
CHECK_DEADLOCK FALSE
INVARIANTS
  FailedApplyNotVisible
