CONSTANTS
  a1 = a1
  e1 = e1
  m1 = m1
  w1 = w1
  w2 = w2
  Actions = {a1}
  Events = {e1}
  Momenta = {m1}
  Influenced = {e1}
  Elsewhere = {e1}
  Signals <- MCSignals
  Workers = {w1, w2}
  MaxRuns = 2
  MaxScore = 4
  MaxSignals = 2
  MaxMishaps = 1
SPECIFICATION Spec
SYMMETRY WorkerSymmetry
INVARIANTS
  TypeOK
  RepairedOnce
  NothingStranded
  FalsePositiveNeverOpens
PROPERTIES
  QueuedIsHandedOn
  OutcomeLostByQueuer
CHECK_DEADLOCK FALSE
