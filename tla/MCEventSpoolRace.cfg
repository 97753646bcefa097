CONSTANTS
  n1 = n1
  n2 = n2
  raw = raw
  refused = refused
  Replay = Replay
  Events <- TwoPlain
  Raw = {}
  Unreadable = {}
  Rejected = {}
  LastDay = 1
  MaxRecords = 2
  BatchSize = 1
  MaxTombs = 1
  MaxCaptures = 2
  MaxMishaps = 0
SPECIFICATION Spec
INVARIANTS
  FailedEventsAreSpooled
