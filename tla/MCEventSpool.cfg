CONSTANTS
  n1 = n1
  n2 = n2
  raw = raw
  refused = refused
  Replay = Replay
  Events <- OneOfEach
  Raw = {raw}
  Unreadable = {}
  Rejected = {refused}
  LastDay = 2
  MaxRecords = 2
  BatchSize = 2
  MaxTombs = 1
  MaxCaptures = 1
  MaxMishaps = 1
SPECIFICATION Spec
INVARIANTS
  TypeOK
  DroppedIsSafe
  SpooledIsAccounted
