CONSTANTS
  n1 = n1
  n2 = n2
  raw = raw
  refused = refused
  Replay = Replay
  Events <- OneOfEach
  Raw = {}
  Unreadable = {raw}
  Rejected = {refused}
  LastDay = 2
  MaxRecords = 2
  BatchSize = 2
  MaxTombs = 1
  MaxCaptures = 1
  MaxMishaps = 1
SPECIFICATION FairSpec
PROPERTIES
  SpoolDrains
