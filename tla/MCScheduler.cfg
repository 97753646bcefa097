CONSTANTS
  core = core
  scan = scan
  late = late
  kind = kind
  t1 = t1
  t2 = t2
  p1 = p1
  p2 = p2
  None = None
  Schedules = {core, scan, late}
  Core = {core, late}
  Kinds = {kind}
  KindOf <- MCKindOf
  Policy <- SkipAndCatchUp
  Interval <- UnitInterval
  Tickers = {t1, t2}
  Loops = {t1}
  Limit = 2
  Starts = {p1}
  EditTimes = {0}
  MaxEdits = 1
  MaxAborts = 1
  MaxNow = 1
  Horizon = 2
SPECIFICATION FairSpec
INVARIANTS
  TypeOK
  OneActivePerKind
PROPERTIES
  NoneBesideManual
  SlotRunsOnce
  CommitKeepsEdits
  DueIsServed
CHECK_DEADLOCK FALSE
