CONSTANTS
  core = core
  scan = scan
  late = late
  kind = kind
  t1 = t1
  t2 = t2
  p1 = p1
  p2 = p2
  None = None
  Schedules = {core, scan}
  Core = {core}
  Kinds = {kind}
  KindOf <- MCKindOf
  Policy <- Coalesce
  Interval <- UnitInterval
  Tickers = {t1, t2}
  Loops = {t1}
  Limit = 2
  Starts = {p1}
  EditTimes = {}
  MaxEdits = 0
  MaxAborts = 0
  MaxNow = 2
  Horizon = 3
SPECIFICATION RegisteredSpec
PROPERTIES
  CadencePreserved
CHECK_DEADLOCK FALSE
