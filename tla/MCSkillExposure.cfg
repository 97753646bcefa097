CONSTANTS
  o1 = o1
  d1 = d1
  k1 = k1
  k2 = k2
  c1 = c1
  c2 = c2
  r1 = r1
  Ops = {o1}
  Jobs = {d1}
  Calls = {k1, k2}
  Curators = {c1, c2}
  Requests = {r1}
  Target <- MCTarget
  OpOf <- MCOpOf
  MaxAttempts = 2
  UnfreezeTo = {"active", "archived"}
SYMMETRY AnyOrder
SPECIFICATION Spec
INVARIANTS
  TypeOK
  FilesFollowState
  DownstreamOnce
  FrozenHintIsLate
PROPERTIES
  OnlyOperatorLifts
CHECK_DEADLOCK FALSE
