SPECIFICATION FairSpec
CONSTANTS
  p1 = p1
  p2 = p2
  s1 = s1
  None = None
  Probers = {p1, p2}
  Sleepers = {s1}
  Confs <- MCConfs
  Cap = 2
  MaxItems = 3
  MaxTramp = 2
  MaxNaps = 2
INVARIANTS
  TypeOK
  Triggered
  WholeUnlessRaced
PROPERTIES
  ProbesEnd
CHECK_DEADLOCK FALSE
