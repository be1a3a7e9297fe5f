SPECIFICATION FairSpec
CONSTANTS
  fn = fn
  other = other
  NoTarget = NoTarget
  Targets = {fn, other}
  Confs <- MCConfs
  MayFail = TRUE
INVARIANTS
  TypeOK
  PrintedAsAsked
  NothingSkipped
  LinksClosed
  PanicOnlyBeforeParsed
PROPERTIES
  Starts
CHECK_DEADLOCK FALSE
