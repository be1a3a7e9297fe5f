SPECIFICATION Spec
CONSTANTS
  fn = fn
  other = other
  NoTarget = NoTarget
  Targets = {fn, other}
  Confs <- MCConfs
  MayFail = FALSE
INVARIANT
  NoPanic
CHECK_DEADLOCK FALSE
