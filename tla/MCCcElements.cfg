CONSTANTS
  Half = 6
  Confs <- Elements
  Types <- TypesOf
  Members <- MembersOf
SPECIFICATION Spec
INVARIANT
  ElementExact
CHECK_DEADLOCK FALSE
