CONSTANTS
  Half = 6
  Confs <- AllConfs
  Types <- TypesOf
  Members <- MembersOf
SPECIFICATION Spec
INVARIANTS
  TypeOK
  RegsOwned
  
  NoUninit
  ExitJustified
CHECK_DEADLOCK FALSE
