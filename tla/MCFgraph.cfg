SPECIFICATION Spec
CONSTANTS
  root = root
  other = other
  graph = graph
  plain = plain
  single = single
  Funcs = {root, other, graph, plain, single}
  Confs <- AloneOrNested
  GraphDepth = 2
  CalleeSteps = 2
  CalleeLoops = 4
  MaxCalls = 4
  MaxStack = 4
  MaxInsns = 1
  RingCap = 2
INVARIANTS
  TypeOK
  
  LinesOwn
  
CHECK_DEADLOCK FALSE
