SPECIFICATION Spec
CONSTANTS
  root = root
  other = other
  graph = graph
  plain = plain
  single = single
  Funcs = {root, other, graph, plain, single}
  Confs <- Both
  GraphDepth = 2
  CalleeSteps = 2
  CalleeLoops = 4
  MaxCalls = 3
  MaxStack = 3
  MaxInsns = 0
  RingCap = 3
INVARIANTS
  NoPanic
CHECK_DEADLOCK FALSE
