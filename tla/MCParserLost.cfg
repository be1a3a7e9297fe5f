SPECIFICATION Spec
CONSTANTS
  r = r
  a = a
  b = b
  c = c
  d = d
  e = e
  p = p
  q = q
  u = u
  NoFunc = NoFunc
  Funcs = {r, a, b, c, d, e, q, u}
  Callees <- CyclicCallees
  Replaced <- NoReplaced
  Traceable = {r, a, b, c, d, e, q}
  DenyList <- Nothing
  Roots = {r}
  Extra <- Nothing
  MaxDepth = 2
  Debug = FALSE
  MayFail = FALSE
  MayCancel = FALSE
INVARIANTS
  AllFunctions
CHECK_DEADLOCK FALSE
