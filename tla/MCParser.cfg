SPECIFICATION Spec
CONSTANTS
  r = r
  a = a
  b = b
  c = c
  d = d
  e = e
  p = p
  q = q
  u = u
  NoFunc = NoFunc
  Funcs = {r, a, b, c, d, e, p, q, u}
  Callees <- MixedCallees
  Replaced <- MixedProg
  Traceable = {r, a, b, c, d, e, p, q}
  DenyList <- OnlyD
  Roots = {r, c}
  Extra <- Nothing
  MaxDepth = 2
  Debug = FALSE
  MayFail = TRUE
  MayCancel = TRUE
INVARIANTS
  TypeOK
  ParsedOnce
  ResultSound
  
  
PROPERTIES
  Termination
CHECK_DEADLOCK FALSE
