SPECIFICATION Spec
CONSTANTS
  t1 = t1
  t2 = t2
  f1 = f1
  f2 = f2
  f3 = f3
  e1 = e1
  e2 = e2
  NoFunc = NoFunc
  NoId = NoId
  NoElem = NoElem
  Tasks = {t1, t2}
  MaxDepth = 2
  MaxCalls = 3
  Funcs = {f1, f2, f3}
  BothFuncs = {f1}
  EntryFuncs = {f2}
  RequiredFuncs = {f1}
  NRnd = 1
  Word <- MCWord
  LowFp <- MCLowFp
  Elems = {e1}
  RingCap = 2
  Kprobe = FALSE
  FreedElemReused = FALSE
  FreshRnd = FALSE
  ExitMayMiss = TRUE
  RunDelta = TRUE
  Limit = 0
INVARIANTS
  TypeOK
  PrintedPairsMatch
  
  PrintedOnce
  SkippedOnlyAfterLoss
  OpenSessionsAwaitExit
CHECK_DEADLOCK FALSE
