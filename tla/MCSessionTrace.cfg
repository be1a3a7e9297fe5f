SPECIFICATION FairSpec
CONSTANTS
  t1 = t1
  t2 = t2
  f1 = f1
  f2 = f2
  f3 = f3
  e1 = e1
  e2 = e2
  NoFunc = NoFunc
  NoId = NoId
  NoElem = NoElem
  Tasks = {t1, t2}
  MaxDepth = 1
  MaxCalls = 3
  Funcs = {f1}
  BothFuncs = {f1}
  EntryFuncs = {}
  RequiredFuncs = {f1}
  NRnd = 3
  Word <- MCWord
  LowFp <- MCLowFp
  Elems = {e1, e2}
  RingCap = 2
  Kprobe = TRUE
  FreedElemReused = TRUE
  FreshRnd = TRUE
  ExitMayMiss = FALSE
  RunDelta = FALSE
  Limit = 2
INVARIANTS
  PrintedIsOneCall
PROPERTIES
  QueuedExitHandled
  ImplementsCallTrace
CHECK_DEADLOCK FALSE
