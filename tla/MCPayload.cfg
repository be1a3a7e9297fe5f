SPECIFICATION Spec
CONSTANTS
  c1 = c1
  c2 = c2
  c3 = c3
  u1 = u1
  u2 = u2
  f = f
  g = g
  s1 = s1
  s2 = s2
  s3 = s3
  None = None
  Calls = {c1, c2, c3}
  CPUs = {u1, u2}
  Progs = {f, g}
  Stacks = {s1, s2, s3}
  Bucket <- MCBucket
  Slots = 2
  Confs <- MCConfs
  StrWords = 2
  BufWords = 2
INVARIANTS
  TypeOK
  LbrSound
  StackSound
  NothingLeft
  RecordSound
  TupleSound
CHECK_DEADLOCK FALSE
