SPECIFICATION FairSpec
CONSTANTS
  t1 = t1
  t2 = t2
  add = add
  relu = relu
  p1 = p1
  p2 = p2
  b1 = b1
  b2 = b2
  off = off
  Threads <- MCThreads
  Builtins = {add}
  Progs = {p1}
  Registered <- MCRegistered
  Operands <- MCOperands
  NArgs = 2
  Unset = Unset
  NoThread = NoThread
  MaxOps = 3
INVARIANTS
  TypeOK
  MutexHeldInside
  JitOwnArgs
  MixedOnlyByOverlap
  SynchronousReturn
  CompiledOnce
PROPERTIES
  Returns
CHECK_DEADLOCK FALSE
