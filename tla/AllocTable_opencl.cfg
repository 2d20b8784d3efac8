CONSTANTS
  Threads = {t1, t2, t3}
  Addrs = {a1, a2, a3}
  NULL = NULL
  Backend = "opencl"
SPECIFICATION Spec
INVARIANTS TypeOK HeldOwned TableBacked NoLeak Exclusive
PROPERTY ImplementsPromise
