SPECIFICATION Spec
CONSTANTS
  Thread = {main, p1, p2, p3, p4}
  Main = main
  NULL = NULL
  TIME_SLICE = 1
  L = L
  C = C
  TidLock = tid_lock
  IdleStarted = idle_started
  Lock = {tid_lock}
  Semaphore = {idle_started}
  Condition = {}
  LockOf <- MCLockOf
  DeviceSema = {}
  MaxValue = 2
  ClientOps = {"thread_create", "thread_exit"}
  Sleeps = {}
  MaxTid = 5
SYMMETRY PageSymmetry
INVARIANT DistinctTids
