SPECIFICATION Spec
CONSTANTS
  Thread = {main, p1, p2, p3}
  Main = main
  NULL = NULL
  TIME_SLICE = 1
  L = L
  C = C
  TidLock = tid_lock
  IdleStarted = idle_started
  Lock = {tid_lock, L}
  Semaphore = {idle_started}
  Condition = {C}
  LockOf <- MCLockOf
  DeviceSema = {}
  MaxValue = 2
  ClientOps = {"thread_create", "lock_acquire", "lock_try_acquire", "lock_release", "cond_wait", "cond_signal", "cond_broadcast", "thread_exit"}
  Sleeps = {}
  MaxTid = 4
SYMMETRY PageSymmetry
INVARIANTS LockToken SignalNotLost
PROPERTY HolderNotStolen
