SPECIFICATION Spec
CONSTANTS
  Thread = {main, p1, p2, p3}
  Main = main
  NULL = NULL
  TIME_SLICE = 2
  L = L
  C = C
  TidLock = tid_lock
  IdleStarted = idle_started
  Lock = {tid_lock}
  Semaphore = {idle_started, S}
  Condition = {}
  LockOf <- MCLockOf
  DeviceSema = {S}
  MaxValue = 2
  ClientOps = {"sema_down", "sema_up", "sema_try_down", "thread_create", "thread_yield", "thread_exit"}
  Sleeps = {}
  MaxTid = 4
SYMMETRY PageSymmetry
INVARIANTS TypeOK ListsMatchStatus NoLostWakeup
