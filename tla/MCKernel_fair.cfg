SPECIFICATION FairSpec
CONSTANTS
  Thread = {main, p1, p2, p3}
  Main = main
  NULL = NULL
  TIME_SLICE = 2
  L = L
  C = C
  TidLock = tid_lock
  IdleStarted = idle_started
  Lock = {tid_lock}
  Semaphore = {idle_started}
  Condition = {}
  LockOf <- MCLockOf
  DeviceSema = {}
  MaxValue = 2
  ClientOps = {"thread_create", "timer_sleep", "thread_yield"}
  Sleeps <- MCSleeps
  MaxTid = 4
PROPERTIES ReadyRuns SleepReturns BootCompletes
