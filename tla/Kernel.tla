------------------------------- MODULE Kernel -------------------------------
(***************************************************************************)
(* The kernel's threads at work: booting, thread creation and exit, the    *)
(* idle thread, the timer interrupt, timer_sleep(), and threads that call  *)
(* the operations of threads/thread.c, threads/synch.c and devices/timer.c *)
(* in any order those operations' ASSERTs allow.                           *)
(***************************************************************************)
EXTENDS Synch

CONSTANTS
  TidLock,      \* tid_lock of thread.c
  IdleStarted,  \* idle_started, local to thread_start()
  LockOf,       \* the lock a condition variable is used with
  DeviceSema,   \* semaphores that interrupt handlers "up"
  ClientOps,    \* the operations threads call
  Sleeps,       \* the arguments of timer_sleep()
  MaxTid        \* bound on the thread identifiers handed out

ASSUME KernelAssumption ==
  /\ TidLock \in Lock /\ IdleStarted \in Semaphore
  /\ LockOf \in [Condition -> Lock \ {TidLock}]
  /\ DeviceSema \subseteq Semaphore \ {IdleStarted}
  /\ Sleeps \subseteq Int
  /\ MaxTid \in Nat \ {0}

VARIABLES
  tid,       \* tid of each thread, from the read in allocate_tid() on; 0 before
  next_tid   \* the static counter of allocate_tid()

vars == <<sched, idle_thread, agenda, synch, tid, next_tid>>
tids == <<tid, next_tid>>

ClientLock == Lock \ {TidLock}
ClientSema == Semaphore \ {IdleStarted}

\* Faulty: idle() does not set idle_thread, or does not up idle_started.
idle_unset  == <<Frame("sema_up", IdleStarted), Frame("idle_loop", NULL)>>
idle_silent == <<Frame("set_idle", NULL), Frame("idle_loop", NULL)>>

(* idle(), up to its loop.                                                 *)
idle == <<Frame("set_idle", NULL), Frame("sema_up", IdleStarted), Frame("idle_loop", NULL)>>

(* thread_init() and thread_start() up to intr_enable() run alone and with *)
(* interrupts off.  They leave the initial thread running, about to wait   *)
(* for idle_started, and the idle thread ready.                            *)
Init ==
  \E i \in Thread \ {Main} :
    /\ status = [t \in Thread |-> CASE t = Main -> "RUNNING" [] t = i -> "READY"
                                    [] OTHER -> "FREE"]
    /\ ready_list = <<i>>
    /\ current = Main
    /\ idle_thread = NULL
    /\ thread_ticks = 0
    /\ agenda = [t \in Thread |-> CASE t = Main -> <<Frame("sema_down", IdleStarted)>>
                                    [] t = i -> idle [] OTHER -> <<>>]
    /\ sema_value = [s \in Sema |-> IF s \in Lock THEN 1 ELSE 0]
    /\ sema_waiters = [s \in Sema |-> <<>>]
    /\ lock_holder = [l \in Lock |-> NULL]
    /\ cond_waiters = [c \in Condition |-> <<>>]
    /\ tid = [t \in Thread |-> CASE t = Main -> 1 [] t = i -> 2 [] OTHER -> 0]
    /\ next_tid = 3
-----------------------------------------------------------------------------
\* Faulty: the counter is not protected by the lock.
allocate_tid_unlocked(t) == <<Frame("read_tid", t), Frame("write_tid", t)>>

(* allocate_tid() for new thread t.  The increment is a read and a write.  *)
allocate_tid(t) ==
  lock_acquire(TidLock) \o <<Frame("read_tid", t), Frame("write_tid", t)>>
    \o lock_release(TidLock)

(* thread_create() up to allocate_tid(): a page, or TID_ERROR when there is *)
(* none; init_thread() leaves the new thread blocked.  The agenda of a free *)
(* page is empty, for threads exit from their own code.                     *)
create ==
  /\ Top(current) = Frame("create", NULL)
  /\ \/ /\ \A t \in Thread : status[t] # "FREE"
        /\ Continue(Under(current))
        /\ UNCHANGED <<status, tid>>
     \/ \E t \in Thread :
          /\ status[t] = "FREE"
          /\ status' = [status EXCEPT ![t] = "BLOCKED"]
          /\ tid' = [tid EXCEPT ![t] = 0]
          /\ Continue(allocate_tid(t) \o <<Frame("unblock", t)>> \o Under(current))
  /\ UNCHANGED <<ready_list, current, thread_ticks, idle_thread, synch, next_tid>>

(* tid = next_tid++, in allocate_tid().                                    *)
read_tid ==
  \E t \in Thread :
    /\ Top(current) = Frame("read_tid", t)
    /\ tid' = [tid EXCEPT ![t] = next_tid]
    /\ Continue(Under(current))
    /\ UNCHANGED <<sched, idle_thread, synch, next_tid>>

write_tid ==
  \E t \in Thread :
    /\ Top(current) = Frame("write_tid", t)
    /\ next_tid' = tid[t] + 1
    /\ Continue(Under(current))
    /\ UNCHANGED <<sched, idle_thread, synch, tid>>

(* The end of thread_create().                                             *)
unblock ==
  \E t \in Thread :
    /\ Top(current) = Frame("unblock", t)
    /\ thread_unblock(t)
    /\ Continue(Under(current))
    /\ UNCHANGED <<idle_thread, synch, tids>>

(* idle(): idle_thread = thread_current ().                                *)
set_idle ==
  /\ Top(current) = Frame("set_idle", NULL)
  /\ idle_thread' = current
  /\ Continue(Under(current))
  /\ UNCHANGED <<sched, synch, tids>>

(* idle(): one turn of the loop up to "sti; hlt".                          *)
idle_loop ==
  /\ Top(current) = Frame("idle_loop", NULL)
  /\ Become("hlt", NULL)
  /\ thread_block
  /\ UNCHANGED <<idle_thread, synch, tids>>

(* timer_sleep(): its loop yields until enough ticks have elapsed.  The    *)
(* frame holds the number of ticks still missing.                          *)
timer_sleep ==
  /\ Top(current).op = "timer_sleep"
  /\ IF Top(current).arg > 0
     THEN thread_yield /\ UNCHANGED agenda
     ELSE Continue(Under(current)) /\ UNCHANGED sched
  /\ UNCHANGED <<idle_thread, synch, tids>>
-----------------------------------------------------------------------------
(* External interrupts.  An interrupt ends the idle thread's hlt.          *)

AfterInterrupt(t, frames) ==
  IF t = current /\ frames = <<Frame("hlt", NULL)>>
  THEN [frames EXCEPT ![1].op = "idle_loop"] ELSE frames

\* Faulty: ticks is not incremented.
ElapseNever(frames) == frames

Elapse(frames) ==
  IF frames # <<>> /\ Head(frames).op = "timer_sleep" /\ Head(frames).arg > 0
  THEN [frames EXCEPT ![1].arg = @ - 1]
  ELSE frames

(* timer_interrupt(): ticks++, which brings every sleeper one tick nearer, *)
(* then thread_tick().                                                     *)
TimerInterrupt ==
  /\ intr_get_level = "ON"
  /\ agenda' = [t \in Thread |-> AfterInterrupt(t, Elapse(agenda[t]))]
  /\ thread_tick
  /\ UNCHANGED <<idle_thread, synch, tids>>

(* A device's handler, which wakes whoever waits for the device.           *)
DeviceInterrupt ==
  /\ intr_get_level = "ON"
  /\ \E s \in DeviceSema : sema_value[s] < MaxValue /\ SemaUp(s)
  /\ agenda' = [t \in Thread |-> AfterInterrupt(t, agenda[t])]
  /\ UNCHANGED <<lock_holder, cond_waiters, idle_thread, tids>>
-----------------------------------------------------------------------------
(* A thread in its own code calls the kernel.  The guards are the callee's *)
(* ASSERTs, the bounds MaxValue and MaxTid, and the one rule every client  *)
(* of synch.c keeps: no thread exits while it holds a lock.                *)

Enter(op, frames) == op \in ClientOps /\ Continue(frames)

Call ==
  /\ agenda[current] = <<>>
  /\ \/ \E l \in ClientLock :
          /\ ~lock_held_by_current_thread(l)
          /\ \/ Enter("lock_acquire", lock_acquire(l))
             \/ Enter("lock_try_acquire", <<Frame("sema_try_down", l)>>)
     \/ \E l \in ClientLock :
          lock_held_by_current_thread(l) /\ Enter("lock_release", lock_release(l))
     \/ \E s \in ClientSema :
          \/ Enter("sema_down", <<Frame("sema_down", s)>>)
          \/ Enter("sema_try_down", <<Frame("sema_try_down", s)>>)
          \/ sema_value[s] < MaxValue /\ Enter("sema_up", <<Frame("sema_up", s)>>)
     \/ \E c \in Condition :
          /\ lock_held_by_current_thread(LockOf[c])
          /\ \/ Enter("cond_wait", cond_wait(c, LockOf[c]))
             \/ Enter("cond_signal", <<Frame("cond_signal", c)>>)
             \/ Enter("cond_broadcast", <<Frame("cond_broadcast", c)>>)
     \/ next_tid <= MaxTid /\ Enter("thread_create", <<Frame("create", NULL)>>)
     \/ \E n \in Sleeps : Enter("timer_sleep", <<Frame("timer_sleep", n)>>)
  /\ UNCHANGED <<sched, idle_thread, synch, tids>>

Yield ==
  /\ agenda[current] = <<>>
  /\ "thread_yield" \in ClientOps
  /\ thread_yield
  /\ UNCHANGED <<idle_thread, agenda, synch, tids>>

Exit ==
  /\ agenda[current] = <<>>
  /\ "thread_exit" \in ClientOps
  /\ \A l \in Lock : ~lock_held_by_current_thread(l)
  /\ thread_exit
  /\ UNCHANGED <<idle_thread, agenda, synch, tids>>
-----------------------------------------------------------------------------
ThreadStep ==
  /\ agenda[current] # <<>>
  /\ \/ SynchStep /\ UNCHANGED <<idle_thread, tids>>
     \/ create \/ read_tid \/ write_tid \/ unblock
     \/ set_idle \/ idle_loop \/ timer_sleep

Next ==
  \/ ThreadStep
  \/ Call \/ Yield \/ Exit
  \/ TimerInterrupt \/ DeviceInterrupt

Spec == Init /\ [][Next]_vars

(* Timer ticks are far enough apart that a thread executes instructions    *)
(* whenever it is scheduled, and a timer interrupt that finds interrupts   *)
(* off stays latched in the PIC until they are on.  Nothing is assumed     *)
(* about what threads call, nor about devices.                             *)
FairSpec ==
  /\ Spec
  /\ \A t \in Thread : SF_vars(current = t /\ ThreadStep)
  /\ SF_vars(TimerInterrupt)
-----------------------------------------------------------------------------
Op == {"sema_down", "sema_loop", "sema_up", "sema_try_down", "set_holder",
       "clear_holder", "cond_enqueue", "cond_signal", "cond_broadcast", "create",
       "read_tid", "write_tid", "unblock", "set_idle", "idle_loop", "hlt"}

Frames == [op : Op, arg : Sema \cup Condition \cup {NULL}]
            \cup [op : {"timer_sleep"}, arg : Int]

(* Type invariant.  That current is a thread, never the null pointer, is    *)
(* what ASSERT (is_thread (next)) in schedule() demands: idle_thread is set *)
(* before the run queue can be found empty.                                 *)
TypeOK ==
  /\ status \in [Thread -> Status]
  /\ ready_list \in Seq(Thread)
  /\ current \in Thread
  /\ idle_thread \in Thread \cup {NULL}
  /\ thread_ticks \in 0 .. TIME_SLICE - 1
  /\ agenda \in [Thread -> Seq(Frames)]
  /\ sema_value \in [Sema -> Nat]
  /\ sema_waiters \in [Sema -> Seq(Thread)]
  /\ lock_holder \in [Lock -> Thread \cup {NULL}]
  /\ cond_waiters \in [Condition -> Seq(Thread)]
  /\ tid \in [Thread -> Nat]
  /\ next_tid \in Nat
-----------------------------------------------------------------------------
Occurs(t, q) == \E i \in DOMAIN q : q[i] = t
Once(q)      == \A i, j \in DOMAIN q : q[i] = q[j] => i = j

\* Child t is between init_thread() and thread_unblock() in thread_create().
Nascent(t) ==
  \E u \in Thread : \E i \in DOMAIN agenda[u] : agenda[u][i] = Frame("unblock", t)

RunQueueInv ==
  /\ \A t \in Thread : status[t] = "RUNNING" <=> t = current
  /\ Once(ready_list)
  /\ \A t \in Thread :
       Occurs(t, ready_list) <=> status[t] = "READY" /\ t # idle_thread

Waits(t, s) == Occurs(t, sema_waiters[s])

WaitListInv ==
  /\ \A s \in Sema : Once(sema_waiters[s])
  /\ \A s, r \in Sema : \A t \in Thread : Waits(t, s) /\ Waits(t, r) => s = r
  /\ \A t \in Thread :
       (\E s \in Sema : Waits(t, s))
         <=> status[t] = "BLOCKED" /\ t # idle_thread /\ ~Nascent(t)

(* A thread is where its status says, and nowhere else: one thread runs;   *)
(* the run queue holds each ready thread once, and never the idle thread   *)
(* ("the idle thread never appears in the ready list", thread.c:393); a    *)
(* wait list holds only blocked threads, and a blocked thread that is      *)
(* neither idle nor being created is on exactly one, so that somebody can  *)
(* still wake it.  This is what lets run queue and wait lists share the    *)
(* elem member (thread.h:77).                                              *)
ListsMatchStatus == RunQueueInv /\ WaitListInv

\* Threads sema_up() has woken on s that have not yet run again.
Woken(s) ==
  {t \in Thread : InKernel(t, "sema_loop") /\ Top(t).arg = s /\ status[t] # "BLOCKED"}

(* No wakeup is lost: while threads sleep on a semaphore, every unit of its *)
(* value has a woken thread on its way to take it.  A thread that barges in *)
(* takes a unit of a woken one, never of a sleeping one.                    *)
NoLostWakeup ==
  \A s \in Sema : sema_waiters[s] # <<>> => Cardinality(Woken(s)) >= sema_value[s]

\* Threads that have downed lock l's semaphore and not yet upped it.
Inside(l) ==
  {t \in Thread : \/ lock_holder[l] = t
                  \/ agenda[t] # <<>>
                     /\ Top(t) \in {Frame("set_holder", l), Frame("sema_up", l)}}

(* Mutual exclusion: a lock's semaphore and the threads inside the lock     *)
(* share one token, also in the windows where the holder member lags behind *)
(* (lock_acquire() sets it after sema_down(), lock_release() clears it      *)
(* before sema_up()).                                                       *)
LockToken == \A l \in Lock : sema_value[l] + Cardinality(Inside(l)) = 1

(* The holder member never passes from one thread to another without being  *)
(* cleared: the thread that holds a lock is the only one to change it.      *)
HolderNotStolen ==
  [][\A l \in Lock : lock_holder[l] # NULL => lock_holder'[l] \in {lock_holder[l], NULL}]_vars

\* Thread t is inside cond_wait(), before or in its sema_down().
CondWaiting(t) ==
  \E i \in DOMAIN agenda[t] :
    agenda[t][i] \in {Frame("sema_down", t), Frame("sema_loop", t)}

(* No signal is lost: a thread inside cond_wait() is still on a condition's *)
(* list, or a signaller that took it off is about to up its semaphore, or   *)
(* its semaphore is up, and only one of these.  Conversely no list holds    *)
(* the (stack-allocated) element of a thread that has left cond_wait().     *)
SignalNotLost ==
  \A t \in Thread :
    LET listed    == UNION {{<<c, i>> : i \in {j \in DOMAIN cond_waiters[c] : cond_waiters[c][j] = t}} :
                             c \in Condition}
        signalled == {u \in Thread : InKernel(u, "sema_up") /\ Top(u).arg = t}
        sent      == Cardinality(listed) + Cardinality(signalled) + sema_value[t]
    IN  IF CondWaiting(t) /\ ~InKernel(t, "cond_enqueue") THEN sent = 1 ELSE sent = 0

(* Thread identifiers are unique: allocate_tid()'s increment is protected   *)
(* by tid_lock.                                                             *)
DistinctTids ==
  \A t, u \in Thread :
    t # u /\ tid[t] # 0 /\ status[t] # "FREE" /\ status[u] # "FREE" => tid[t] # tid[u]
-----------------------------------------------------------------------------
(* Round robin: a thread that is ready gets the processor.                  *)
ReadyRuns ==
  \A t \in Thread : (status[t] = "READY" /\ t # idle_thread) ~> (status[t] = "RUNNING")

(* A sleeper whose ticks have elapsed, or will, returns from timer_sleep(), *)
(* although it polls and shares the processor with threads that never stop. *)
SleepReturns ==
  \A t \in Thread : InKernel(t, "timer_sleep") ~> ~InKernel(t, "timer_sleep")

(* thread_start() returns: the idle thread ups idle_started wherever the    *)
(* first timer interrupts fall.                                             *)
BootCompletes == <>(agenda[Main] = <<>>)
=============================================================================
