------------------------------- MODULE Synch -------------------------------
(***************************************************************************)
(* threads/synch.c: semaphores, locks and condition variables, over the    *)
(* scheduler of module Threads.                                            *)
(*                                                                         *)
(* A semaphore operation runs with interrupts off: it is one step, except  *)
(* that sema_down() sleeps inside its loop.  Lock and condition operations *)
(* run with interrupts on: they are sequences of frames, and the running   *)
(* thread can be preempted between any two of them.                        *)
(***************************************************************************)
EXTENDS Threads

CONSTANTS
  Lock,        \* locks; a lock's semaphore carries the lock's name
  Semaphore,   \* semaphores that are not part of a lock
  Condition,   \* condition variables
  MaxValue     \* bound on the value of a semaphore

(* The struct semaphore_elem of a cond_wait() call is a local variable of  *)
(* the waiting thread, so at most one exists per thread at a time: its     *)
(* semaphore carries the thread's name.                                    *)
Sema == Lock \cup Semaphore \cup Thread

ASSUME SynchAssumption ==
  /\ Lock \cap Thread = {} /\ Lock \cap Semaphore = {} /\ Semaphore \cap Thread = {}
  /\ NULL \notin Lock
  /\ MaxValue \in Nat \ {0}

VARIABLES
  sema_value,    \* value of each semaphore
  sema_waiters,  \* threads waiting on each semaphore, first come first
  lock_holder,   \* holder member of each lock
  cond_waiters   \* waiters list of each condition (semaphores, by owner)

synch == <<sema_value, sema_waiters, lock_holder, cond_waiters>>
-----------------------------------------------------------------------------
(* What a lock or condition function does, as the frames it runs.          *)

lock_acquire(l) == <<Frame("sema_down", l), Frame("set_holder", l)>>

\* Faulty: the semaphore is upped before the holder is cleared.
lock_release_late(l) == <<Frame("sema_up", l), Frame("clear_holder", l)>>

lock_release(l) == <<Frame("clear_holder", l), Frame("sema_up", l)>>

cond_wait(c, l) ==
  <<Frame("cond_enqueue", c)>> \o lock_release(l)
     \o <<Frame("sema_down", current)>> \o lock_acquire(l)

lock_held_by_current_thread(l) == lock_holder[l] = current
-----------------------------------------------------------------------------
(* sema_down(): "sema_down" is the call, "sema_loop" the re-test of the    *)
(* while condition after thread_block() has returned.                      *)
SemaDown(s) ==
  IF sema_value[s] = 0
  THEN /\ sema_waiters' = [sema_waiters EXCEPT ![s] = Append(@, current)]
       /\ Become("sema_loop", s)
       /\ thread_block
       /\ UNCHANGED sema_value
  ELSE /\ sema_value' = [sema_value EXCEPT ![s] = @ - 1]
       /\ Continue(Under(current))
       /\ UNCHANGED <<sched, sema_waiters>>

sema_down ==
  \E s \in Sema :
    /\ Top(current) \in {Frame("sema_down", s), Frame("sema_loop", s)}
    /\ SemaDown(s)
    /\ UNCHANGED <<lock_holder, cond_waiters>>

\* Faulty: a waiter is woken only when the value was zero.
SemaUpFromZero(s) ==
  /\ sema_value' = [sema_value EXCEPT ![s] = @ + 1]
  /\ IF sema_value[s] = 0 /\ sema_waiters[s] # <<>>
     THEN /\ thread_unblock(Head(sema_waiters[s]))
          /\ sema_waiters' = [sema_waiters EXCEPT ![s] = Tail(@)]
     ELSE UNCHANGED <<sched, sema_waiters>>

(* sema_up(), by the running thread or by an interrupt handler.            *)
SemaUp(s) ==
  /\ sema_value' = [sema_value EXCEPT ![s] = @ + 1]
  /\ IF sema_waiters[s] # <<>>
     THEN /\ thread_unblock(Head(sema_waiters[s]))
          /\ sema_waiters' = [sema_waiters EXCEPT ![s] = Tail(@)]
     ELSE UNCHANGED <<sched, sema_waiters>>

sema_up ==
  \E s \in Sema :
    /\ Top(current) = Frame("sema_up", s)
    /\ SemaUp(s)
    /\ Continue(Under(current))
    /\ UNCHANGED <<lock_holder, cond_waiters>>

\* Faulty: a successful try does not take the unit.
sema_try_down_kept ==
  \E s \in Lock \cup Semaphore :
    /\ Top(current) = Frame("sema_try_down", s)
    /\ IF sema_value[s] > 0 /\ s \in Lock
       THEN Become("set_holder", s) ELSE Continue(Under(current))
    /\ UNCHANGED <<sched, synch>>

(* sema_try_down(), and lock_try_acquire(), which sets the holder when the *)
(* try succeeded.                                                          *)
sema_try_down ==
  \E s \in Lock \cup Semaphore :
    /\ Top(current) = Frame("sema_try_down", s)
    /\ IF sema_value[s] > 0
       THEN /\ sema_value' = [sema_value EXCEPT ![s] = @ - 1]
            /\ IF s \in Lock THEN Become("set_holder", s) ELSE Continue(Under(current))
       ELSE Continue(Under(current)) /\ UNCHANGED sema_value
    /\ UNCHANGED <<sched, sema_waiters, lock_holder, cond_waiters>>
-----------------------------------------------------------------------------
(* The assignments lock->holder = thread_current () and = NULL.            *)
SetHolder(op, holder) ==
  \E l \in Lock :
    /\ Top(current) = Frame(op, l)
    /\ lock_holder' = [lock_holder EXCEPT ![l] = holder]
    /\ Continue(Under(current))
    /\ UNCHANGED <<sched, sema_value, sema_waiters, cond_waiters>>

set_holder   == SetHolder("set_holder", current)
clear_holder == SetHolder("clear_holder", NULL)

(* The first two statements of cond_wait().                                *)
cond_enqueue ==
  \E c \in Condition :
    /\ Top(current) = Frame("cond_enqueue", c)
    /\ sema_value' = [sema_value EXCEPT ![current] = 0]
    /\ cond_waiters' = [cond_waiters EXCEPT ![c] = Append(@, current)]
    /\ Continue(Under(current))
    /\ UNCHANGED <<sched, sema_waiters, lock_holder>>

\* Faulty: the signalled waiter stays on the list.
cond_signal_front ==
  \E c \in Condition :
    /\ Top(current) = Frame("cond_signal", c)
    /\ IF cond_waiters[c] # <<>>
       THEN Become("sema_up", Head(cond_waiters[c]))
       ELSE Continue(Under(current))
    /\ UNCHANGED <<sched, synch>>

cond_signal ==
  \E c \in Condition :
    /\ Top(current) = Frame("cond_signal", c)
    /\ IF cond_waiters[c] # <<>>
       THEN /\ cond_waiters' = [cond_waiters EXCEPT ![c] = Tail(@)]
            /\ Become("sema_up", Head(cond_waiters[c]))
       ELSE Continue(Under(current)) /\ UNCHANGED cond_waiters
    /\ UNCHANGED <<sched, sema_value, sema_waiters, lock_holder>>

(* One test of cond_broadcast()'s loop.                                    *)
cond_broadcast ==
  \E c \in Condition :
    /\ Top(current) = Frame("cond_broadcast", c)
    /\ Continue(IF cond_waiters[c] = <<>> THEN Under(current)
                ELSE <<Frame("cond_signal", c)>> \o agenda[current])
    /\ UNCHANGED <<sched, synch>>

SynchStep ==
  \/ sema_down \/ sema_up \/ sema_try_down \/ set_holder \/ clear_holder
  \/ cond_enqueue \/ cond_signal \/ cond_broadcast
=============================================================================
