---------------------------- MODULE KernelProof -----------------------------
(***************************************************************************)
(* The theorems about module Kernel, for any number of threads, semaphores, *)
(* locks and conditions and any time slice.                                *)
(***************************************************************************)
EXTENDS KernelSynch, KernelLocks, KernelSignals, KernelWakeups
-----------------------------------------------------------------------------
(* IInv is an inductive invariant of the kernel's threads, for any number  *)
(* of pages, locks, semaphores and conditions and any time slice.          *)
THEOREM Inductive == Spec => []IInv
<1>1. Init => IInv
  BY InitInv
<1>2. IInv /\ [Next]_vars => IInv'
  BY NextInv
<1> QED BY <1>1, <1>2, PTL DEF Spec

(* Type correctness: in particular next_thread_to_run() of thread.c never  *)
(* returns a null idle_thread, so ASSERT (is_thread (next)) holds.         *)
THEOREM TypeCorrect == Spec => []TypeOK
<1>1. IInv => TypeOK
  BY ZenonT(30) DEF IInv
<1> QED BY <1>1, Inductive, PTL

(* thread.c and synch.c keep run queue, wait lists and status in step: a   *)
(* ready thread is on the run queue, a blocked one on exactly one wait     *)
(* list, each once, in every interleaving of threads and interrupts.       *)
THEOREM ListsCorrect == Spec => []ListsMatchStatus
<1>1. IInv => ListsMatchStatus
  BY DEF IInv, ListsMatchStatus
<1> QED BY <1>1, Inductive, PTL
-----------------------------------------------------------------------------
(* Locks, wakeups, signals and identifiers.                                *)

(* IInv says which list a thread is on, the rest what it is about to do:   *)
(* its frames are those of one function of the kernel, in order (AgendaInv *)
(* of module KernelAgendas), and each lock's, sleeper's and signal's token *)
(* is in one place.                                                        *)
KInv == IInv /\ AgendaInv /\ LockInv /\ TidInv /\ SleepInv /\ SignalInv /\ NoLostWakeup

LEMMA IInvBase ==
  ASSUME IInv
  PROVE  Base
<1>1. TypeOK /\ ListsMatchStatus /\ \A t \in Thread : Nascent(t) => status[t] = "BLOCKED"
  BY DEF IInv, ListsMatchStatus, NascentBlocked
<1>2. PICK i \in Thread : IsIdle(i)
  BY DEF IInv, IdleInv
<1>3. idle_thread # NULL => status[idle_thread] # "FREE"
  BY <1>2 DEF IsIdle
<1> QED BY <1>1, <1>3 DEF Base

LEMMA KInit ==
  ASSUME Init
  PROVE  KInv
BY InitInv, LockInit, TidInit, AsleepInit, SignalInit, WakeupInit, ZenonT(30) DEF KInv

LEMMA KStep ==
  ASSUME KInv, [Next]_vars
  PROVE  KInv' /\ NotStolen
<1>1. /\ IInv /\ AgendaInv /\ LockInv /\ TidInv /\ SleepInv /\ SignalInv /\ NoLostWakeup
      /\ Base /\ TypeOK
  BY IInvBase DEF KInv, Base
<1>2. IInv' /\ TypeOK'
  <2>1. IInv'
    BY <1>1, NextInv, ZenonT(30)
  <2> QED BY <2>1 DEF IInv
<1>3. AgendaInv' /\ LockInv' /\ NotStolen
  BY <1>1, LockStep, ZenonT(30)
<1>4. TidInv'
  BY <1>1, <1>2, TidStep, ZenonT(30)
<1>5. SleepInv'
  BY <1>1, <1>2, AsleepStep, ZenonT(30)
<1>6. SignalInv'
  BY <1>1, SignalStep, ZenonT(30)
<1>7. NoLostWakeup'
  BY <1>1, <1>2, WakeupStep, ZenonT(30)
<1> QED BY <1>2, <1>3, <1>4, <1>5, <1>6, <1>7, ZenonT(30) DEF KInv

(* KInv is an inductive invariant of the kernel's threads.                 *)
THEOREM KInductive == Spec => []KInv
<1>1. Init => KInv
  BY KInit
<1>2. KInv /\ [Next]_vars => KInv'
  BY KStep
<1> QED BY <1>1, <1>2, PTL DEF Spec

(* A lock has one unit, in its semaphore or with one thread.               *)
LEMMA CountLocks ==
  ASSUME LockInv
  PROVE  LockToken
<1> SUFFICES ASSUME NEW l \in Lock PROVE sema_value[l] + Cardinality(Inside(l)) = 1
  BY DEF LockToken
<1>1. Token(l)
  BY DEF LockInv
<1>2. \A t \in Thread : t \in Inside(l) <=> In(t, l)
  <2> TAKE t \in Thread
  <2>1. agenda[t] = <<>> => now[t] \notin {Frame("set_holder", l), Frame("sema_up", l)}
    BY DEF now, First, End, Frame
  <2>2. agenda[t] # <<>> => now[t] = Top(t)
    BY DEF now, First, Top
  <2> QED BY <2>1, <2>2, ZenonT(30) DEF Inside, In
<1>3. Inside(l) \subseteq Thread
  BY DEF Inside
<1>4. CASE sema_value[l] = 1
  <2>1. Inside(l) = {}
    BY <1>1, <1>2, <1>3, <1>4, ZenonT(30) DEF Token
  <2> QED BY <1>4, <2>1, FS_EmptySet, SMTT(30)
<1>5. CASE sema_value[l] = 0
  <2>1. PICK t \in Thread : In(t, l)
    BY <1>1, <1>5, ZenonT(30) DEF Token
  <2>2. Inside(l) = {t}
    BY <1>1, <1>2, <1>3, <2>1, ZenonT(30) DEF Token
  <2>3. Cardinality(Inside(l)) = 1
    BY <2>2, FS_Singleton, ZenonT(30)
  <2> QED BY <1>5, <2>3, SMTT(30)
<1> QED BY <1>1, <1>4, <1>5, ZenonT(30) DEF Token

(* Mutual exclusion: of a lock of synch.c, either the semaphore has its    *)
(* one unit and nobody is inside, or it has none and exactly one thread    *)
(* is, wherever lock_acquire(), lock_try_acquire(), lock_release() and     *)
(* cond_wait() are preempted.                                              *)
THEOREM MutualExclusion == Spec => []LockToken
<1>1. KInv => LockToken
  BY CountLocks DEF KInv
<1> QED BY <1>1, KInductive, PTL

(* Nobody but the holder changes a lock's holder member, although          *)
(* lock_acquire() writes it after its sema_down() has returned.            *)
THEOREM HolderKept == Spec => HolderNotStolen
<1>1. KInv /\ [Next]_vars =>
        [\A l \in Lock : lock_holder[l] # NULL => lock_holder'[l] \in {lock_holder[l], NULL}]_vars
  BY KStep DEF NotStolen
<1>2. Spec => [][Next]_vars
  BY PTL DEF Spec
<1> QED BY <1>1, <1>2, KInductive, PTL DEF HolderNotStolen

(* sema_up() of synch.c loses no wakeup: as long as threads sleep on a     *)
(* semaphore, no unit of it is left without a woken thread to take it,     *)
(* whoever barges in between thread_unblock() and the woken thread's turn. *)
THEOREM WakeupsKept == Spec => []NoLostWakeup
<1>1. KInv => NoLostWakeup
  BY ZenonT(30) DEF KInv
<1> QED BY <1>1, KInductive, PTL

(* cond_signal() and cond_broadcast() of synch.c lose no signal and send   *)
(* none twice, and no list of a condition keeps the element of a thread    *)
(* that has left cond_wait(), in whose stack frame the element lived.      *)
THEOREM SignalsKept == Spec => []SignalNotLost
<1>1. KInv => SignalNotLost
  BY CountSignals, ZenonT(30) DEF KInv, IInv
<1> QED BY <1>1, KInductive, PTL

(* allocate_tid() of thread.c gives no two threads the same identifier,    *)
(* although its increment is a read and a write and can be preempted.      *)
THEOREM TidsDistinct == Spec => []DistinctTids
<1>1. KInv => DistinctTids
  BY DEF KInv, TidInv
<1> QED BY <1>1, KInductive, PTL
=============================================================================
