------------------------------ MODULE Threads ------------------------------
(***************************************************************************)
(* The scheduler of threads/thread.c.  Pintos runs on one processor, so    *)
(* "who runs" is one variable; every operator below is executed by the     *)
(* code with interrupts off and is therefore one indivisible step.         *)
(*                                                                         *)
(* A thread is identified with the page that holds its struct thread and   *)
(* its kernel stack.  What a thread still has to do before it is back in   *)
(* its own code is its agenda: the frames of the kernel functions it is    *)
(* inside, innermost first.  An empty agenda is a thread running its own   *)
(* code with interrupts on.                                                *)
(***************************************************************************)
EXTENDS Integers, Sequences, FiniteSets

CONSTANTS
  Thread,       \* pages that can hold a thread
  Main,         \* initial_thread, whose page comes from the loader
  NULL,         \* the null pointer
  TIME_SLICE    \* ticks a thread may run before it is preempted

ASSUME ThreadAssumption ==
  /\ Main \in Thread
  /\ NULL \notin Thread
  /\ IsFiniteSet(Thread)
  /\ TIME_SLICE \in Nat \ {0}

VARIABLES
  status,        \* status of each page; FREE when it holds no thread
  ready_list,    \* the run queue
  current,       \* the thread whose stack the processor is on
  idle_thread,   \* NULL until idle() has run for the first time
  thread_ticks,  \* ticks since the last context switch
  agenda         \* what each thread still has to do inside the kernel

sched == <<status, ready_list, current, thread_ticks>>

Status == {"RUNNING", "READY", "BLOCKED", "DYING", "FREE"}
-----------------------------------------------------------------------------
(* Frames.                                                                 *)

Frame(op, arg) == [op |-> op, arg |-> arg]

\* The innermost frame of thread t, and what lies under it.
Top(t)   == Head(agenda[t])
Under(t) == Tail(agenda[t])
InKernel(t, op) == agenda[t] # <<>> /\ Top(t).op = op

\* The running thread's agenda becomes frames.
Continue(frames) == agenda' = [agenda EXCEPT ![current] = frames]

\* The innermost frame is replaced, the others stay.
Become(op, arg) == agenda' = [agenda EXCEPT ![current][1] = Frame(op, arg)]

(* Interrupts are off when a thread has just been resumed inside           *)
(* sema_down()'s loop: it blocked with interrupts off and re-tests the     *)
(* value before it turns them on again.                                    *)
intr_get_level == IF InKernel(current, "sema_loop") THEN "OFF" ELSE "ON"
-----------------------------------------------------------------------------
(* The head of the run queue, or the idle thread when nobody is ready.     *)
next_thread_to_run(rl) == IF rl = <<>> THEN idle_thread ELSE Head(rl)

(* The status of every thread once next runs: a dying predecessor gives    *)
(* its page back, except the initial thread, whose page is not palloc's.   *)
thread_schedule_tail(st, prev, next) ==
  [t \in Thread |->
     IF t = next THEN "RUNNING"
     ELSE IF t = prev /\ st[t] = "DYING" /\ t # Main THEN "FREE"
     ELSE st[t]]

(* Switches away from the running thread, whose new status is already in   *)
(* st and which is already in rl if it belongs there.                      *)
schedule(st, rl) ==
  LET next == next_thread_to_run(rl)
  IN  /\ status' = thread_schedule_tail(st, current, next)
      /\ ready_list' = IF rl = <<>> THEN rl ELSE Tail(rl)
      /\ current' = next
      /\ thread_ticks' = 0

\* Faulty: the idle thread enters the run queue like any other.
thread_yield_any ==
  schedule([status EXCEPT ![current] = "READY"], Append(ready_list, current))

(* The idle thread yields without entering the run queue.                  *)
thread_yield ==
  schedule([status EXCEPT ![current] = "READY"],
           IF current # idle_thread THEN Append(ready_list, current)
                                    ELSE ready_list)

thread_block == schedule([status EXCEPT ![current] = "BLOCKED"], ready_list)

thread_exit == schedule([status EXCEPT ![current] = "DYING"], ready_list)

(* Makes a blocked thread ready.  It does not preempt the running thread.  *)
thread_unblock(t) ==
  /\ status' = [status EXCEPT ![t] = "READY"]
  /\ ready_list' = Append(ready_list, t)
  /\ UNCHANGED <<current, thread_ticks>>

\* Faulty: no preemption at the end of the time slice.
thread_tick_cooperative ==
  /\ thread_ticks' = (thread_ticks + 1) % TIME_SLICE
  /\ UNCHANGED <<status, ready_list, current>>

(* The scheduler's half of a timer interrupt: the tick that ends the time  *)
(* slice makes intr_handler() yield before it returns.                     *)
thread_tick ==
  IF thread_ticks + 1 >= TIME_SLICE
  THEN thread_yield
  ELSE thread_ticks' = thread_ticks + 1 /\ UNCHANGED <<status, ready_list, current>>
=============================================================================
