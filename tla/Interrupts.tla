----------------------------- MODULE Interrupts -----------------------------
(***************************************************************************)
(* threads/interrupt.c, userprog/exception.c and userprog/syscall.c: how   *)
(* interrupts reach their handlers.  Threads run user programs, which      *)
(* raise exceptions; devices raise IRQ lines on the two PICs; every thread *)
(* has a stack of interrupt frames.  Thread Idle runs no program.          *)
(***************************************************************************)
EXTENDS Integers, Sequences, FiniteSetsExt

CONSTANTS
  Thread, Idle,
  Irq,          \* IRQ lines in use, of 0..15; line 0 is the timer
  Vec,          \* vectors a program may raise
  Addr, NoAddr  \* addresses a program may fault at

VARIABLES
  cur,               \* the running thread
  stack,             \* stack[t]: interrupt frames of thread t, the newest last
  dead,              \* threads that exited
  IF_,               \* the interrupt flag
  in_external_intr, yield_on_return,
  cr2,               \* where the last page fault was
  irr,               \* lines waiting in the PICs
  isr0, isr1         \* lines in service in the master and in the slave PIC

vars == <<cur, stack, dead, IF_, in_external_intr, yield_on_return, cr2, irr, isr0, isr1>>

(* The gates set by exception_init() and syscall_init(): whether the       *)
(* handler starts with interrupts on, and the privilege INT needs.         *)
Gate(v) ==
  CASE v \in {3, 4, 5} -> [dpl |-> 3, on |-> TRUE, handler |-> "kill"]
    [] v = 14          -> [dpl |-> 0, on |-> FALSE, handler |-> "page_fault"]
    [] v = 48          -> [dpl |-> 3, on |-> TRUE, handler |-> "syscall"]
    [] OTHER           -> [dpl |-> 0, on |-> TRUE, handler |-> "kill"]

Init ==
  /\ cur = Idle /\ stack = [t \in Thread |-> <<>>] /\ dead = {} /\ IF_ = TRUE
  /\ in_external_intr = FALSE /\ yield_on_return = FALSE
  /\ cr2 = NoAddr /\ irr = {} /\ isr0 = {} /\ isr1 = {}

mine == stack[cur]
top == mine[Len(mine)]
At(at) == mine # <<>> /\ top.at = at
External(f) == f.irq # 16
Go(at) == stack' = [stack EXCEPT ![cur][Len(mine)].at = at]
-----------------------------------------------------------------------------
\* The PICs: a line is delivered unless one of at least its priority is in service.
Line(i) == IF i >= 8 THEN 2 ELSE i
Deliverable(i) == /\ \A j \in isr0 : Line(i) < j
                  /\ i >= 8 => \A j \in isr1 : i < j

Device(i) == i \notin irr /\ irr' = irr \cup {i} /\ UNCHANGED <<cur, stack, dead, IF_, in_external_intr, yield_on_return, cr2, isr0, isr1>>

\* The CPU takes an external interrupt, through an interrupt gate.
Frame(i) == [irq |-> i, vec |-> 32 + i, at |-> "enter", on |-> IF_, addr |-> NoAddr, fault |-> NoAddr]

Deliver(i) ==
  /\ IF_ /\ i \in irr /\ Deliverable(i)
  /\ irr' = irr \ {i}
  /\ isr0' = isr0 \cup {Line(i)}
  /\ isr1' = IF i >= 8 THEN isr1 \cup {i} ELSE isr1
  /\ stack' = [stack EXCEPT ![cur] = Append(@, Frame(i))]
  /\ IF_' = FALSE
  /\ UNCHANGED <<cur, dead, in_external_intr, yield_on_return, cr2>>

\* A line that dropped again: the PIC delivers line 7 with nothing in service.
Spurious ==
  /\ IF_ /\ \A j \in isr0 : 7 < j
  /\ stack' = [stack EXCEPT ![cur] = Append(@, Frame(7))]
  /\ IF_' = FALSE
  /\ UNCHANGED <<cur, dead, in_external_intr, yield_on_return, cr2, irr, isr0, isr1>>

(* A program executes INT v, or faults with vector v at address a.  INT of *)
(* a gate it may not use raises #GP, vector 13.                            *)
Raise(v, how, a) ==
  LET w == IF how = "int" /\ Gate(v).dpl < 3 THEN 13 ELSE v
      faults == how = "fault" /\ v = 14
  IN  /\ mine = <<>> /\ cur # Idle
      /\ stack' = [stack EXCEPT ![cur] =
           <<[irq |-> 16, vec |-> w, at |-> "enter", on |-> TRUE, addr |-> NoAddr,
              fault |-> IF faults THEN a ELSE NoAddr]>>]
      /\ cr2' = IF faults THEN a ELSE cr2
      /\ IF_' = Gate(w).on
      /\ UNCHANGED <<cur, dead, in_external_intr, yield_on_return, irr, isr0, isr1>>
-----------------------------------------------------------------------------
\* intr_handler() up to the handler.
HandlerEnter ==
  /\ At("enter")
  /\ Go("handler")
  /\ IF External(top) THEN in_external_intr' = TRUE /\ yield_on_return' = FALSE
     ELSE UNCHANGED <<in_external_intr, yield_on_return>>
  /\ UNCHANGED <<cur, dead, IF_, cr2, irr, isr0, isr1>>

(* An external handler: only the timer's asks to yield.  Line 7 without a  *)
(* handler is ignored; any other is an unexpected interrupt.               *)
ExternalHandler ==
  /\ At("handler") /\ External(top)
  /\ yield_on_return' \in IF top.irq = 0 THEN BOOLEAN ELSE {yield_on_return}
  /\ Go("leave")
  /\ UNCHANGED <<cur, dead, IF_, in_external_intr, cr2, irr, isr0, isr1>>

\* Faulty: interrupts are on before CR2 is read.
PageFaultReadLate ==
  /\ At("handler") /\ ~External(top) /\ Gate(top.vec).handler = "page_fault"
  /\ IF IF_ THEN /\ stack' = [stack EXCEPT ![cur][Len(mine)].at = "enable", ![cur][Len(mine)].addr = cr2]
                 /\ UNCHANGED IF_
     ELSE IF_' = TRUE /\ UNCHANGED stack
  /\ UNCHANGED <<cur, dead, in_external_intr, yield_on_return, cr2, irr, isr0, isr1>>

\* page_fault() reads CR2, then turns interrupts on and kills the process.
PageFaultRead ==
  /\ At("handler") /\ ~External(top) /\ Gate(top.vec).handler = "page_fault"
  /\ stack' = [stack EXCEPT ![cur][Len(mine)].at = "enable", ![cur][Len(mine)].addr = cr2]
  /\ UNCHANGED <<cur, dead, IF_, in_external_intr, yield_on_return, cr2, irr, isr0, isr1>>

\* intr_enable().
PageFaultEnable ==
  /\ At("enable") /\ IF_' = TRUE /\ Go("kill")
  /\ UNCHANGED <<cur, dead, in_external_intr, yield_on_return, cr2, irr, isr0, isr1>>

\* schedule() with interrupts off; the thread resumed returns from its own interrupt.
Schedule(u) == cur' = u /\ IF_' = (stack'[u] = <<>>)

\* kill() and syscall_handler(): thread_exit().
ThreadExit(u) ==
  /\ At("kill") \/ (At("handler") /\ ~External(top) /\ Gate(top.vec).handler \in {"kill", "syscall"})
  /\ u \notin dead \cup {cur}
  /\ dead' = dead \cup {cur}
  /\ stack' = [stack EXCEPT ![cur] = <<>>]
  /\ Schedule(u)
  /\ UNCHANGED <<in_external_intr, yield_on_return, cr2, irr, isr0, isr1>>

\* Another program takes the place of one that exited.
Restart(t) ==
  /\ cur = Idle /\ mine = <<>> /\ t \in dead
  /\ dead' = dead \ {t}
  /\ UNCHANGED <<cur, stack, IF_, in_external_intr, yield_on_return, cr2, irr, isr0, isr1>>

\* pic_end_of_interrupt(): a non-specific EOI ends the highest line in service.
Eoi(isr) == IF isr = {} THEN {} ELSE isr \ {Min(isr)}

\* intr_handler() after an external handler: EOI, then thread_yield() if asked.
HandlerLeave(u) ==
  /\ At("leave") /\ u \notin dead /\ (u = cur \/ yield_on_return)
  /\ in_external_intr' = FALSE
  /\ isr0' = Eoi(isr0) /\ isr1' = IF top.irq >= 8 THEN Eoi(isr1) ELSE isr1
  /\ Go("iret") /\ Schedule(u)
  /\ UNCHANGED <<dead, yield_on_return, cr2, irr>>

\* intr_exit: the frame is popped and the flags restored.
Iret ==
  /\ At("iret")
  /\ stack' = [stack EXCEPT ![cur] = SubSeq(@, 1, Len(@) - 1)]
  /\ IF_' = top.on
  /\ UNCHANGED <<cur, dead, in_external_intr, yield_on_return, cr2, irr, isr0, isr1>>

Step ==
  \/ HandlerEnter \/ ExternalHandler \/ PageFaultRead \/ PageFaultEnable \/ Iret
  \/ \E u \in Thread : ThreadExit(u) \/ HandlerLeave(u)

Next ==
  \/ Step \/ Spurious
  \/ \E i \in Irq : Device(i) \/ Deliver(i)
  \/ \E v \in Vec, how \in {"int", "fault"}, a \in Addr : Raise(v, how, a)
  \/ \E t \in Thread : Restart(t)

Spec == Init /\ [][Next]_vars
-----------------------------------------------------------------------------
(* The address page_fault() reports and would page in is the one this      *)
(* thread faulted at, although other threads fault in between: the gate of *)
(* vector 14 keeps interrupts off until CR2 is read.                       *)
FaultAddrRight ==
  \A t \in Thread : \A k \in 1 .. Len(stack[t]) :
    stack[t][k].at \in {"enable", "kill"} /\ stack[t][k].vec = 14 =>
      stack[t][k].addr = stack[t][k].fault

(* The assertions of intr_handler(): external interrupts do not nest, and  *)
(* intr_context() holds from entry to exit of one and never in a thread    *)
(* that was switched to.                                                   *)
ContextExact ==
  /\ At("enter") /\ External(top) => ~IF_ /\ ~in_external_intr
  /\ in_external_intr <=> (mine # <<>> /\ External(top) /\ top.at \in {"handler", "leave"})
  /\ \A t \in Thread \ {cur} : \A k \in 1 .. Len(stack[t]) : stack[t][k].at \in {"handler", "leave"} =>
       ~External(stack[t][k])
============================================================================
