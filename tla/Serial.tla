------------------------------- MODULE Serial -------------------------------
(***************************************************************************)
(* devices/intq.c, a circular buffer shared by threads and interrupt       *)
(* handlers, and its users: devices/serial.c in interrupt-driven mode,     *)
(* devices/input.c and the end of keyboard_interrupt().  Two interrupt     *)
(* queues lie between threads, two interrupt handlers and the 16550A UART. *)
(* Readers call input_getc(), writers serial_putc().  Which unblocked      *)
(* thread runs when is left to module Kernel; here any of them may.        *)
(*                                                                         *)
(* The functions of intq.c run with interrupts off, so each is indivisible *)
(* up to the points where a thread blocks: lock_acquire() and wait().  A   *)
(* queue is a record; the operators give the queue a function leaves       *)
(* behind.                                                                 *)
(***************************************************************************)
EXTENDS Integers, Sequences

CONSTANTS
  INTQ_BUFSIZE,  \* slots of the buffer; one stays empty
  Byte,          \* what the slots hold
  NULL           \* no thread, or no byte

ASSUME IntqAssumption == INTQ_BUFSIZE \in Nat \ {0, 1} /\ Byte # {} /\ NULL \notin Byte

next(pos) == (pos + 1) % INTQ_BUFSIZE

(* The lock's semaphore is the pair value, waiters.                        *)
intq_init ==
  [buf |-> [i \in 0 .. INTQ_BUFSIZE - 1 |-> CHOOSE b \in Byte : TRUE],
   head |-> 0, tail |-> 0, not_full |-> NULL, not_empty |-> NULL,
   value |-> 1, waiters |-> <<>>]

\* Faulty: the wrap-around is forgotten, so a full buffer can look free.
intq_full_unwrapped(q) == q.head + 1 = q.tail

intq_empty(q) == q.head = q.tail
intq_full(q)  == next(q.head) = q.tail

(* intq_getc() of a queue that is not empty, its signal() included.        *)
Take(q) == [q EXCEPT !.tail = next(@), !.not_full = NULL]

\* Faulty: intq_putc() does not signal.
AddSilently(q, byte) == [q EXCEPT !.buf[q.head] = byte, !.head = next(@)]

(* intq_putc() on a queue that is not full, its signal() included.         *)
Add(q, byte) == [q EXCEPT !.buf[q.head] = byte, !.head = next(@), !.not_empty = NULL]

(* lock_release() of the queue's lock.                                     *)
Release(q) == [q EXCEPT !.value = @ + 1, !.waiters = IF @ = <<>> THEN @ ELSE Tail(@)]

\* Threads the queue can name as waiting, each as often as it does.
Sleepers(q) == <<q.not_full, q.not_empty>> \o q.waiters
Names(q)    == {Sleepers(q)[i] : i \in DOMAIN Sleepers(q)} \ {NULL}

\* The bytes between tail and head, oldest first.
Contents(q) ==
  [i \in 1 .. (q.head - q.tail) % INTQ_BUFSIZE |-> q.buf[(q.tail + i - 1) % INTQ_BUFSIZE]]
-----------------------------------------------------------------------------
(* The port and its users.                                                 *)

CONSTANTS
  Reader, Writer,  \* threads
  LineByte,        \* bytes that arrive on the serial line
  KeyByte,         \* bytes that are typed
  OutByte,         \* bytes threads write
  OffByte          \* bytes written by callers that have interrupts off

ASSUME SerialAssumption ==
  /\ Reader \cap Writer = {} /\ NULL \notin Reader \cup Writer
  /\ LineByte \cup KeyByte \cup OutByte \cup OffByte \subseteq Byte

VARIABLES
  queue,     \* input.c's buffer and serial.c's txq
  pc,        \* where a thread is: its own code, or asleep in lock_acquire() or wait()
  byte,      \* argument of a writer's serial_putc()
  blocked,   \* threads with status THREAD_BLOCKED
  panicked,  \* an ASSERT has failed
  ier,       \* interrupt enable register
  rbr, thr,  \* receiver buffer and transmitter holding register
  taken      \* the last byte intq_getc() returned, for each queue

vars == <<queue, pc, byte, blocked, panicked, ier, rbr, thr, taken>>

Caller == Reader \cup Writer

QueueOf(t)  == IF t \in Reader THEN "buffer" ELSE "txq"
WaiterOf(t) == IF t \in Reader THEN "not_empty" ELSE "not_full"

\* The condition of the while loop in intq_getc() or intq_putc().
MustWait(t, q) == IF t \in Reader THEN intq_empty(q) ELSE intq_full(q)

(* The value write_ier() computes from the two queues.                     *)
write_ier(qs) ==
  (IF intq_empty(qs["txq"]) THEN {} ELSE {"XMIT"})
     \cup (IF intq_full(qs["buffer"]) THEN {} ELSE {"RECV"})

\* The threads that are unblocked when queue q becomes r.
Unblocked(q, r) == Names(q) \ Names(r)

(* After serial_init_queue().                                              *)
Init ==
  /\ queue = [n \in {"buffer", "txq"} |-> intq_init]
  /\ pc = [t \in Caller |-> "own"]
  /\ byte = [t \in Writer |-> NULL]
  /\ blocked = {}
  /\ panicked = FALSE
  /\ ier = write_ier(queue)
  /\ rbr = NULL /\ thr = NULL
  /\ taken = [n \in {"buffer", "txq"} |-> NULL]
-----------------------------------------------------------------------------
(* lock_acquire() and then wait(), when t's queue is q.  The lock can be   *)
(* taken by others between a release and the moment the woken thread runs. *)
AcquireAndWait(t, q) ==
  LET n == QueueOf(t)
      Sleep(r, where) ==
        /\ queue' = [queue EXCEPT ![n] = r]
        /\ pc' = [pc EXCEPT ![t] = where]
        /\ blocked' = (blocked \ Unblocked(queue[n], q)) \cup {t}
        /\ UNCHANGED panicked
  IN  /\ \/ q.value = 0 /\ Sleep([q EXCEPT !.waiters = Append(@, t)], "lock")
         \/ /\ q.value > 0 /\ MustWait(t, q)
            /\ Sleep([q EXCEPT !.value = @ - 1, ![WaiterOf(t)] = t], "wait")
         \/ /\ q.value > 0 /\ ~MustWait(t, q)
            /\ panicked' = TRUE
            /\ UNCHANGED <<queue, pc, blocked>>
      /\ UNCHANGED <<ier, rbr, thr, taken>>

\* Faulty: input_getc() does not call serial_notify().
getc_unnotified(t, q) ==
  /\ queue' = [queue EXCEPT !["buffer"] = Take(q)]
  /\ taken' = [taken EXCEPT !["buffer"] = q.buf[q.tail]]
  /\ blocked' = blocked \ Unblocked(queue["buffer"], Take(q))
  /\ UNCHANGED ier

(* The rest of input_getc(), serial_notify() included.                     *)
getc(t, q) ==
  /\ queue' = [queue EXCEPT !["buffer"] = Take(q)]
  /\ taken' = [taken EXCEPT !["buffer"] = q.buf[q.tail]]
  /\ blocked' = blocked \ Unblocked(queue["buffer"], Take(q))
  /\ ier' = write_ier(queue')

(* The rest of serial_putc().                                              *)
putc(q, b) ==
  /\ queue' = [queue EXCEPT !["txq"] = Add(q, b)]
  /\ blocked' = blocked \ Unblocked(queue["txq"], Add(q, b))
  /\ ier' = write_ier(queue')
  /\ UNCHANGED taken

(* The while loop of intq_getc() or intq_putc(), from its test on.         *)
Loop(t, q, b) ==
  \/ MustWait(t, q) /\ AcquireAndWait(t, q)
  \/ /\ ~MustWait(t, q)
     /\ IF t \in Reader THEN getc(t, q) ELSE putc(q, b)
     /\ pc' = [pc EXCEPT ![t] = "own"]
     /\ UNCHANGED <<panicked, rbr, thr>>
-----------------------------------------------------------------------------
input_getc(t) ==
  /\ pc[t] = "own"
  /\ Loop(t, queue["buffer"], NULL)
  /\ UNCHANGED byte

serial_putc(t, b) ==
  /\ pc[t] = "own"
  /\ byte' = [byte EXCEPT ![t] = b]
  /\ Loop(t, queue["txq"], b)

(* A thread that has been unblocked runs again: inside sema_down(), or     *)
(* after wait(), where it releases the lock and tests the queue again.     *)
Resume(t) ==
  LET q == queue[QueueOf(t)] IN
  /\ t \notin blocked
  /\ \/ pc[t] = "lock" /\ AcquireAndWait(t, q)
     \/ pc[t] = "wait" /\ Loop(t, Release(q), IF t \in Writer THEN byte[t] ELSE NULL)
  /\ UNCHANGED byte

(* putc_poll() waits until the byte in the holding register has left.      *)
putc_poll(b) == thr' = b

\* Faulty: the queue is not tested.
serial_putc_off_blind(b) ==
  putc(queue["txq"], b) /\ UNCHANGED <<pc, byte, panicked, rbr, thr>>

(* serial_putc() with interrupts already off.                              *)
serial_putc_off(b) ==
  LET q == queue["txq"] IN
  /\ IF intq_full(q)
     THEN /\ putc_poll(q.buf[q.tail])
          /\ taken' = [taken EXCEPT !["txq"] = q.buf[q.tail]]
          /\ queue' = [queue EXCEPT !["txq"] = Add(Take(q), b)]
     ELSE /\ queue' = [queue EXCEPT !["txq"] = Add(q, b)]
          /\ UNCHANGED <<thr, taken>>
  /\ blocked' = blocked \ Unblocked(q, queue'["txq"])
  /\ ier' = write_ier(queue')
  /\ UNCHANGED <<pc, byte, panicked, rbr>>

serial_flush ==
  LET q == queue["txq"]
      last == Contents(q)[Len(Contents(q))]
  IN  /\ ~intq_empty(q)
      /\ putc_poll(last)
      /\ taken' = [taken EXCEPT !["txq"] = last]
      /\ queue' = [queue EXCEPT !["txq"] = [q EXCEPT !.tail = q.head, !.not_full = NULL]]
      /\ blocked' = blocked \ Unblocked(q, queue'["txq"])
      /\ UNCHANGED <<pc, byte, panicked, ier, rbr>>
-----------------------------------------------------------------------------
(* One pass of each loop of serial_interrupt(): the UART has its FIFO      *)
(* disabled, so there is one byte to receive and room for one to send.     *)
serial_interrupt ==
  LET i == queue["buffer"]
      x == queue["txq"]
      receive  == rbr # NULL /\ ~intq_full(i)
      transmit == thr = NULL /\ ~intq_empty(x)
  IN  /\ ("RECV" \in ier /\ rbr # NULL) \/ ("XMIT" \in ier /\ thr = NULL)
      /\ queue' = [queue EXCEPT !["buffer"] = IF receive THEN Add(i, rbr) ELSE i,
                                !["txq"] = IF transmit THEN Take(x) ELSE x]
      /\ rbr' = IF receive THEN NULL ELSE rbr
      /\ thr' = IF transmit THEN x.buf[x.tail] ELSE thr
      /\ taken' = IF transmit THEN [taken EXCEPT !["txq"] = x.buf[x.tail]] ELSE taken
      /\ blocked' = blocked \ (Unblocked(i, queue'["buffer"]) \cup Unblocked(x, queue'["txq"]))
      /\ ier' = write_ier(queue')
      /\ UNCHANGED <<pc, byte, panicked>>

(* keyboard_interrupt() for an ordinary key: lost when the buffer is full. *)
keyboard_interrupt(b) ==
  LET q == queue["buffer"] IN
  /\ ~intq_full(q)
  /\ queue' = [queue EXCEPT !["buffer"] = Add(q, b)]
  /\ blocked' = blocked \ Unblocked(q, queue'["buffer"])
  /\ ier' = write_ier(queue')
  /\ UNCHANGED <<pc, byte, panicked, rbr, thr, taken>>

(* The UART: a byte arrives, a byte leaves.                                *)
uart_receive(b) ==
  rbr = NULL /\ rbr' = b /\ UNCHANGED <<queue, pc, byte, blocked, panicked, ier, thr, taken>>

uart_send ==
  thr # NULL /\ thr' = NULL /\ UNCHANGED <<queue, pc, byte, blocked, panicked, ier, rbr, taken>>

Next ==
  /\ ~panicked
  /\ \/ \E t \in Reader : input_getc(t)
     \/ \E t \in Writer, b \in OutByte : serial_putc(t, b)
     \/ \E t \in Caller : Resume(t)
     \/ \E b \in OffByte : serial_putc_off(b)
     \/ serial_flush
     \/ serial_interrupt
     \/ \E b \in KeyByte : keyboard_interrupt(b)
     \/ \E b \in LineByte : uart_receive(b)
     \/ uart_send

Spec == Init /\ [][Next]_vars

-----------------------------------------------------------------------------
(* No sleeper is forgotten.  Every blocked thread is named in its queue     *)
(* exactly once, so a signal() or a lock release can still wake it, and     *)
(* only blocked threads are; a thread stays in wait() only while the queue  *)
(* is still empty, or still full; and while a thread waits for the queue's  *)
(* lock, somebody holds it or has been woken to take it.                    *)
SleepersKept ==
  /\ \A t \in Caller :
       LET s == Sleepers(queue[QueueOf(t)])
           places == {i \in DOMAIN s : s[i] = t}
       IN  IF t \in blocked THEN \E i \in places : places = {i} ELSE places = {}
  /\ queue["buffer"].not_empty # NULL => intq_empty(queue["buffer"])
  /\ queue["txq"].not_full # NULL => intq_full(queue["txq"])
  /\ \A n \in {"buffer", "txq"} :
       queue[n].waiters # <<>> =>
         \/ queue[n].value = 0
         \/ \E t \in Caller : QueueOf(t) = n /\ pc[t] = "lock" /\ t \notin blocked

(* The interrupt enable register never lags behind the queues: the UART     *)
(* interrupts as long as there is something to send, and about received     *)
(* bytes exactly while there is room for one ("Reassess whether we should   *)
(* block receive interrupts", serial.c:143).  After serial_flush() the      *)
(* transmit interrupt may stay enabled for nothing; the reverse would stall *)
(* the console.                                                             *)
IerCurrent ==
  /\ ~intq_empty(queue["txq"]) => "XMIT" \in ier
  /\ "RECV" \in ier <=> ~intq_full(queue["buffer"])

(* The ASSERT of wait(), intq.c:91: a thread that has got the queue's lock  *)
(* in order to wait still has a reason to.                                  *)
WaitAssert == ~panicked

(* Both queues are bounded first-in first-out buffers, whoever fills and    *)
(* empties them: intq.c implements module Fifo.                             *)
Input  == INSTANCE Fifo WITH q <- Contents(queue["buffer"]), out <- taken["buffer"],
                             Capacity <- INTQ_BUFSIZE - 1
Output == INSTANCE Fifo WITH q <- Contents(queue["txq"]), out <- taken["txq"],
                             Capacity <- INTQ_BUFSIZE - 1
InputFifo  == Input!Spec
OutputFifo == Output!Spec

=============================================================================
