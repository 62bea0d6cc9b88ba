---------------------------- MODULE SerialProof ----------------------------
(***************************************************************************)
(* Proofs about module Serial, for any number of readers and writers and   *)
(* any size of the interrupt queues: no sleeper is forgotten, the UART's   *)
(* interrupt enable register is current, and the queues are first-in       *)
(* first-out buffers.                                                      *)
(***************************************************************************)
EXTENDS Serial, TLAPS

QueueName == {"buffer", "txq"}
Slot == 0 .. INTQ_BUFSIZE - 1

\* The threads that use queue n.
Users(n) == {t \in Caller : QueueOf(t) = n}

QueueRecord(n) ==
  [buf : [Slot -> Byte], head : Slot, tail : Slot, not_full : Users(n) \cup {NULL},
   not_empty : Users(n) \cup {NULL}, value : Nat, waiters : Seq(Users(n))]

(* Type invariant.  A writer that is inside serial_putc() has a byte.      *)
TypeOK ==
  /\ queue = [n \in QueueName |-> queue[n]]
  /\ \A n \in QueueName : queue[n] \in QueueRecord(n)
  /\ pc \in [Caller -> {"own", "lock", "wait"}]
  /\ byte = [t \in Writer |-> byte[t]]
  /\ \A t \in Writer : pc[t] # "own" => byte[t] \in Byte
  /\ blocked \subseteq Caller
  /\ rbr \in Byte \cup {NULL}
  /\ taken = [n \in QueueName |-> taken[n]]
-----------------------------------------------------------------------------
(* A queue's lock and its sleepers, for a queue q of name n, threads at p  *)
(* and blocked threads b.                                                  *)

In(t, w) == \E i \in 1 .. Len(w) : w[i] = t

\* The thread in wait(), and the member of struct intq that stays NULL.
Waiter(n, q) == IF n = "buffer" THEN q.not_empty ELSE q.not_full
Unused(n, q) == IF n = "buffer" THEN q.not_full ELSE q.not_empty
Stuck(n, q)  == IF n = "buffer" THEN intq_empty(q) ELSE intq_full(q)

(* The thread in wait() holds the queue's lock, asleep or woken.  A thread *)
(* is on the lock's list, or named by the queue, exactly while it is       *)
(* blocked there.                                                          *)
Good(n, q, p, b) ==
  /\ \A i, j \in 1 .. Len(q.waiters) : q.waiters[i] = q.waiters[j] => i = j
  /\ \A t \in Users(n) :
       /\ In(t, q.waiters) <=> p[t] = "lock" /\ t \in b
       /\ Waiter(n, q) = t <=> p[t] = "wait" /\ t \in b
       /\ t \in b => p[t] # "own"
       /\ p[t] = "wait" => q.value = 0
  /\ \A t, u \in Users(n) : p[t] = "wait" /\ p[u] = "wait" => t = u
  /\ q.value = 1 \/ (q.value = 0 /\ \E t \in Users(n) : p[t] = "wait")
  /\ Unused(n, q) = NULL
  /\ Waiter(n, q) # NULL => Stuck(n, q)
  /\ q.waiters # <<>> => q.value = 0 \/ \E t \in Users(n) : p[t] = "lock" /\ t \notin b

QueueInv == \A n \in QueueName : Good(n, queue[n], pc, blocked)

-----------------------------------------------------------------------------
(* The circular buffer holds a sequence.                                   *)

LEMMA NextSlot ==
  ASSUME NEW i \in Slot
  PROVE  next(i) = (IF i + 1 = INTQ_BUFSIZE THEN 0 ELSE i + 1) /\ next(i) \in Slot
<1>1. CASE i + 1 = INTQ_BUFSIZE
  BY <1>1 DEF next, Slot
<1>2. CASE i + 1 # INTQ_BUFSIZE
  <2>1. 0 <= i + 1 /\ i + 1 < INTQ_BUFSIZE
    BY <1>2, IntqAssumption DEF Slot
  <2> QED BY <1>2, <2>1, IntqAssumption DEF next, Slot
<1> QED BY <1>1, <1>2

LEMMA EmptyOrNot ==
  ASSUME NEW S, NEW q \in Seq(S), q # <<>>
  PROVE  /\ Len(q) \in Nat \ {0} /\ Head(q) = q[1] /\ Head(q) \in S
         /\ Tail(q) \in Seq(S) /\ Len(Tail(q)) = Len(q) - 1
         /\ \A i \in 1 .. Len(q) - 1 : Tail(q)[i] = q[i + 1]
OBVIOUS

LEMMA TakeType ==
  ASSUME NEW n \in QueueName, NEW q \in QueueRecord(n)
  PROVE  /\ Take(q) \in QueueRecord(n)
         /\ Take(q).buf = q.buf /\ Take(q).head = q.head /\ Take(q).tail = next(q.tail)
         /\ Take(q).not_full = NULL /\ Take(q).not_empty = q.not_empty
         /\ Take(q).value = q.value /\ Take(q).waiters = q.waiters
<1>1. next(q.tail) \in Slot
  BY NextSlot DEF QueueRecord
<1> QED BY <1>1, ZenonT(30) DEF Take, QueueRecord

LEMMA AddType ==
  ASSUME NEW n \in QueueName, NEW q \in QueueRecord(n), NEW x \in Byte
  PROVE  /\ Add(q, x) \in QueueRecord(n)
         /\ \A i \in Slot : Add(q, x).buf[i] = IF i = q.head THEN x ELSE q.buf[i]
         /\ Add(q, x).head = next(q.head) /\ Add(q, x).tail = q.tail
         /\ Add(q, x).not_full = q.not_full /\ Add(q, x).not_empty = NULL
         /\ Add(q, x).value = q.value /\ Add(q, x).waiters = q.waiters
<1>1. next(q.head) \in Slot
  BY NextSlot DEF QueueRecord
<1> QED BY <1>1, ZenonT(30) DEF Add, QueueRecord

\* How many bytes are between tail and head, and where the i-th one is.
Size(h, l) == (h - l) % INTQ_BUFSIZE
Pos(l, i)  == (l + i - 1) % INTQ_BUFSIZE

LEMMA SizeOf ==
  ASSUME NEW h \in Slot, NEW l \in Slot
  PROVE  /\ Size(h, l) = IF l <= h THEN h - l ELSE h - l + INTQ_BUFSIZE
         /\ Size(h, l) \in 0 .. INTQ_BUFSIZE - 1
<1>0. h \in Int /\ l \in Int /\ 0 <= h /\ 0 <= l /\ h < INTQ_BUFSIZE /\ l < INTQ_BUFSIZE
  BY IntqAssumption DEF Slot
<1>1. CASE l <= h
  <2>1. 0 <= h - l /\ h - l < INTQ_BUFSIZE
    BY <1>0, <1>1, IntqAssumption
  <2> QED BY <1>0, <1>1, <2>1, IntqAssumption DEF Size
<1>2. CASE ~(l <= h)
  <2>1. -INTQ_BUFSIZE <= h - l /\ h - l < 0
    BY <1>0, <1>2, IntqAssumption
  <2>2. (h - l) % INTQ_BUFSIZE = h - l + INTQ_BUFSIZE
    BY <1>0, <2>1, IntqAssumption
  <2> QED BY <1>0, <1>2, <2>1, <2>2, IntqAssumption DEF Size
<1> QED BY <1>1, <1>2

LEMMA PosOf ==
  ASSUME NEW l \in Slot, NEW i \in 1 .. INTQ_BUFSIZE
  PROVE  /\ Pos(l, i) = IF l + i - 1 < INTQ_BUFSIZE THEN l + i - 1 ELSE l + i - 1 - INTQ_BUFSIZE
         /\ Pos(l, i) \in Slot
<1>0. l \in Int /\ i \in Int /\ 0 <= l /\ l < INTQ_BUFSIZE /\ 1 <= i /\ i <= INTQ_BUFSIZE
  BY IntqAssumption DEF Slot
<1>1. CASE l + i - 1 < INTQ_BUFSIZE
  BY <1>0, <1>1, IntqAssumption DEF Pos, Slot
<1>2. CASE ~(l + i - 1 < INTQ_BUFSIZE)
  <2>1. INTQ_BUFSIZE <= l + i - 1 /\ l + i - 1 < 2 * INTQ_BUFSIZE
    BY <1>0, <1>2, IntqAssumption
  <2>2. (l + i - 1) % INTQ_BUFSIZE = l + i - 1 - INTQ_BUFSIZE
    BY <1>0, <2>1, IntqAssumption
  <2> QED BY <1>0, <1>2, <2>1, <2>2, IntqAssumption DEF Pos, Slot
<1> QED BY <1>1, <1>2

(* Emptiness, fullness and what moving an end does to the size.            *)
LEMMA Ends ==
  ASSUME NEW h \in Slot, NEW l \in Slot
  PROVE  /\ h = l <=> Size(h, l) = 0
         /\ next(h) = l <=> Size(h, l) = INTQ_BUFSIZE - 1
         /\ next(h) # l => Size(next(h), l) = Size(h, l) + 1
         /\ h # l => Size(h, next(l)) = Size(h, l) - 1
         /\ next(h) = l => Size(next(h), next(l)) = INTQ_BUFSIZE - 1
         /\ Pos(l, 1) = l /\ Pos(l, Size(h, l) + 1) = h
         /\ \A i \in 1 .. Size(h, l) : Pos(l, i) \in Slot /\ Pos(l, i) # h
         /\ \A i \in 1 .. INTQ_BUFSIZE - 1 : Pos(next(l), i) = Pos(l, i + 1)
<1>0. INTQ_BUFSIZE \in Int /\ INTQ_BUFSIZE > 1 /\ h \in Int /\ l \in Int
      /\ 0 <= h /\ 0 <= l /\ h < INTQ_BUFSIZE /\ l < INTQ_BUFSIZE
  BY IntqAssumption DEF Slot
<1>1. /\ next(h) = (IF h + 1 = INTQ_BUFSIZE THEN 0 ELSE h + 1) /\ next(h) \in Slot
      /\ next(l) = (IF l + 1 = INTQ_BUFSIZE THEN 0 ELSE l + 1) /\ next(l) \in Slot
  BY NextSlot
<1>2. /\ Size(h, l) = IF l <= h THEN h - l ELSE h - l + INTQ_BUFSIZE
      /\ Size(next(h), l) = IF l <= next(h) THEN next(h) - l ELSE next(h) - l + INTQ_BUFSIZE
      /\ Size(h, next(l)) = IF next(l) <= h THEN h - next(l) ELSE h - next(l) + INTQ_BUFSIZE
      /\ Size(next(h), next(l)) = IF next(l) <= next(h) THEN next(h) - next(l)
                                                        ELSE next(h) - next(l) + INTQ_BUFSIZE
  BY <1>1, SizeOf
<1>3. /\ h = l <=> Size(h, l) = 0
      /\ next(h) = l <=> Size(h, l) = INTQ_BUFSIZE - 1
  BY <1>0, <1>1, <1>2
<1>4. /\ next(h) # l => Size(next(h), l) = Size(h, l) + 1
      /\ h # l => Size(h, next(l)) = Size(h, l) - 1
      /\ next(h) = l => Size(next(h), next(l)) = INTQ_BUFSIZE - 1
  BY <1>0, <1>1, <1>2
<1>5. Size(h, l) \in 0 .. INTQ_BUFSIZE - 1
  BY SizeOf
<1>6. Pos(l, 1) = l /\ Pos(l, Size(h, l) + 1) = h
  <2>1. 1 \in 1 .. INTQ_BUFSIZE /\ Size(h, l) + 1 \in 1 .. INTQ_BUFSIZE
    BY <1>0, <1>5
  <2>2. Pos(l, 1) = IF l + 1 - 1 < INTQ_BUFSIZE THEN l + 1 - 1 ELSE l + 1 - 1 - INTQ_BUFSIZE
    BY <2>1, PosOf
  <2>3. PICK k : k = Size(h, l) + 1
    OBVIOUS
  <2>4. Pos(l, k) = IF l + k - 1 < INTQ_BUFSIZE THEN l + k - 1 ELSE l + k - 1 - INTQ_BUFSIZE
    BY <2>1, <2>3, PosOf
  <2> QED BY <1>0, <1>2, <2>2, <2>3, <2>4
<1>7. ASSUME NEW i \in 1 .. Size(h, l) PROVE Pos(l, i) \in Slot /\ Pos(l, i) # h
  <2>1. i \in 1 .. INTQ_BUFSIZE
    BY <1>0, <1>5
  <2>2. /\ Pos(l, i) = IF l + i - 1 < INTQ_BUFSIZE THEN l + i - 1 ELSE l + i - 1 - INTQ_BUFSIZE
        /\ Pos(l, i) \in Slot
    BY <2>1, PosOf
  <2> QED BY <1>0, <1>2, <1>5, <2>2
<1>8. ASSUME NEW i \in 1 .. INTQ_BUFSIZE - 1 PROVE Pos(next(l), i) = Pos(l, i + 1)
  <2>1. i \in 1 .. INTQ_BUFSIZE /\ i + 1 \in 1 .. INTQ_BUFSIZE
    BY <1>0
  <2>2. PICK k, m : k = i + 1 /\ m = next(l)
    OBVIOUS
  <2>3. /\ Pos(l, k) = IF l + k - 1 < INTQ_BUFSIZE THEN l + k - 1 ELSE l + k - 1 - INTQ_BUFSIZE
        /\ Pos(m, i) = IF m + i - 1 < INTQ_BUFSIZE THEN m + i - 1 ELSE m + i - 1 - INTQ_BUFSIZE
    BY <1>1, <2>1, <2>2, PosOf
  <2> QED BY <1>0, <1>1, <2>1, <2>2, <2>3
<1> QED BY <1>3, <1>4, <1>6, <1>7, <1>8

LEMMA ContentsOf ==
  ASSUME NEW n \in QueueName, NEW q \in QueueRecord(n)
  PROVE  /\ Contents(q) \in Seq(Byte) /\ Len(Contents(q)) = Size(q.head, q.tail)
         /\ \A i \in 1 .. Size(q.head, q.tail) : Contents(q)[i] = q.buf[Pos(q.tail, i)]
         /\ q.head \in Slot /\ q.tail \in Slot /\ q.buf \in [Slot -> Byte]
         /\ Size(q.head, q.tail) \in 0 .. INTQ_BUFSIZE - 1
<1>1. q.head \in Slot /\ q.tail \in Slot /\ q.buf \in [Slot -> Byte]
  BY DEF QueueRecord
<1>2. PICK k : k = Size(q.head, q.tail)
  OBVIOUS
<1>3. k \in 0 .. INTQ_BUFSIZE - 1
  BY <1>1, <1>2, SizeOf
<1>4. Contents(q) = [i \in 1 .. k |-> q.buf[Pos(q.tail, i)]]
  BY <1>2 DEF Contents, Size, Pos
<1>5. \A i \in 1 .. k : Pos(q.tail, i) \in Slot
  BY <1>1, <1>2, Ends
<1>6. \A i \in 1 .. k : q.buf[Pos(q.tail, i)] \in Byte
  BY <1>1, <1>5
<1>7. k \in Nat
  BY <1>3
<1>8. Contents(q) \in Seq(Byte) /\ Len(Contents(q)) = k
  BY <1>4, <1>6, <1>7
<1> QED BY <1>1, <1>2, <1>3, <1>4, <1>8

LEMMA SameSequence ==
  ASSUME NEW s \in Seq(Byte), NEW u \in Seq(Byte), Len(s) = Len(u), \A i \in 1 .. Len(s) : s[i] = u[i]
  PROVE  s = u
OBVIOUS

(* intq_putc() appends.                                                    *)
LEMMA PutContents ==
  ASSUME NEW n \in QueueName, NEW q \in QueueRecord(n), NEW r \in QueueRecord(n), NEW x \in Byte,
         ~intq_full(q), r.head = next(q.head), r.tail = q.tail,
         \A i \in Slot : r.buf[i] = IF i = q.head THEN x ELSE q.buf[i]
  PROVE  Len(Contents(q)) < INTQ_BUFSIZE - 1 /\ Contents(r) = Append(Contents(q), x)
<1>1. PICK c, d, k, h, l : /\ c = Contents(q) /\ d = Contents(r) /\ k = Size(q.head, q.tail)
                           /\ h = q.head /\ l = q.tail
  OBVIOUS
<1>2. /\ c \in Seq(Byte) /\ Len(c) = k /\ \A i \in 1 .. k : c[i] = q.buf[Pos(l, i)]
      /\ h \in Slot /\ l \in Slot /\ k \in 0 .. INTQ_BUFSIZE - 1
  BY <1>1, ContentsOf
<1>3. /\ d \in Seq(Byte) /\ Len(d) = Size(r.head, r.tail)
      /\ \A i \in 1 .. Size(r.head, r.tail) : d[i] = r.buf[Pos(l, i)]
  BY <1>1, ContentsOf
<1>4. next(h) # l
  BY <1>1 DEF intq_full
<1>5. /\ Size(next(h), l) = k + 1 /\ k # INTQ_BUFSIZE - 1 /\ Pos(l, k + 1) = h
      /\ \A i \in 1 .. k : Pos(l, i) \in Slot /\ Pos(l, i) # h
  BY <1>1, <1>2, <1>4, Ends
<1>6. k < INTQ_BUFSIZE - 1 /\ Len(d) = k + 1 /\ \A i \in 1 .. k + 1 : d[i] = r.buf[Pos(l, i)]
  BY <1>1, <1>2, <1>3, <1>5, IntqAssumption
<1>7. Append(c, x) \in Seq(Byte) /\ Len(Append(c, x)) = k + 1
      /\ \A i \in 1 .. k + 1 : Append(c, x)[i] = IF i <= k THEN c[i] ELSE x
  BY <1>2
<1>8. ASSUME NEW i \in 1 .. k + 1 PROVE d[i] = Append(c, x)[i]
  <2>1. CASE i \in 1 .. k
    <3>1. d[i] = q.buf[Pos(l, i)] /\ c[i] = q.buf[Pos(l, i)]
      BY <1>1, <1>2, <1>5, <1>6, <2>1
    <3>2. i <= k
      BY <1>2, <2>1
    <3> QED BY <1>7, <3>1, <3>2
  <2>2. CASE i = k + 1
    <3>1. d[i] = x
      BY <1>1, <1>2, <1>5, <1>6, <2>2
    <3>2. ~(i <= k)
      BY <1>2, <2>2
    <3> QED BY <1>7, <3>1, <3>2
  <2> QED BY <1>2, <2>1, <2>2
<1>9. d = Append(c, x)
  BY <1>3, <1>6, <1>7, <1>8, SameSequence
<1> QED BY <1>1, <1>2, <1>6, <1>9

(* intq_getc() removes the oldest byte.                                    *)
LEMMA GetContents ==
  ASSUME NEW n \in QueueName, NEW q \in QueueRecord(n), NEW r \in QueueRecord(n),
         ~intq_empty(q), r.head = q.head, r.tail = next(q.tail), r.buf = q.buf
  PROVE  /\ Contents(q) # <<>> /\ q.buf[q.tail] = Head(Contents(q))
         /\ Contents(r) = Tail(Contents(q))
<1>1. PICK c, d, k, h, l : /\ c = Contents(q) /\ d = Contents(r) /\ k = Size(q.head, q.tail)
                           /\ h = q.head /\ l = q.tail
  OBVIOUS
<1>2. /\ c \in Seq(Byte) /\ Len(c) = k /\ \A i \in 1 .. k : c[i] = q.buf[Pos(l, i)]
      /\ h \in Slot /\ l \in Slot /\ k \in 0 .. INTQ_BUFSIZE - 1
  BY <1>1, ContentsOf
<1>3. /\ d \in Seq(Byte) /\ Len(d) = Size(h, next(l))
      /\ \A i \in 1 .. Size(h, next(l)) : d[i] = q.buf[Pos(next(l), i)]
  BY <1>1, ContentsOf
<1>4. h # l
  BY <1>1 DEF intq_empty
<1>5. /\ Size(h, next(l)) = k - 1 /\ k # 0 /\ Pos(l, 1) = l
      /\ \A i \in 1 .. INTQ_BUFSIZE - 1 : Pos(next(l), i) = Pos(l, i + 1)
  BY <1>1, <1>2, <1>4, Ends
<1>6. 1 \in 1 .. k /\ c # <<>>
  BY <1>2, <1>5
<1>7. /\ Head(c) = c[1] /\ Tail(c) \in Seq(Byte) /\ Len(Tail(c)) = k - 1
      /\ \A i \in 1 .. k - 1 : Tail(c)[i] = c[i + 1]
  BY <1>2, <1>6, EmptyOrNot
<1>8. ASSUME NEW i \in 1 .. k - 1 PROVE d[i] = Tail(c)[i]
  <2>1. i + 1 \in 1 .. k /\ i \in 1 .. INTQ_BUFSIZE - 1
    BY <1>2, IntqAssumption
  <2>2. d[i] = q.buf[Pos(next(l), i)] /\ Pos(next(l), i) = Pos(l, i + 1)
    BY <1>3, <1>5, <2>1
  <2>3. c[i + 1] = q.buf[Pos(l, i + 1)]
    BY <1>2, <2>1
  <2> QED BY <1>7, <2>2, <2>3
<1>9. d = Tail(c)
  BY <1>3, <1>5, <1>7, <1>8, SameSequence
<1>10. q.buf[q.tail] = Head(c)
  BY <1>1, <1>2, <1>5, <1>6, <1>7
<1> QED BY <1>1, <1>6, <1>9, <1>10

(* serial_putc() of a full queue: the oldest byte goes, a new one comes.   *)
LEMMA ExchangeContents ==
  ASSUME NEW n \in QueueName, NEW q \in QueueRecord(n), NEW r \in QueueRecord(n), NEW x \in Byte,
         intq_full(q), r.head = next(q.head), r.tail = next(q.tail),
         \A i \in Slot : r.buf[i] = IF i = q.head THEN x ELSE q.buf[i]
  PROVE  /\ Len(Contents(q)) = INTQ_BUFSIZE - 1 /\ q.buf[q.tail] = Head(Contents(q))
         /\ Contents(r) = Append(Tail(Contents(q)), x)
<1>1. PICK s \in QueueRecord(n) : s = Take(q)
  BY TakeType
<1>2. s.buf = q.buf /\ s.head = q.head /\ s.tail = next(q.tail)
  BY <1>1, TakeType
<1>3. q.head \in Slot /\ q.tail \in Slot /\ Len(Contents(q)) = Size(q.head, q.tail)
  BY ContentsOf
<1>4. Size(q.head, q.tail) = INTQ_BUFSIZE - 1 /\ q.head # q.tail
  <2>1. next(q.head) = q.tail
    BY DEF intq_full
  <2> QED BY <1>3, <2>1, Ends, IntqAssumption
<1>5. q.buf[q.tail] = Head(Contents(q)) /\ Contents(s) = Tail(Contents(q))
  BY <1>2, <1>4, GetContents DEF intq_empty
<1>6. ~intq_full(s)
  <2>1. next(q.head) = q.tail /\ next(q.tail) # q.tail
    BY <1>3, NextSlot, IntqAssumption, SMTT(30) DEF intq_full, Slot
  <2> QED BY <1>2, <2>1 DEF intq_full
<1>7. \A i \in Slot : r.buf[i] = IF i = s.head THEN x ELSE s.buf[i]
  BY <1>2
<1>8. Contents(r) = Append(Contents(s), x)
  BY <1>2, <1>6, <1>7, PutContents
<1> QED BY <1>3, <1>4, <1>5, <1>8

LEMMA EmptyContents ==
  ASSUME NEW n \in QueueName, NEW q \in QueueRecord(n)
  PROVE  intq_empty(q) <=> Contents(q) = <<>>
<1>1. /\ Contents(q) \in Seq(Byte) /\ Len(Contents(q)) = Size(q.head, q.tail)
      /\ q.head \in Slot /\ q.tail \in Slot
  BY ContentsOf
<1>2. q.head = q.tail <=> Size(q.head, q.tail) = 0
  BY <1>1, Ends
<1> QED BY <1>1, <1>2 DEF intq_empty

-----------------------------------------------------------------------------
(* Whom a queue names.                                                     *)

LEMMA UsersSplit ==
  /\ Users("buffer") = Reader /\ Users("txq") = Writer
  /\ \A t \in Caller : QueueOf(t) \in QueueName /\ t \in Users(QueueOf(t)) /\ t # NULL
  /\ \A n \in QueueName : NULL \notin Users(n) /\ Users(n) \subseteq Caller
BY SerialAssumption DEF Users, Caller, QueueOf, QueueName

(* The threads and NULLs a queue names, in order.                          *)
LEMMA SleepersOf ==
  ASSUME NEW n \in QueueName, NEW q \in QueueRecord(n)
  PROVE  /\ Len(q.waiters) \in Nat /\ DOMAIN Sleepers(q) = 1 .. 2 + Len(q.waiters)
         /\ Sleepers(q)[1] = q.not_full /\ Sleepers(q)[2] = q.not_empty
         /\ \A i \in 1 .. Len(q.waiters) : Sleepers(q)[i + 2] = q.waiters[i]
<1> DEFINE S == Users(n) \cup {NULL}
           s == <<q.not_full, q.not_empty>>
           w == q.waiters
<1>1. s \in Seq(S) /\ w \in Seq(S) /\ Len(s) = 2 /\ s[1] = q.not_full /\ s[2] = q.not_empty
  BY DEF QueueRecord
<1> HIDE DEF s, S, w
<1>2. s \in Seq(S) /\ w \in Seq(S)
  BY <1>1
<1>3. /\ s \o w \in Seq(S) /\ Len(s \o w) = Len(s) + Len(w)
      /\ \A i \in 1 .. Len(s) + Len(w) : (s \o w)[i] = IF i <= Len(s) THEN s[i] ELSE w[i - Len(s)]
  BY <1>2
<1>4. Len(w) \in Nat
  BY <1>2
<1>5. /\ Len(s \o w) = 2 + Len(w) /\ s \o w \in Seq(S)
      /\ \A i \in 1 .. 2 + Len(w) : (s \o w)[i] = IF i <= 2 THEN s[i] ELSE w[i - 2]
  BY <1>1, <1>3, <1>4
<1>6. DOMAIN (s \o w) = 1 .. 2 + Len(w)
  BY <1>5
<1>7. (s \o w)[1] = s[1] /\ (s \o w)[2] = s[2]
  BY <1>4, <1>5
<1>8. ASSUME NEW i \in 1 .. Len(w) PROVE (s \o w)[i + 2] = w[i]
  <2>1. i + 2 \in 1 .. 2 + Len(w) /\ ~(i + 2 <= 2) /\ (i + 2) - 2 = i
    BY <1>4
  <2> QED BY <1>5, <2>1
<1>9. Sleepers(q) = s \o w
  BY DEF Sleepers, s, w
<1> QED BY <1>1, <1>4, <1>6, <1>7, <1>8, <1>9 DEF w

(* Threads a queue names.                                                  *)
LEMMA NamesOf ==
  ASSUME NEW n \in QueueName, NEW q \in QueueRecord(n)
  PROVE  \A t : t \in Names(q) <=> t # NULL /\ (t = q.not_full \/ t = q.not_empty \/ In(t, q.waiters))
<1>1. PICK s, w : s = Sleepers(q) /\ w = q.waiters
  OBVIOUS
<1>2. /\ Len(w) \in Nat /\ DOMAIN s = 1 .. 2 + Len(w) /\ s[1] = q.not_full /\ s[2] = q.not_empty
      /\ \A i \in 1 .. Len(w) : s[i + 2] = w[i]
  BY <1>1, SleepersOf
<1>3. ASSUME NEW t PROVE (\E i \in DOMAIN s : s[i] = t) <=> (t = s[1] \/ t = s[2] \/ In(t, w))
  <2>1. ASSUME NEW i \in DOMAIN s, s[i] = t PROVE t = s[1] \/ t = s[2] \/ In(t, w)
    <3>1. i = 1 \/ i = 2 \/ (i - 2 \in 1 .. Len(w) /\ (i - 2) + 2 = i)
      BY <1>2
    <3>2. CASE i - 2 \in 1 .. Len(w) /\ (i - 2) + 2 = i
      <4>1. w[i - 2] = t
        BY <1>2, <2>1, <3>2
      <4> QED BY <3>2, <4>1 DEF In
    <3> QED BY <2>1, <3>1, <3>2
  <2>2. 1 \in DOMAIN s /\ 2 \in DOMAIN s
    BY <1>2
  <2>3. ASSUME NEW i \in 1 .. Len(w), w[i] = t PROVE \E k \in DOMAIN s : s[k] = t
    <3>1. i + 2 \in DOMAIN s /\ s[i + 2] = t
      BY <1>2, <2>3
    <3> QED BY <3>1
  <2> QED BY <2>1, <2>2, <2>3 DEF In
<1>4. \A t : t \in Names(q) <=> t # NULL /\ (\E i \in DOMAIN s : s[i] = t)
  BY <1>1 DEF Names
<1> QED BY <1>1, <1>2, <1>3, <1>4

(* Good(n) is about the threads that use queue n only.                     *)
LEMMA GoodElsewhere ==
  ASSUME NEW n \in QueueName, NEW q, NEW p, NEW b, Good(n, q, p, b), NEW r, NEW c,
         \A t \in Users(n) : r[t] = p[t] /\ (t \in c <=> t \in b)
  PROVE  Good(n, q, r, c)
BY DEF Good
-----------------------------------------------------------------------------
(* What intq.c does to a queue.                                            *)

LEMMA ReleaseType ==
  ASSUME NEW n \in QueueName, NEW q \in QueueRecord(n)
  PROVE  /\ Release(q) \in QueueRecord(n)
         /\ Release(q).buf = q.buf /\ Release(q).head = q.head /\ Release(q).tail = q.tail
         /\ Release(q).not_full = q.not_full /\ Release(q).not_empty = q.not_empty
         /\ Release(q).value = q.value + 1
         /\ Release(q).waiters = IF q.waiters = <<>> THEN <<>> ELSE Tail(q.waiters)
<1> DEFINE w == IF q.waiters = <<>> THEN q.waiters ELSE Tail(q.waiters)
<1>1. w \in Seq(Users(n)) /\ w = IF q.waiters = <<>> THEN <<>> ELSE Tail(q.waiters)
  BY EmptyOrNot DEF QueueRecord
<1>2. Release(q) = [q EXCEPT !.value = q.value + 1, !.waiters = w]
  BY DEF Release, QueueRecord
<1> HIDE DEF w
<1>3. q.value + 1 \in Nat
  BY DEF QueueRecord
<1>4. [q EXCEPT !.value = q.value + 1, !.waiters = w] \in QueueRecord(n)
  BY <1>1, <1>3, ZenonT(30) DEF QueueRecord
<1>5. /\ Release(q).buf = q.buf /\ Release(q).head = q.head /\ Release(q).tail = q.tail
      /\ Release(q).not_full = q.not_full /\ Release(q).not_empty = q.not_empty
      /\ Release(q).value = q.value + 1 /\ Release(q).waiters = w
  BY <1>2 DEF QueueRecord
<1> QED BY <1>1, <1>2, <1>4, <1>5

(* signal(): the thread in wait(), if any, is unblocked.                   *)
LEMMA SignalGood ==
  ASSUME NEW n \in QueueName, NEW q \in QueueRecord(n), NEW p, NEW b, Good(n, q, p, b),
         NEW r \in QueueRecord(n), r.waiters = q.waiters, r.value = q.value,
         Waiter(n, r) = NULL, Unused(n, r) = NULL
  PROVE  /\ Good(n, r, p, b \ Unblocked(q, r))
         /\ Names(r) \subseteq Names(q) /\ Unblocked(q, r) \subseteq Users(n)
<1>1. \A t : t \in Names(r) <=> t # NULL /\ In(t, q.waiters)
  BY NamesOf DEF Waiter, Unused
<1>2. \A t : t \in Names(q) <=> t # NULL /\ (t = Waiter(n, q) \/ In(t, q.waiters))
  BY NamesOf DEF Waiter, Unused, Good
<1>3. Waiter(n, q) \in Users(n) \cup {NULL} /\ NULL \notin Users(n)
  BY UsersSplit DEF Waiter, QueueRecord
<1>4. \A t : t \in Unblocked(q, r) <=> t # NULL /\ t = Waiter(n, q)
  <2>1. Waiter(n, q) # NULL => ~In(Waiter(n, q), q.waiters)
    BY <1>3 DEF Good
  <2> QED BY <1>1, <1>2, <2>1 DEF Unblocked
<1>5. Names(r) \subseteq Names(q) /\ Unblocked(q, r) \subseteq Users(n)
  BY <1>1, <1>2, <1>3, <1>4
<1>6. \A t \in Users(n) : t \in b \ Unblocked(q, r) <=> t \in b /\ p[t] # "wait"
  BY <1>3, <1>4 DEF Good
<1>7. \A t \in Users(n) : Waiter(n, r) # t
  BY <1>3
<1> HIDE DEF Unblocked, Waiter, Unused, Stuck
<1> QED BY <1>5, <1>6, <1>7 DEF Good

(* lock_release() by the thread in wait(), which goes on.                  *)
LEMMA ReleaseGood ==
  ASSUME NEW n \in QueueName, NEW q \in QueueRecord(n), NEW p \in [Caller -> {"own", "lock", "wait"}],
         NEW b, Good(n, q, p, b), NEW t \in Users(n), p[t] = "wait", t \notin b,
         NEW o, o[t] = "own", \A u \in Users(n) : u # t => o[u] = p[u],
         NEW r, r = Release(q), NEW c, c = b \ Unblocked(q, r)
  PROVE  /\ Good(n, r, o, c) /\ r.value = 1
         /\ Names(r) \subseteq Names(q) /\ Unblocked(q, r) \subseteq Users(n)
<1> DEFINE w == q.waiters
           v == r.waiters
           gone == Unblocked(q, r)
<1>1. /\ r \in QueueRecord(n) /\ r.not_full = q.not_full /\ r.not_empty = q.not_empty
      /\ r.head = q.head /\ r.tail = q.tail /\ r.value = q.value + 1
      /\ v = IF w = <<>> THEN <<>> ELSE Tail(w)
  BY ReleaseType
<1>2. q.value = 0 /\ r.value = 1
  BY <1>1 DEF Good
<1>3. Waiter(n, q) = NULL
  <2>1. Waiter(n, q) \in Users(n) \cup {NULL}
    BY DEF Waiter, QueueRecord
  <2> QED BY <2>1 DEF Good
<1>4. /\ Waiter(n, r) = NULL /\ Unused(n, r) = NULL /\ Unused(n, q) = NULL
  BY <1>1, <1>3 DEF Waiter, Unused, Good
<1>5. \A u : (u \in Names(q) <=> u # NULL /\ In(u, w)) /\ (u \in Names(r) <=> u # NULL /\ In(u, v))
  <2>1. \A u : u \in Names(q) <=> u # NULL /\ In(u, w)
    BY <1>3, <1>4, NamesOf DEF Waiter, Unused
  <2>2. \A u : u \in Names(r) <=> u # NULL /\ In(u, v)
    BY <1>1, <1>4, NamesOf DEF Waiter, Unused
  <2> QED BY <2>1, <2>2
<1>6. t \in Caller /\ NULL \notin Users(n) /\ Users(n) \subseteq Caller
  BY UsersSplit
<1>7. \A u \in Users(n) : o[u] = IF u = t THEN "own" ELSE p[u]
  OBVIOUS
<1>8. \A u \in Users(n) : o[u] # "wait"
  BY <1>7 DEF Good
<1>9. CASE w = <<>>
  <2>1. v = <<>> /\ \A u : ~In(u, v) /\ ~In(u, w)
    BY <1>1, <1>9 DEF In
  <2>2. gone = {}
    BY <1>5, <2>1 DEF Unblocked
  <2>3. \A u \in Users(n) : u \in b \ gone <=> u \in b
    BY <2>2
  <2>4. \A u \in Users(n) : Waiter(n, r) # u
    BY <1>4, <1>6
  <2> HIDE DEF gone, v, w
  <2>5. \A i, j \in 1 .. Len(v) : v[i] = v[j] => i = j
    BY <2>1
  <2>6. Good(n, r, o, b \ gone)
    BY <1>2, <1>4, <1>7, <1>8, <2>1, <2>3, <2>4, <2>5 DEF Good, v, w
  <2> QED BY <1>2, <1>5, <2>1, <2>2, <2>6 DEF gone
<1>10. CASE w # <<>>
  <2>1. w \in Seq(Users(n))
    BY DEF QueueRecord
  <2>2. /\ Len(w) \in Nat \ {0} /\ v \in Seq(Users(n)) /\ Len(v) = Len(w) - 1 /\ w[1] \in Users(n)
        /\ \A i \in 1 .. Len(w) - 1 : v[i] = w[i + 1]
    BY <1>1, <1>10, <2>1, EmptyOrNot
  <2>3. \A i, j \in 1 .. Len(w) : w[i] = w[j] => i = j
    BY DEF Good
  <2> DEFINE h == w[1]
  <2> HIDE DEF gone, v, w, h
  <2>4. \A u : In(u, v) <=> In(u, w) /\ u # h
    <3> TAKE u
    <3>1. ASSUME NEW i \in 1 .. Len(v), v[i] = u PROVE In(u, w) /\ u # h
      <4>1. i + 1 \in 1 .. Len(w) /\ 1 \in 1 .. Len(w) /\ i + 1 # 1 /\ w[i + 1] = u
        BY <2>2, <3>1
      <4> QED BY <2>3, <4>1 DEF In, h
    <3>2. ASSUME NEW i \in 1 .. Len(w), w[i] = u, u # h PROVE In(u, v)
      <4>1. i # 1
        BY <3>2 DEF h
      <4>2. i - 1 \in 1 .. Len(v) /\ i - 1 \in 1 .. Len(w) - 1 /\ (i - 1) + 1 = i
        BY <2>2, <4>1
      <4>3. v[i - 1] = u
        BY <2>2, <3>2, <4>2
      <4> QED BY <4>2, <4>3 DEF In
    <3> QED BY <3>1, <3>2 DEF In
  <2>5. h \in Users(n) /\ In(h, w)
    BY <2>2 DEF h, In
  <2>6. gone = {h}
    <3>1. \A u : u \in gone <=> u \in Names(q) /\ u \notin Names(r)
      BY DEF gone, Unblocked
    <3> QED BY <1>5, <1>6, <2>4, <2>5, <3>1
  <2>7. p[h] = "lock" /\ h \in b /\ h # t
    BY <2>5 DEF Good, w
  <2>8. \A i, j \in 1 .. Len(v) : v[i] = v[j] => i = j
    <3>1. \A i \in 1 .. Len(v) : i \in 1 .. Len(w) - 1 /\ i + 1 \in 1 .. Len(w) /\ i \in Int
      BY <2>2
    <3>2. \A i, j \in 1 .. Len(v) : v[i] = v[j] => i + 1 = j + 1
      BY <2>2, <2>3, <3>1
    <3> QED BY <3>1, <3>2
  <2>9. \A u \in Users(n) : Waiter(n, r) # u
    BY <1>4, <1>6
  <2>10. \A u \in Users(n) : /\ In(u, v) <=> o[u] = "lock" /\ u \in b \ gone
                             /\ u \in b \ gone => o[u] # "own"
    <3>1. \A u \in Users(n) : (In(u, w) <=> p[u] = "lock" /\ u \in b) /\ (u \in b => p[u] # "own")
      BY DEF Good, w
    <3> QED BY <1>7, <2>4, <2>6, <3>1, ZenonT(30)
  <2>11. o[h] = "lock" /\ h \notin b \ gone
    BY <1>7, <2>5, <2>6, <2>7, ZenonT(30)
  <2>12. Good(n, r, o, b \ gone)
    BY <1>2, <1>4, <1>8, <2>5, <2>8, <2>9, <2>10, <2>11 DEF Good, v
  <2>13. Names(r) \subseteq Names(q) /\ gone \subseteq Users(n)
    BY <1>5, <2>4, <2>5, <2>6, ZenonT(30)
  <2> QED BY <1>2, <2>12, <2>13 DEF gone
<1> QED BY <1>9, <1>10

(* lock_acquire() when the lock is taken.                                  *)
LEMMA LockGood ==
  ASSUME NEW n \in QueueName, NEW q \in QueueRecord(n), NEW p \in [Caller -> {"own", "lock", "wait"}],
         NEW b, Good(n, q, p, b), NEW t \in Users(n), p[t] # "wait", t \notin b, q.value = 0,
         NEW r \in QueueRecord(n), r.waiters = Append(q.waiters, t), r.value = q.value,
         r.head = q.head, r.tail = q.tail, r.not_full = q.not_full, r.not_empty = q.not_empty,
         NEW o, \A u \in Users(n) : o[u] = IF u = t THEN "lock" ELSE p[u]
  PROVE  Good(n, r, o, b \cup {t})
<1> DEFINE w == q.waiters
           v == r.waiters
<1>1. w \in Seq(Users(n)) /\ v \in Seq(Users(n)) /\ v = Append(w, t)
  BY SMTT(30) DEF QueueRecord
<1>3. /\ Len(v) = Len(w) + 1 /\ Len(w) \in Nat /\ v[Len(w) + 1] = t
      /\ \A i \in 1 .. Len(w) : v[i] = w[i]
  BY <1>1
<1>4. ~In(t, w)
  BY DEF Good
<1> HIDE DEF v, w
<1>5. \A u : In(u, v) <=> In(u, w) \/ u = t
  <2>1. \A i \in 1 .. Len(v) : i \in 1 .. Len(w) \/ i = Len(w) + 1
    BY <1>3
  <2>2. Len(w) + 1 \in 1 .. Len(v) /\ \A i \in 1 .. Len(w) : i \in 1 .. Len(v)
    BY <1>3
  <2> QED BY <1>3, <2>1, <2>2 DEF In
<1>6. \A i, j \in 1 .. Len(v) : v[i] = v[j] => i = j
  <2>1. \A i \in 1 .. Len(v) : i \in 1 .. Len(w) \/ i = Len(w) + 1
    BY <1>3
  <2>2. \A i, j \in 1 .. Len(w) : w[i] = w[j] => i = j
    BY DEF Good, w
  <2>3. \A i \in 1 .. Len(w) : w[i] # t
    BY <1>4 DEF In
  <2> QED BY <1>3, <2>1, <2>2, <2>3
<1>8. /\ Waiter(n, r) = Waiter(n, q) /\ Unused(n, r) = Unused(n, q)
      /\ Stuck(n, r) <=> Stuck(n, q)
  BY DEF Waiter, Unused, Stuck, intq_empty, intq_full
<1>9. ASSUME NEW u \in Users(n)
      PROVE  /\ In(u, v) <=> o[u] = "lock" /\ u \in b \cup {t}
             /\ Waiter(n, r) = u <=> o[u] = "wait" /\ u \in b \cup {t}
             /\ u \in b \cup {t} => o[u] # "own"
             /\ o[u] = "wait" <=> p[u] = "wait"
  <2>1. /\ In(u, w) <=> p[u] = "lock" /\ u \in b
        /\ Waiter(n, q) = u <=> p[u] = "wait" /\ u \in b
        /\ u \in b => p[u] # "own"
    BY ZenonT(30) DEF Good, w
  <2> QED BY <1>5, <1>8, <2>1, ZenonT(30)
<1> QED BY <1>6, <1>8, <1>9 DEF Good, v

(* wait(): the thread keeps the queue's lock and sleeps.                   *)
LEMMA WaitGood ==
  ASSUME NEW n \in QueueName, NEW q \in QueueRecord(n), NEW p \in [Caller -> {"own", "lock", "wait"}],
         NEW b, Good(n, q, p, b), NEW t \in Users(n), p[t] # "wait", t \notin b, q.value > 0, Stuck(n, q),
         NEW r \in QueueRecord(n), r.waiters = q.waiters, r.value = q.value - 1,
         r.head = q.head, r.tail = q.tail, Waiter(n, r) = t, Unused(n, r) = Unused(n, q),
         NEW o, \A u \in Users(n) : o[u] = IF u = t THEN "wait" ELSE p[u]
  PROVE  Good(n, r, o, b \cup {t})
<1>1. q.value = 1 /\ \A u \in Users(n) : p[u] # "wait"
  <2>1. q.value # 0
    BY DEF QueueRecord
  <2> QED BY <2>1 DEF Good
<1>2. r.value = 0 /\ Unused(n, r) = NULL
  BY <1>1 DEF Good
<1>4. Stuck(n, r)
  BY DEF Stuck, intq_empty, intq_full
<1>5. ASSUME NEW u \in Users(n)
      PROVE  /\ In(u, r.waiters) <=> o[u] = "lock" /\ u \in b \cup {t}
             /\ Waiter(n, r) = u <=> o[u] = "wait" /\ u \in b \cup {t}
             /\ u \in b \cup {t} => o[u] # "own"
             /\ o[u] = "wait" <=> u = t
  <2>1. /\ In(u, q.waiters) <=> p[u] = "lock" /\ u \in b
        /\ u \in b => p[u] # "own"
    BY DEF Good
  <2> QED BY <1>1, <2>1
<1>6. \A i, j \in 1 .. Len(r.waiters) : r.waiters[i] = r.waiters[j] => i = j
  BY DEF Good
<1> QED BY <1>2, <1>4, <1>5, <1>6 DEF Good

(* signal() in intq_getc() and intq_putc() leaves nobody in wait().        *)
LEMMA TakeGood ==
  ASSUME NEW n \in QueueName, NEW q \in QueueRecord(n), NEW p, NEW b, Good(n, q, p, b), ~intq_empty(q)
  PROVE  /\ Good(n, Take(q), p, b \ Unblocked(q, Take(q)))
         /\ Names(Take(q)) \subseteq Names(q) /\ Unblocked(q, Take(q)) \subseteq Users(n)
<1>1. Waiter(n, Take(q)) = NULL /\ Unused(n, Take(q)) = NULL
  BY TakeType DEF Good, Waiter, Unused, Stuck, QueueName
<1> QED BY <1>1, TakeType, SignalGood

LEMMA AddGood ==
  ASSUME NEW n \in QueueName, NEW q \in QueueRecord(n), NEW p, NEW b, Good(n, q, p, b), ~intq_full(q),
         NEW x \in Byte
  PROVE  /\ Good(n, Add(q, x), p, b \ Unblocked(q, Add(q, x)))
         /\ Names(Add(q, x)) \subseteq Names(q) /\ Unblocked(q, Add(q, x)) \subseteq Users(n)
<1>1. Waiter(n, Add(q, x)) = NULL /\ Unused(n, Add(q, x)) = NULL
  <2>1. Add(q, x).not_full = q.not_full /\ Add(q, x).not_empty = NULL
    BY AddType
  <2>2. (n = "buffer" => q.not_full = NULL) /\ (n # "buffer" => q.not_full = NULL)
    BY DEF Good, Waiter, Unused, Stuck
  <2> QED BY <2>1, <2>2 DEF Waiter, Unused
<1>2. /\ Add(q, x) \in QueueRecord(n)
      /\ Add(q, x).waiters = q.waiters /\ Add(q, x).value = q.value
  BY AddType
<1> QED BY <1>1, <1>2, SignalGood
-----------------------------------------------------------------------------
(* What a step does to the bytes of queue n, and to the register.          *)

SameData(n) ==
  /\ queue'[n].buf = queue[n].buf /\ queue'[n].head = queue[n].head /\ queue'[n].tail = queue[n].tail
  /\ taken'[n] = taken[n]

PutData(n, x) ==
  /\ ~intq_full(queue[n]) /\ taken'[n] = taken[n]
  /\ \A i \in Slot : queue'[n].buf[i] = IF i = queue[n].head THEN x ELSE queue[n].buf[i]
  /\ queue'[n].head = next(queue[n].head) /\ queue'[n].tail = queue[n].tail

GetData(n) ==
  /\ ~intq_empty(queue[n]) /\ taken'[n] = queue[n].buf[queue[n].tail]
  /\ queue'[n].buf = queue[n].buf
  /\ queue'[n].head = queue[n].head /\ queue'[n].tail = next(queue[n].tail)

ExchangeData(n, x) ==
  /\ intq_full(queue[n]) /\ taken'[n] = queue[n].buf[queue[n].tail]
  /\ \A i \in Slot : queue'[n].buf[i] = IF i = queue[n].head THEN x ELSE queue[n].buf[i]
  /\ queue'[n].head = next(queue[n].head) /\ queue'[n].tail = next(queue[n].tail)

DrainData(n) ==
  /\ ~intq_empty(queue[n]) /\ taken'[n] = Contents(queue[n])[Len(Contents(queue[n]))]
  /\ queue'[n].buf = queue[n].buf
  /\ queue'[n].head = queue[n].head /\ queue'[n].tail = queue[n].head

DataStep(n) ==
  \/ SameData(n) \/ GetData(n) \/ DrainData(n)
  \/ \E x \in Byte : PutData(n, x) \/ ExchangeData(n, x)

IerStep ==
  \/ ier' = write_ier(queue')
  \/ UNCHANGED ier /\ SameData("buffer") /\ (SameData("txq") \/ DrainData("txq"))

Kept == TypeOK' /\ QueueInv' /\ IerStep /\ \A n \in QueueName : DataStep(n)

(* A step that changes queue n, and where its users are.                   *)
LEMMA OneQueue ==
  ASSUME TypeOK, QueueInv, NEW n \in QueueName, NEW r \in QueueRecord(n),
         queue' = [queue EXCEPT ![n] = r], pc' \in [Caller -> {"own", "lock", "wait"}],
         \A t \in Caller \ Users(n) : pc'[t] = pc[t] /\ (t \in blocked' <=> t \in blocked),
         blocked' \subseteq Caller,
         Good(n, r, pc', blocked')
  PROVE  /\ queue' = [m \in QueueName |-> queue'[m]]
         /\ \A m \in QueueName : queue'[m] \in QueueRecord(m)
         /\ queue'[n] = r /\ \A m \in QueueName \ {n} : queue'[m] = queue[m]
         /\ QueueInv'
<1>1. /\ queue' = [m \in QueueName |-> queue'[m]]
      /\ queue'[n] = r /\ \A m \in QueueName \ {n} : queue'[m] = queue[m]
  BY DEF TypeOK
<1>2. \A m \in QueueName : queue'[m] \in QueueRecord(m)
  BY <1>1 DEF TypeOK
<1>4. ASSUME NEW m \in QueueName, m # n PROVE Good(m, queue'[m], pc', blocked')
  <2>1. \A t \in Users(m) : t \in Caller \ Users(n)
    BY <1>4 DEF Users
  <2>2. \A t \in Users(m) : pc'[t] = pc[t] /\ (t \in blocked' <=> t \in blocked)
    BY <2>1
  <2>3. Good(m, queue[m], pc, blocked)
    BY DEF QueueInv
  <2>4. Good(m, queue[m], pc', blocked')
    BY <2>2, <2>3, GoodElsewhere
  <2> QED BY <1>1, <1>4, <2>4
<1>5. QueueInv'
  BY <1>1, <1>4 DEF QueueInv
<1> QED BY <1>1, <1>2, <1>5

(* Thread t goes to sleep, or fails wait()'s ASSERT: no byte moves.        *)
LEMMA SleepStep ==
  ASSUME TypeOK, QueueInv, NEW t \in Caller, NEW n \in QueueName, n = QueueOf(t),
         NEW r \in QueueRecord(n), NEW where \in {"lock", "wait"}, NEW gone, gone \subseteq Users(n),
         queue' = [queue EXCEPT ![n] = r], pc' = [pc EXCEPT ![t] = where],
         blocked' = (blocked \ gone) \cup {t}, Good(n, r, pc', blocked'),
         r.buf = queue[n].buf, r.head = queue[n].head, r.tail = queue[n].tail,
         t \in Writer => byte'[t] \in Byte, byte' = [u \in Writer |-> byte'[u]],
         \A u \in Writer : u # t => byte'[u] = byte[u],
         UNCHANGED <<ier, rbr, taken>>
  PROVE  Kept
<1>0. t \in Users(n) /\ Users(n) \subseteq Caller
  BY UsersSplit
<1>1. pc' \in [Caller -> {"own", "lock", "wait"}] /\ \A u \in Caller : u # t => pc'[u] = pc[u]
  BY DEF TypeOK
<1>2. /\ \A u \in Caller \ Users(n) : pc'[u] = pc[u] /\ (u \in blocked' <=> u \in blocked)
      /\ blocked' \subseteq Caller
  BY <1>0, <1>1 DEF TypeOK
<1>4. /\ queue' = [m \in QueueName |-> queue'[m]]
      /\ \A m \in QueueName : queue'[m] \in QueueRecord(m)
      /\ queue'[n] = r /\ \A m \in QueueName \ {n} : queue'[m] = queue[m]
      /\ QueueInv'
  BY <1>1, <1>2, OneQueue, ZenonT(30)
<1>5. \A m \in QueueName : SameData(m)
  BY <1>4 DEF SameData
<1>6. \A u \in Writer : pc'[u] # "own" => byte'[u] \in Byte
  BY <1>1 DEF TypeOK, Caller
<1>7. TypeOK'
  BY <1>1, <1>2, <1>4, <1>6 DEF TypeOK
<1>8. IerStep
  BY <1>5 DEF IerStep, QueueName
<1> QED BY <1>4, <1>5, <1>7, <1>8 DEF Kept, DataStep

LEMMA StillStep ==
  ASSUME TypeOK, QueueInv, UNCHANGED <<queue, pc, blocked, ier, taken>>, rbr' \in Byte \cup {NULL},
         byte' = [u \in Writer |-> byte'[u]],
         \A u \in Writer : byte'[u] = byte[u] \/ byte'[u] \in Byte
  PROVE  Kept
<1>1. \A u \in Writer : pc'[u] # "own" => byte'[u] \in Byte
  BY DEF TypeOK
<1>2. TypeOK'
  BY <1>1 DEF TypeOK
<1>3. QueueInv' /\ \A m \in QueueName : SameData(m)
  BY DEF QueueInv, SameData
<1>4. IerStep
  BY <1>3 DEF IerStep, QueueName
<1> QED BY <1>2, <1>3, <1>4 DEF Kept, DataStep

(* lock_acquire() and wait() by thread t, when its queue is q and its      *)
(* place p.                                                                *)
LEMMA AcquireStep ==
  ASSUME TypeOK, QueueInv, NEW t \in Caller, NEW n \in QueueName, n = QueueOf(t), t \notin blocked,
         NEW q \in QueueRecord(n), NEW p \in [Caller -> {"own", "lock", "wait"}],
         Unblocked(queue[n], q) \subseteq Users(n),
         Good(n, q, p, blocked \ Unblocked(queue[n], q)), p[t] # "wait",
         \A u \in Caller : u # t => p[u] = pc[u],
         q.buf = queue[n].buf, q.head = queue[n].head, q.tail = queue[n].tail,
         t \in Writer => byte'[t] \in Byte, byte' = [u \in Writer |-> byte'[u]],
         \A u \in Writer : u # t => byte'[u] = byte[u],
         AcquireAndWait(t, q)
  PROVE  Kept
<1> DEFINE gone == Unblocked(queue[n], q)
           b == blocked \ gone
<1>0. /\ t \in Users(n) /\ t \notin b /\ Good(n, q, p, b) /\ gone \subseteq Users(n)
      /\ Users(n) \subseteq Caller
  BY UsersSplit
<1>1. UNCHANGED <<ier, rbr, taken>>
  BY DEF AcquireAndWait
<1>3. CASE q.value = 0
  <2>0. ~(q.value > 0)
    BY <1>3
  <2>1. PICK r : /\ r = [q EXCEPT !.waiters = Append(@, t)]
                 /\ queue' = [queue EXCEPT ![n] = r] /\ pc' = [pc EXCEPT ![t] = "lock"]
                 /\ blocked' = b \cup {t}
    BY <1>3, <2>0, ZenonT(30) DEF AcquireAndWait
  <2>2. /\ r \in QueueRecord(n) /\ r.waiters = Append(q.waiters, t) /\ r.value = q.value
        /\ r.head = q.head /\ r.tail = q.tail /\ r.not_full = q.not_full
        /\ r.not_empty = q.not_empty /\ r.buf = q.buf
    <3>1. q.waiters \in Seq(Users(n)) /\ Append(q.waiters, t) \in Seq(Users(n))
      BY <1>0 DEF QueueRecord
    <3> QED BY <2>1, <3>1, ZenonT(30) DEF QueueRecord
  <2>3. \A u \in Users(n) : pc'[u] = IF u = t THEN "lock" ELSE p[u]
    BY <1>0, <2>1 DEF TypeOK
  <2> HIDE DEF b
  <2>4. Good(n, r, pc', b \cup {t})
    BY <1>0, <1>3, <2>2, <2>3, LockGood
  <2>5. Good(n, r, pc', blocked')
    BY <2>1, <2>4
  <2> HIDE DEF gone
  <2>6. blocked' = (blocked \ gone) \cup {t}
    BY <2>1 DEF b
  <2>7. /\ r \in QueueRecord(n)
        /\ r.buf = queue[n].buf /\ r.head = queue[n].head /\ r.tail = queue[n].tail
    BY <2>2
  <2> QED BY <1>0, <1>1, <2>1, <2>5, <2>6, <2>7, SleepStep, ZenonT(30)
<1>4. CASE q.value > 0 /\ MustWait(t, q)
  <2>0. Stuck(n, q) /\ q.value # 0
    BY <1>4 DEF MustWait, Stuck, QueueOf, QueueRecord
  <2>1. PICK r : /\ r = [q EXCEPT !.value = @ - 1, ![WaiterOf(t)] = t]
                 /\ queue' = [queue EXCEPT ![n] = r] /\ pc' = [pc EXCEPT ![t] = "wait"]
                 /\ blocked' = b \cup {t}
    BY <1>4, <2>0 DEF AcquireAndWait
  <2>2. /\ r \in QueueRecord(n) /\ r.waiters = q.waiters /\ r.value = q.value - 1
        /\ r.head = q.head /\ r.tail = q.tail /\ r.buf = q.buf
        /\ Waiter(n, r) = t /\ Unused(n, r) = Unused(n, q)
    <3>0. q.value - 1 \in Nat
      BY <1>4 DEF QueueRecord
    <3>1. CASE n = "buffer"
      <4>1. WaiterOf(t) = "not_empty"
        BY <1>0, <3>1, UsersSplit DEF WaiterOf
      <4>2. r = [q EXCEPT !.value = @ - 1, !.not_empty = t]
        BY <2>1, <4>1, ZenonT(30)
      <4> QED BY <1>0, <3>0, <3>1, <4>2, ZenonT(30) DEF QueueRecord, Waiter, Unused
    <3>2. CASE n = "txq"
      <4>1. WaiterOf(t) = "not_full"
        BY <1>0, <3>2, UsersSplit, SerialAssumption DEF WaiterOf
      <4>2. r = [q EXCEPT !.value = @ - 1, !.not_full = t]
        BY <2>1, <4>1, ZenonT(30)
      <4> QED BY <1>0, <3>0, <3>2, <4>2, ZenonT(30) DEF QueueRecord, Waiter, Unused
    <3> QED BY <3>1, <3>2 DEF QueueName
  <2>3. \A u \in Users(n) : pc'[u] = IF u = t THEN "wait" ELSE p[u]
    BY <1>0, <2>1 DEF TypeOK
  <2> HIDE DEF b
  <2>4. Good(n, r, pc', b \cup {t})
    BY <1>0, <1>4, <2>0, <2>2, <2>3, WaitGood
  <2>5. Good(n, r, pc', blocked')
    BY <2>1, <2>4
  <2> HIDE DEF gone
  <2>6. blocked' = (blocked \ gone) \cup {t}
    BY <2>1 DEF b
  <2> QED BY <1>0, <1>1, <2>1, <2>2, <2>5, <2>6, SleepStep, ZenonT(30)
<1>5. CASE UNCHANGED <<queue, pc, blocked>>
  <2>1. \A u \in Writer : byte'[u] = byte[u] \/ byte'[u] \in Byte
    OBVIOUS
  <2>2. rbr' \in Byte \cup {NULL}
    BY <1>1 DEF TypeOK
  <2> QED BY <1>1, <1>5, <2>1, <2>2, StillStep
<1> QED BY <1>3, <1>4, <1>5 DEF AcquireAndWait
-----------------------------------------------------------------------------
(* Steps that move bytes.                                                  *)

LEMMA MoveStep ==
  ASSUME TypeOK, QueueInv, NEW n \in QueueName, NEW r \in QueueRecord(n), NEW gone, gone \subseteq Users(n),
         queue' = [queue EXCEPT ![n] = r], blocked' = blocked \ gone,
         pc' \in [Caller -> {"own", "lock", "wait"}],
         \A u \in Caller : pc'[u] = pc[u] \/ (u \in Users(n) /\ pc'[u] = "own"),
         Good(n, r, pc', blocked'), DataStep(n),
         taken' = [m \in QueueName |-> taken'[m]], \A m \in QueueName \ {n} : taken'[m] = taken[m],
         IerStep, rbr' \in Byte \cup {NULL}, byte' = [u \in Writer |-> byte'[u]],
         \A u \in Writer : byte'[u] = byte[u] \/ byte'[u] \in Byte
  PROVE  Kept
<1>1. Users(n) \subseteq Caller
  BY UsersSplit
<1>2. /\ \A u \in Caller \ Users(n) : pc'[u] = pc[u] /\ (u \in blocked' <=> u \in blocked)
      /\ blocked' \subseteq Caller
  BY <1>1 DEF TypeOK
<1>3. /\ queue' = [m \in QueueName |-> queue'[m]]
      /\ \A m \in QueueName : queue'[m] \in QueueRecord(m)
      /\ queue'[n] = r /\ \A m \in QueueName \ {n} : queue'[m] = queue[m]
      /\ QueueInv'
  BY <1>2, OneQueue, ZenonT(30)
<1>4. \A m \in QueueName : DataStep(m)
  <2>1. \A m \in QueueName \ {n} : SameData(m)
    BY <1>3 DEF SameData
  <2> QED BY <2>1 DEF DataStep
<1>5. \A u \in Writer : pc'[u] # "own" => byte'[u] \in Byte
  BY DEF TypeOK, Caller
<1>6. TypeOK'
  BY <1>2, <1>3, <1>5 DEF TypeOK
<1> QED BY <1>3, <1>4, <1>6 DEF Kept

LEMMA Through ==
  ASSUME NEW q, NEW r, NEW s, Names(s) \subseteq Names(r), Names(r) \subseteq Names(q), NEW b
  PROVE  b \ Unblocked(q, s) = (b \ Unblocked(q, r)) \ Unblocked(r, s)
BY DEF Unblocked

(* The loop of intq_getc() or intq_putc() and what follows it.             *)
LEMMA LoopStep ==
  ASSUME TypeOK, QueueInv, NEW t \in Caller, NEW n \in QueueName, n = QueueOf(t), t \notin blocked,
         NEW q \in QueueRecord(n), NEW p \in [Caller -> {"own", "lock", "wait"}],
         Unblocked(queue[n], q) \subseteq Users(n), Names(q) \subseteq Names(queue[n]),
         Good(n, q, p, blocked \ Unblocked(queue[n], q)), p[t] = "own",
         \A u \in Caller : u # t => p[u] = pc[u],
         q.buf = queue[n].buf, q.head = queue[n].head, q.tail = queue[n].tail,
         NEW x, t \in Writer => x \in Byte /\ byte'[t] = x, byte' = [u \in Writer |-> byte'[u]],
         \A u \in Writer : u # t => byte'[u] = byte[u],
         Loop(t, q, x)
  PROVE  Kept
<1>1. CASE MustWait(t, q)
  <2>1. AcquireAndWait(t, q) /\ p[t] # "wait" /\ (t \in Writer => byte'[t] \in Byte)
    BY <1>1 DEF Loop
  <2> QED BY <2>1, AcquireStep
<1>2. CASE ~MustWait(t, q)
  <2>0. t \in Users(n) /\ Users(n) \subseteq Caller
    BY UsersSplit
  <2>1. /\ IF t \in Reader THEN getc(t, q) ELSE putc(q, x)
        /\ pc' = [pc EXCEPT ![t] = "own"] /\ rbr' = rbr
    BY <1>2 DEF Loop
  <2>2. /\ pc' \in [Caller -> {"own", "lock", "wait"}] /\ pc' = p
        /\ \A u \in Caller : pc'[u] = pc[u] \/ (u \in Users(n) /\ pc'[u] = "own")
    BY <2>0, <2>1 DEF TypeOK
  <2>3. rbr' \in Byte \cup {NULL} /\ \A u \in Writer : byte'[u] = byte[u] \/ byte'[u] \in Byte
    BY <2>1, ZenonT(30) DEF TypeOK
  <2>4. CASE t \in Reader
    <3>1. n = "buffer" /\ ~intq_empty(q)
      BY <1>2, <2>4 DEF QueueOf, MustWait
    <3>2. /\ queue' = [queue EXCEPT ![n] = Take(q)]
          /\ blocked' = blocked \ Unblocked(queue[n], Take(q))
          /\ taken' = [taken EXCEPT ![n] = q.buf[q.tail]] /\ ier' = write_ier(queue')
      BY <2>1, <2>4, <3>1 DEF getc
    <3>3. /\ Good(n, Take(q), p, (blocked \ Unblocked(queue[n], q)) \ Unblocked(q, Take(q)))
          /\ Names(Take(q)) \subseteq Names(q) /\ Unblocked(q, Take(q)) \subseteq Users(n)
      BY <3>1, TakeGood, ZenonT(30)
    <3>4. blocked' = (blocked \ Unblocked(queue[n], q)) \ Unblocked(q, Take(q))
      BY <3>2, <3>3, Through
    <3>5. Good(n, Take(q), pc', blocked')
      BY <2>2, <3>3, <3>4
    <3>6. Unblocked(queue[n], Take(q)) \subseteq Users(n)
      BY <3>3 DEF Unblocked
    <3>7. /\ Take(q) \in QueueRecord(n)
          /\ Take(q).buf = q.buf /\ Take(q).head = q.head /\ Take(q).tail = next(q.tail)
      BY TakeType
    <3>8. /\ taken' = [m \in QueueName |-> taken'[m]] /\ \A m \in QueueName \ {n} : taken'[m] = taken[m]
          /\ taken'[n] = q.buf[q.tail] /\ queue'[n] = Take(q)
      BY <3>2, ZenonT(30) DEF TypeOK
    <3>9. GetData(n)
      BY <3>1, <3>7, <3>8, ZenonT(30) DEF GetData, intq_empty
    <3>10. DataStep(n) /\ IerStep
      BY <3>2, <3>9 DEF DataStep, IerStep
    <3> QED BY <2>2, <2>3, <3>2, <3>5, <3>6, <3>7, <3>8, <3>10, MoveStep, ZenonT(30)
  <2>5. CASE t \notin Reader
    <3>1. n = "txq" /\ ~intq_full(q) /\ x \in Byte
      BY <1>2, <2>5 DEF QueueOf, MustWait, Caller
    <3>2. /\ queue' = [queue EXCEPT ![n] = Add(q, x)]
          /\ blocked' = blocked \ Unblocked(queue[n], Add(q, x))
          /\ taken' = taken /\ ier' = write_ier(queue')
      BY <2>1, <2>5, <3>1 DEF putc
    <3>3. /\ Good(n, Add(q, x), p, (blocked \ Unblocked(queue[n], q)) \ Unblocked(q, Add(q, x)))
          /\ Names(Add(q, x)) \subseteq Names(q) /\ Unblocked(q, Add(q, x)) \subseteq Users(n)
      BY <3>1, AddGood
    <3>4. blocked' = (blocked \ Unblocked(queue[n], q)) \ Unblocked(q, Add(q, x))
      BY <3>2, <3>3, Through
    <3>5. Good(n, Add(q, x), pc', blocked')
      BY <2>2, <3>3, <3>4
    <3>6. Unblocked(queue[n], Add(q, x)) \subseteq Users(n)
      BY <3>3 DEF Unblocked
    <3>7. /\ Add(q, x) \in QueueRecord(n) /\ Add(q, x).head = next(q.head) /\ Add(q, x).tail = q.tail
          /\ \A i \in Slot : Add(q, x).buf[i] = IF i = q.head THEN x ELSE q.buf[i]
      BY <3>1, AddType
    <3>8. /\ taken' = [m \in QueueName |-> taken'[m]] /\ \A m \in QueueName : taken'[m] = taken[m]
          /\ queue'[n] = Add(q, x)
      BY <3>2 DEF TypeOK
    <3>9. PutData(n, x)
      BY <3>1, <3>7, <3>8 DEF PutData, intq_full
    <3>10. DataStep(n) /\ IerStep
      BY <3>1, <3>2, <3>9 DEF DataStep, IerStep
    <3> QED BY <2>2, <2>3, <3>2, <3>5, <3>6, <3>7, <3>8, <3>10, MoveStep, ZenonT(30)
  <2> QED BY <2>4, <2>5
<1> QED BY <1>1, <1>2
-----------------------------------------------------------------------------
(* Each action keeps the invariants.                                       *)

\* A queue as it is.
LEMMA AsItIs ==
  ASSUME TypeOK, QueueInv, NEW n \in QueueName
  PROVE  /\ queue[n] \in QueueRecord(n) /\ Good(n, queue[n], pc, blocked)
         /\ Unblocked(queue[n], queue[n]) = {} /\ pc \in [Caller -> {"own", "lock", "wait"}]
         /\ Good(n, queue[n], pc, blocked \ Unblocked(queue[n], queue[n]))
<1>1. Unblocked(queue[n], queue[n]) = {}
  BY DEF Unblocked
<1>2. blocked \ Unblocked(queue[n], queue[n]) = blocked
  BY <1>1
<1>3. queue[n] \in QueueRecord(n) /\ pc \in [Caller -> {"own", "lock", "wait"}]
  BY DEF TypeOK
<1>4. Good(n, queue[n], pc, blocked)
  BY ZenonT(30) DEF QueueInv
<1> QED BY <1>1, <1>2, <1>3, <1>4

LEMMA Awake ==
  ASSUME TypeOK, QueueInv, NEW t \in Caller, pc[t] = "own"
  PROVE  t \notin blocked
<1>1. QueueOf(t) \in QueueName /\ t \in Users(QueueOf(t))
  BY UsersSplit
<1>2. Good(QueueOf(t), queue[QueueOf(t)], pc, blocked)
  BY <1>1 DEF QueueInv
<1> QED BY <1>1, <1>2, ZenonT(30) DEF Good

LEMMA GetcStep ==
  ASSUME TypeOK, QueueInv, NEW t \in Reader, input_getc(t)
  PROVE  Kept
<1>1. PICK n \in QueueName : n = "buffer"
  BY DEF QueueName
<1>2. t \in Caller /\ n = QueueOf(t) /\ pc[t] = "own" /\ t \notin Writer
  BY <1>1, SerialAssumption DEF Caller, QueueOf, input_getc
<1>3. t \notin blocked
  BY <1>2, Awake
<1>4. PICK q \in QueueRecord(n) : q = queue[n]
  BY AsItIs, ZenonT(30)
<1>5. /\ Unblocked(queue[n], q) \subseteq Users(n) /\ Names(q) \subseteq Names(queue[n])
      /\ Good(n, q, pc, blocked \ Unblocked(queue[n], q))
      /\ pc \in [Caller -> {"own", "lock", "wait"}]
  BY <1>4, AsItIs
<1>6. Loop(t, q, NULL) /\ byte' = byte
  BY <1>1, <1>4 DEF input_getc
<1>7. byte' = [u \in Writer |-> byte'[u]] /\ \A u \in Writer : u # t => byte'[u] = byte[u]
  BY <1>6 DEF TypeOK
<1> QED BY <1>2, <1>3, <1>4, <1>5, <1>6, <1>7, LoopStep

LEMMA PutcStep ==
  ASSUME TypeOK, QueueInv, NEW t \in Writer, NEW x \in OutByte, serial_putc(t, x)
  PROVE  Kept
<1>1. PICK n \in QueueName : n = "txq"
  BY DEF QueueName
<1>2. t \in Caller /\ n = QueueOf(t) /\ pc[t] = "own" /\ t \notin Reader /\ x \in Byte
  BY <1>1, SerialAssumption DEF Caller, QueueOf, serial_putc
<1>3. t \notin blocked
  BY <1>2, Awake
<1>4. PICK q \in QueueRecord(n) : q = queue[n]
  BY AsItIs, ZenonT(30)
<1>5. /\ Unblocked(queue[n], q) \subseteq Users(n) /\ Names(q) \subseteq Names(queue[n])
      /\ Good(n, q, pc, blocked \ Unblocked(queue[n], q))
      /\ pc \in [Caller -> {"own", "lock", "wait"}]
  BY <1>4, AsItIs
<1>6. Loop(t, q, x) /\ byte' = [byte EXCEPT ![t] = x]
  BY <1>1, <1>4 DEF serial_putc
<1>7. /\ byte' = [u \in Writer |-> byte'[u]] /\ \A u \in Writer : u # t => byte'[u] = byte[u]
      /\ byte'[t] = x
  BY <1>6 DEF TypeOK
<1> QED BY <1>2, <1>3, <1>4, <1>5, <1>6, <1>7, LoopStep, ZenonT(30)

LEMMA ResumeStep ==
  ASSUME TypeOK, QueueInv, NEW t \in Caller, Resume(t)
  PROVE  Kept
<1>1. PICK n \in QueueName : n = QueueOf(t) /\ t \in Users(n) /\ Users(n) \subseteq Caller
  BY UsersSplit
<1>2. t \notin blocked /\ byte' = byte
  BY DEF Resume
<1>3. byte' = [u \in Writer |-> byte'[u]] /\ \A u \in Writer : u # t => byte'[u] = byte[u]
  BY <1>2 DEF TypeOK
<1>4. pc[t] # "own" /\ (t \in Writer => byte'[t] \in Byte)
  BY <1>2 DEF Resume, TypeOK
<1>5. CASE pc[t] = "lock"
  <2>1. PICK q \in QueueRecord(n) : q = queue[n]
    BY AsItIs, ZenonT(30)
  <2>2. /\ Unblocked(queue[n], q) \subseteq Users(n)
        /\ Good(n, q, pc, blocked \ Unblocked(queue[n], q))
        /\ pc \in [Caller -> {"own", "lock", "wait"}]
    BY <2>1, AsItIs, ZenonT(30)
  <2>3. AcquireAndWait(t, q)
    BY <1>1, <1>5, <2>1 DEF Resume
  <2> QED BY <1>1, <1>2, <1>3, <1>4, <1>5, <2>1, <2>2, <2>3, AcquireStep
<1>6. CASE pc[t] = "wait"
  <2>0. /\ queue[n] \in QueueRecord(n) /\ Good(n, queue[n], pc, blocked)
        /\ pc \in [Caller -> {"own", "lock", "wait"}]
    BY AsItIs, ZenonT(30)
  <2>1. PICK q \in QueueRecord(n) : q = Release(queue[n])
    BY <2>0, ReleaseType
  <2>2. PICK o \in [Caller -> {"own", "lock", "wait"}] :
          o[t] = "own" /\ \A u \in Caller : u # t => o[u] = pc[u]
    <3>1. PICK o : o = [pc EXCEPT ![t] = "own"]
      BY ZenonT(30)
    <3> QED BY <2>0, <3>1
  <2>3. \A u \in Users(n) : o[u] = IF u = t THEN "own" ELSE pc[u]
    BY <1>1, <2>2
  <2>4. /\ Good(n, q, o, blocked \ Unblocked(queue[n], q))
        /\ Names(q) \subseteq Names(queue[n]) /\ Unblocked(queue[n], q) \subseteq Users(n)
    <3>1. PICK z \in QueueRecord(n), p \in [Caller -> {"own", "lock", "wait"}], b \in SUBSET Caller :
            z = queue[n] /\ p = pc /\ b = blocked
      BY <2>0 DEF TypeOK
    <3>2. /\ Good(n, z, p, b) /\ t \in Users(n) /\ p[t] = "wait" /\ t \notin b
          /\ o[t] = "own" /\ \A u \in Users(n) : u # t => o[u] = p[u]
      BY <1>1, <1>2, <1>6, <2>0, <2>2, <3>1
    <3>3. PICK c : c = b \ Unblocked(z, q)
      BY ZenonT(30)
    <3>4. q = Release(z)
      BY <2>1, <3>1
    <3>5. Good(n, q, o, c) /\ Names(q) \subseteq Names(z) /\ Unblocked(z, q) \subseteq Users(n)
      BY <3>2, <3>3, <3>4, ReleaseGood
    <3> QED BY <3>1, <3>3, <3>5
  <2>5. q.buf = queue[n].buf /\ q.head = queue[n].head /\ q.tail = queue[n].tail
    BY <2>0, <2>1, ReleaseType
  <2>6. PICK x : x = IF t \in Writer THEN byte[t] ELSE NULL
    OBVIOUS
  <2>7. Loop(t, q, x) /\ (t \in Writer => x \in Byte /\ byte'[t] = x)
    BY <1>1, <1>2, <1>4, <1>6, <2>1, <2>6 DEF Resume
  <2> QED BY <1>1, <1>2, <1>3, <2>2, <2>4, <2>5, <2>7, LoopStep, ZenonT(30)
<1> QED BY <1>5, <1>6 DEF Resume

(* A step outside the threads that changes queue n to r and signals.       *)
LEMMA OutsideStep ==
  ASSUME TypeOK, QueueInv, NEW n \in QueueName, NEW r \in QueueRecord(n),
         queue' = [queue EXCEPT ![n] = r], blocked' = blocked \ Unblocked(queue[n], r),
         r.waiters = queue[n].waiters, r.value = queue[n].value,
         Waiter(n, r) = NULL, Unused(n, r) = NULL, DataStep(n),
         taken' = [m \in QueueName |-> taken'[m]], \A m \in QueueName \ {n} : taken'[m] = taken[m],
         IerStep, UNCHANGED <<pc, byte, rbr>>
  PROVE  Kept
<1>1. /\ queue[n] \in QueueRecord(n) /\ Good(n, queue[n], pc, blocked)
      /\ pc \in [Caller -> {"own", "lock", "wait"}]
  BY AsItIs, ZenonT(30)
<1>2. /\ Good(n, r, pc, blocked \ Unblocked(queue[n], r))
      /\ Unblocked(queue[n], r) \subseteq Users(n)
  BY <1>1, SignalGood, ZenonT(30)
<1>3. Good(n, r, pc', blocked') /\ pc' \in [Caller -> {"own", "lock", "wait"}]
  BY <1>1, <1>2
<1>4. /\ rbr' \in Byte \cup {NULL} /\ byte' = [u \in Writer |-> byte'[u]]
      /\ \A u \in Writer : byte'[u] = byte[u] \/ byte'[u] \in Byte
      /\ \A u \in Caller : pc'[u] = pc[u] \/ (u \in Users(n) /\ pc'[u] = "own")
  BY ZenonT(30) DEF TypeOK
<1> QED BY <1>2, <1>3, <1>4, MoveStep, ZenonT(30)

\* A queue that is neither empty nor full, or of which one end is free.
LEMMA NobodyStays ==
  ASSUME NEW n \in QueueName, NEW q, NEW p, NEW b, Good(n, q, p, b)
  PROVE  /\ ~intq_full(q) => q.not_full = NULL
         /\ ~intq_empty(q) => q.not_empty = NULL
         /\ n = "buffer" => q.not_full = NULL
         /\ n = "txq" => q.not_empty = NULL
BY DEF Good, Waiter, Unused, Stuck, QueueName

LEMMA OffStep ==
  ASSUME TypeOK, QueueInv, NEW x \in OffByte, serial_putc_off(x)
  PROVE  Kept
<1>1. PICK n \in QueueName : n = "txq"
  BY ZenonT(30) DEF QueueName
<1>2. PICK q \in QueueRecord(n) : q = queue[n]
  BY AsItIs, ZenonT(30)
<1>3. x \in Byte /\ UNCHANGED <<pc, byte, rbr>> /\ ier' = write_ier(queue')
  BY SerialAssumption DEF serial_putc_off
<1>4. Good(n, q, pc, blocked)
  BY <1>2, AsItIs, ZenonT(30)
<1>5. IerStep
  BY <1>3 DEF IerStep
<1>6. CASE intq_full(q)
  <2>1. PICK s \in QueueRecord(n) : s = Take(q)
    BY TakeType
  <2>2. PICK r \in QueueRecord(n) : r = Add(s, x)
    BY <1>3, AddType
  <2>3. /\ queue' = [queue EXCEPT ![n] = r] /\ taken' = [taken EXCEPT ![n] = q.buf[q.tail]]
        /\ blocked' = blocked \ Unblocked(q, queue'[n])
    BY <1>1, <1>2, <1>6, <2>1, <2>2, ZenonT(30) DEF serial_putc_off
  <2>4. /\ queue'[n] = r /\ taken'[n] = q.buf[q.tail] /\ taken' = [m \in QueueName |-> taken'[m]]
        /\ \A m \in QueueName \ {n} : taken'[m] = taken[m]
    BY <2>3 DEF TypeOK
  <2>5. blocked' = blocked \ Unblocked(queue[n], r)
    BY <1>2, <2>3, <2>4
  <2>6. /\ s.buf = q.buf /\ s.head = q.head /\ s.tail = next(q.tail) /\ s.not_full = NULL
        /\ s.value = q.value /\ s.waiters = q.waiters
    BY <2>1, TakeType, ZenonT(30)
  <2>7. /\ \A i \in Slot : r.buf[i] = IF i = s.head THEN x ELSE s.buf[i]
        /\ r.head = next(s.head) /\ r.tail = s.tail /\ r.not_full = s.not_full /\ r.not_empty = NULL
        /\ r.value = s.value /\ r.waiters = s.waiters
    BY <1>3, <2>2, AddType, SMTT(30)
  <2>8. ExchangeData(n, x)
    BY <1>2, <1>6, <2>4, <2>6, <2>7, ZenonT(30) DEF ExchangeData
  <2>9. DataStep(n) /\ Waiter(n, r) = NULL /\ Unused(n, r) = NULL
    BY <1>3, <2>6, <2>7, <2>8, ZenonT(30) DEF DataStep, Waiter, Unused
  <2>10. r.waiters = queue[n].waiters /\ r.value = queue[n].value
    BY <1>2, <2>6, <2>7, ZenonT(30)
  <2> QED BY <1>3, <1>5, <2>3, <2>4, <2>5, <2>9, <2>10, OutsideStep, ZenonT(30)
<1>7. CASE ~intq_full(q)
  <2>2. PICK r \in QueueRecord(n) : r = Add(q, x)
    BY <1>3, AddType
  <2>3. /\ queue' = [queue EXCEPT ![n] = r] /\ taken' = taken
        /\ blocked' = blocked \ Unblocked(q, queue'[n])
    BY <1>1, <1>2, <1>7, <2>2 DEF serial_putc_off
  <2>4. /\ queue'[n] = r /\ taken' = [m \in QueueName |-> taken'[m]]
        /\ \A m \in QueueName : taken'[m] = taken[m]
    BY <2>3 DEF TypeOK
  <2>5. blocked' = blocked \ Unblocked(queue[n], r)
    BY <1>2, <2>3, <2>4, ZenonT(30)
  <2>7. /\ \A i \in Slot : r.buf[i] = IF i = q.head THEN x ELSE q.buf[i]
        /\ r.head = next(q.head) /\ r.tail = q.tail /\ r.not_full = q.not_full /\ r.not_empty = NULL
        /\ r.value = q.value /\ r.waiters = q.waiters
    BY <1>3, <2>2, AddType
  <2>8. PutData(n, x)
    BY <1>2, <1>7, <2>4, <2>7, ZenonT(30) DEF PutData
  <2>9. DataStep(n) /\ Waiter(n, r) = NULL /\ Unused(n, r) = NULL
    BY <1>3, <1>4, <1>7, <2>7, <2>8, NobodyStays DEF DataStep, Waiter, Unused
  <2>10. r.waiters = queue[n].waiters /\ r.value = queue[n].value
    BY <1>2, <2>7
  <2> QED BY <1>3, <1>5, <2>3, <2>4, <2>5, <2>9, <2>10, OutsideStep, ZenonT(30)
<1> QED BY <1>6, <1>7

LEMMA FlushStep ==
  ASSUME TypeOK, QueueInv, serial_flush
  PROVE  Kept
<1>1. PICK n \in QueueName : n = "txq"
  BY DEF QueueName
<1>2. PICK q \in QueueRecord(n) : q = queue[n]
  BY AsItIs, ZenonT(30)
<1>3. PICK r : r = [q EXCEPT !.tail = q.head, !.not_full = NULL]
  OBVIOUS
<1>4. PICK last : last = Contents(queue[n])[Len(Contents(queue[n]))]
  OBVIOUS
<1>5. /\ queue' = [queue EXCEPT ![n] = r] /\ taken' = [taken EXCEPT ![n] = last]
      /\ blocked' = blocked \ Unblocked(q, queue'[n]) /\ ~intq_empty(q)
      /\ UNCHANGED <<pc, byte, ier, rbr>>
  BY <1>1, <1>2, <1>3, <1>4 DEF serial_flush
<1>6. /\ r \in QueueRecord(n) /\ r.buf = q.buf /\ r.head = q.head /\ r.tail = q.head
      /\ r.not_full = NULL /\ r.not_empty = q.not_empty /\ r.value = q.value /\ r.waiters = q.waiters
  BY <1>3, ZenonT(30) DEF QueueRecord
<1>7. /\ queue'[n] = r /\ taken'[n] = last /\ taken' = [m \in QueueName |-> taken'[m]]
      /\ \A m \in QueueName \ {n} : taken'[m] = taken[m] /\ queue'[m] = queue[m]
  BY <1>5 DEF TypeOK
<1>8. blocked' = blocked \ Unblocked(queue[n], r)
  BY <1>2, <1>5, <1>7
<1>9. DrainData(n)
  BY <1>2, <1>4, <1>5, <1>6, <1>7 DEF DrainData
<1>10. SameData("buffer")
  BY <1>1, <1>7 DEF SameData, QueueName
<1>11. DataStep(n) /\ IerStep
  BY <1>1, <1>5, <1>9, <1>10 DEF DataStep, IerStep
<1>12. Good(n, q, pc, blocked)
  BY <1>2, AsItIs, ZenonT(30)
<1>13. Waiter(n, r) = NULL /\ Unused(n, r) = NULL
  BY <1>1, <1>6, <1>12, NobodyStays DEF Waiter, Unused
<1>14. r.waiters = queue[n].waiters /\ r.value = queue[n].value
  BY <1>2, <1>6
<1> QED BY <1>5, <1>6, <1>7, <1>8, <1>11, <1>13, <1>14, OutsideStep, ZenonT(30)

LEMMA KeyStep ==
  ASSUME TypeOK, QueueInv, NEW x \in KeyByte, keyboard_interrupt(x)
  PROVE  Kept
<1>1. PICK n \in QueueName : n = "buffer"
  BY DEF QueueName
<1>2. PICK q \in QueueRecord(n) : q = queue[n]
  BY AsItIs, ZenonT(30)
<1>3. x \in Byte /\ UNCHANGED <<pc, byte, rbr>> /\ ier' = write_ier(queue') /\ ~intq_full(q)
  BY <1>1, <1>2, SerialAssumption DEF keyboard_interrupt
<1>4. Good(n, q, pc, blocked)
  BY <1>2, AsItIs, ZenonT(30)
<1>5. IerStep
  BY <1>3, SMTT(30) DEF IerStep
<1>6. PICK r \in QueueRecord(n) : r = Add(q, x)
  BY <1>3, AddType
<1>7. /\ queue' = [queue EXCEPT ![n] = r] /\ taken' = taken
      /\ blocked' = blocked \ Unblocked(q, queue'[n])
  BY <1>1, <1>2, <1>6, ZenonT(30) DEF keyboard_interrupt
<1>8. /\ queue'[n] = r /\ taken' = [m \in QueueName |-> taken'[m]]
      /\ \A m \in QueueName : taken'[m] = taken[m]
  BY <1>7 DEF TypeOK
<1>9. blocked' = blocked \ Unblocked(queue[n], r)
  BY <1>2, <1>7, <1>8, SMTT(30)
<1>10. /\ \A i \in Slot : r.buf[i] = IF i = q.head THEN x ELSE q.buf[i]
       /\ r.head = next(q.head) /\ r.tail = q.tail /\ r.not_full = q.not_full /\ r.not_empty = NULL
       /\ r.value = q.value /\ r.waiters = q.waiters
  BY <1>3, <1>6, AddType
<1>11. PutData(n, x)
  BY <1>2, <1>3, <1>8, <1>10, ZenonT(30) DEF PutData
<1>12. DataStep(n) /\ Waiter(n, r) = NULL /\ Unused(n, r) = NULL
  BY <1>1, <1>3, <1>4, <1>10, <1>11, NobodyStays, ZenonT(30) DEF DataStep, Waiter, Unused
<1>13. r.waiters = queue[n].waiters /\ r.value = queue[n].value
  BY <1>2, <1>10
<1> QED BY <1>3, <1>5, <1>7, <1>8, <1>9, <1>12, <1>13, OutsideStep, ZenonT(30)

LEMMA InterruptStep ==
  ASSUME TypeOK, QueueInv, serial_interrupt
  PROVE  Kept
<1>1. PICK m \in QueueName, n \in QueueName : m = "buffer" /\ n = "txq"
  BY DEF QueueName
<1>2. PICK i \in QueueRecord(m), x \in QueueRecord(n) : i = queue[m] /\ x = queue[n]
  BY AsItIs, ZenonT(30)
<1>3. Good(m, i, pc, blocked) /\ Good(n, x, pc, blocked)
  BY <1>2, AsItIs, ZenonT(30)
<1>4. PICK ii, xx : /\ ii = IF rbr # NULL /\ ~intq_full(i) THEN Add(i, rbr) ELSE i
                    /\ xx = IF thr = NULL /\ ~intq_empty(x) THEN Take(x) ELSE x
  OBVIOUS
<1>5. /\ queue' = [queue EXCEPT !["buffer"] = ii, !["txq"] = xx]
      /\ rbr' \in {NULL, rbr} /\ ier' = write_ier(queue') /\ pc' = pc /\ byte' = byte
      /\ blocked' = blocked \ (Unblocked(i, queue'["buffer"]) \cup Unblocked(x, queue'["txq"]))
      /\ taken' = IF thr = NULL /\ ~intq_empty(x) THEN [taken EXCEPT !["txq"] = x.buf[x.tail]] ELSE taken
  BY <1>1, <1>2, <1>4 DEF serial_interrupt
<1>6. /\ queue' = [k \in QueueName |-> queue'[k]] /\ queue'[m] = ii /\ queue'[n] = xx
      /\ blocked' = blocked \ (Unblocked(i, ii) \cup Unblocked(x, xx))
      /\ taken' = [k \in QueueName |-> taken'[k]] /\ taken'[m] = taken[m]
      /\ taken'[n] = IF thr = NULL /\ ~intq_empty(x) THEN x.buf[x.tail] ELSE taken[n]
  <2>1. queue' = [k \in QueueName |-> queue'[k]] /\ queue'[m] = ii /\ queue'[n] = xx
    BY <1>1, <1>5, ZenonT(30) DEF TypeOK
  <2>2. /\ taken' = [k \in QueueName |-> taken'[k]] /\ taken'[m] = taken[m]
        /\ taken'[n] = IF thr = NULL /\ ~intq_empty(x) THEN x.buf[x.tail] ELSE taken[n]
    BY <1>1, <1>5 DEF TypeOK
  <2> QED BY <1>1, <1>5, <2>1, <2>2, ZenonT(30)
<1>7. /\ ii \in QueueRecord(m) /\ DataStep(m) /\ Good(m, ii, pc, blocked \ Unblocked(i, ii))
      /\ Unblocked(i, ii) \subseteq Users(m)
  <2>1. CASE rbr # NULL /\ ~intq_full(i)
    <3>1. PICK b \in Byte : b = rbr
      BY <2>1 DEF TypeOK
    <3>2. ii = Add(i, b)
      BY <1>4, <2>1, <3>1, ZenonT(30)
    <3>3. /\ Add(i, b) \in QueueRecord(m)
          /\ \A k \in Slot : Add(i, b).buf[k] = IF k = i.head THEN b ELSE i.buf[k]
          /\ Add(i, b).head = next(i.head) /\ Add(i, b).tail = i.tail
      BY AddType
    <3>4. PutData(m, b)
      BY <1>2, <1>6, <2>1, <3>2, <3>3 DEF PutData
    <3>5. /\ Good(m, Add(i, b), pc, blocked \ Unblocked(i, Add(i, b)))
          /\ Unblocked(i, Add(i, b)) \subseteq Users(m)
      BY <1>3, <2>1, AddGood
    <3> QED BY <3>2, <3>3, <3>4, <3>5 DEF DataStep
  <2>2. CASE ~(rbr # NULL /\ ~intq_full(i))
    <3>1. ii = i
      BY <1>4, <2>2
    <3>2. SameData(m)
      BY <1>2, <1>6, <3>1 DEF SameData
    <3> QED BY <1>2, <3>1, <3>2, AsItIs, ZenonT(30) DEF DataStep
  <2> QED BY <2>1, <2>2, ZenonT(30)
<1>8. /\ xx \in QueueRecord(n) /\ DataStep(n) /\ Good(n, xx, pc, blocked \ Unblocked(x, xx))
      /\ Unblocked(x, xx) \subseteq Users(n)
  <2>1. CASE thr = NULL /\ ~intq_empty(x)
    <3>2. xx = Take(x)
      BY <1>4, <2>1
    <3>3. /\ Take(x) \in QueueRecord(n) /\ Take(x).buf = x.buf
          /\ Take(x).head = x.head /\ Take(x).tail = next(x.tail)
      BY TakeType
    <3>4. GetData(n)
      BY <1>2, <1>6, <2>1, <3>2, <3>3 DEF GetData
    <3>5. /\ Good(n, Take(x), pc, blocked \ Unblocked(x, Take(x)))
          /\ Unblocked(x, Take(x)) \subseteq Users(n)
      BY <1>3, <2>1, TakeGood
    <3> QED BY <3>2, <3>3, <3>4, <3>5 DEF DataStep
  <2>2. CASE ~(thr = NULL /\ ~intq_empty(x))
    <3>1. xx = x
      BY <1>4, <2>2
    <3>2. SameData(n)
      BY <1>2, <1>6, <2>2, <3>1 DEF SameData
    <3> QED BY <1>2, <3>1, <3>2, AsItIs, ZenonT(30) DEF DataStep
  <2> QED BY <2>1, <2>2
<1>9. Users(m) \cap Users(n) = {}
  BY <1>1, ZenonT(30) DEF Users
<1>10. Good(m, ii, pc', blocked')
  <2>1. \A t \in Users(m) : pc'[t] = pc[t] /\ (t \in blocked' <=> t \in blocked \ Unblocked(i, ii))
    BY <1>5, <1>6, <1>8, <1>9, ZenonT(30)
  <2> QED BY <1>7, <2>1, GoodElsewhere, ZenonT(30)
<1>11. Good(n, xx, pc', blocked')
  <2>1. \A t \in Users(n) : pc'[t] = pc[t] /\ (t \in blocked' <=> t \in blocked \ Unblocked(x, xx))
    BY <1>5, <1>6, <1>7, <1>9, ZenonT(30)
  <2> QED BY <1>8, <2>1, GoodElsewhere
<1>12. \A k \in QueueName : k = m \/ k = n
  BY <1>1 DEF QueueName
<1>13. QueueInv'
  BY <1>6, <1>10, <1>11, <1>12, SMTT(30) DEF QueueInv
<1>14. TypeOK'
  BY <1>5, <1>6, <1>7, <1>8, <1>12, SMTT(30) DEF TypeOK
<1>15. IerStep
  BY <1>5, ZenonT(30) DEF IerStep
<1> QED BY <1>7, <1>8, <1>12, <1>13, <1>14, <1>15 DEF Kept

(* Every step keeps the invariants and moves bytes as intq.c does.         *)
LEMMA StepKept ==
  ASSUME TypeOK, QueueInv, [Next]_vars
  PROVE  Kept
<1>1. CASE UNCHANGED vars
  <2>1. /\ UNCHANGED <<queue, pc, blocked, ier, taken>> /\ rbr' \in Byte \cup {NULL}
        /\ byte' = [u \in Writer |-> byte'[u]] /\ \A u \in Writer : byte'[u] = byte[u]
    BY <1>1 DEF vars, TypeOK
  <2> QED BY <2>1, StillStep
<1>2. ASSUME NEW x \in LineByte, uart_receive(x) PROVE Kept
  <2>1. /\ UNCHANGED <<queue, pc, blocked, ier, taken>> /\ rbr' \in Byte \cup {NULL}
        /\ byte' = [u \in Writer |-> byte'[u]] /\ \A u \in Writer : byte'[u] = byte[u]
    BY <1>2, SerialAssumption DEF uart_receive, TypeOK
  <2> QED BY <2>1, StillStep
<1>3. CASE uart_send
  <2>1. /\ UNCHANGED <<queue, pc, blocked, ier, taken>> /\ rbr' \in Byte \cup {NULL}
        /\ byte' = [u \in Writer |-> byte'[u]] /\ \A u \in Writer : byte'[u] = byte[u]
    BY <1>3 DEF uart_send, TypeOK
  <2> QED BY <2>1, StillStep
<1>4. CASE Next
  BY <1>2, <1>3, <1>4, GetcStep, PutcStep, ResumeStep, OffStep, FlushStep, InterruptStep, KeyStep DEF Next
<1> QED BY <1>1, <1>4

LEMMA InitKept ==
  ASSUME Init
  PROVE  TypeOK /\ QueueInv /\ IerCurrent
<1>1. \A n \in QueueName : queue[n] = intq_init
  BY DEF Init, QueueName
<1>2. PICK r : r = intq_init
  OBVIOUS
<1>3. PICK b : b = [i \in Slot |-> CHOOSE x \in Byte : TRUE]
  BY ZenonT(30)
<1>4. b \in [Slot -> Byte]
  BY <1>3, IntqAssumption
<1>5. r = [buf |-> b, head |-> 0, tail |-> 0, not_full |-> NULL, not_empty |-> NULL,
           value |-> 1, waiters |-> <<>>]
  BY <1>2, <1>3 DEF intq_init, Slot
<1>6. 0 \in Slot /\ INTQ_BUFSIZE > 1
  BY IntqAssumption DEF Slot
<1>7. \A n \in QueueName : r \in QueueRecord(n)
  <2>1. \A n \in QueueName : <<>> \in Seq(Users(n))
    OBVIOUS
  <2> QED BY <1>4, <1>5, <1>6, <2>1 DEF QueueRecord
<1>8. TypeOK
  <2>1. \A n \in QueueName : queue[n] \in QueueRecord(n)
    BY <1>1, <1>2, <1>7
  <2>2. queue = [n \in QueueName |-> queue[n]] /\ taken = [n \in QueueName |-> taken[n]]
    BY DEF Init, QueueName
  <2>3. /\ pc \in [Caller -> {"own", "lock", "wait"}] /\ \A t \in Writer : pc[t] = "own"
        /\ byte = [t \in Writer |-> byte[t]]
    BY DEF Init, Caller
  <2>4. blocked \subseteq Caller /\ rbr \in Byte \cup {NULL}
    BY ZenonT(30) DEF Init
  <2> QED BY <2>1, <2>2, <2>3, <2>4 DEF TypeOK
<1>9. ASSUME NEW n \in QueueName PROVE Good(n, r, pc, blocked)
  <2>1. Waiter(n, r) = NULL /\ Unused(n, r) = NULL
    BY <1>5, ZenonT(30) DEF Waiter, Unused
  <2>2. r.waiters = <<>> /\ r.value = 1 /\ Len(r.waiters) = 0
    BY <1>5
  <2>3. \A t \in Users(n) : pc[t] = "own" /\ t \notin blocked /\ t # NULL /\ ~In(t, r.waiters)
    <3>1. \A t \in Users(n) : t \in Caller /\ t # NULL
      BY UsersSplit, Zenon
    <3>2. \A t \in Caller : pc[t] = "own" /\ t \notin blocked
      BY DEF Init
    <3>3. \A t : ~In(t, r.waiters)
      BY <2>2 DEF In
    <3> QED BY <3>1, <3>2, <3>3, Zenon
  <2>4. \A i, j \in 1 .. Len(r.waiters) : r.waiters[i] = r.waiters[j] => i = j
    BY <2>2
  <2> QED BY <2>1, <2>2, <2>3, <2>4 DEF Good
<1>10. QueueInv
  BY <1>1, <1>2, <1>9 DEF QueueInv
<1>11. IerCurrent
  BY <1>1, <1>2, <1>5 DEF IerCurrent, Init, write_ier, QueueName
<1> QED BY <1>8, <1>10, <1>11

(* The inductive invariant of the queues: the type invariant, and who      *)
(* holds or waits for each queue's lock.                                   *)
SerialInv == TypeOK /\ QueueInv

(* Every reachable state of serial.c, input.c and intq.c has two           *)
(* well-formed queues, each with one lock holder at most and each naming   *)
(* exactly its blocked threads.                                            *)
THEOREM SerialInductive == Spec => []SerialInv
<1>1. Init => SerialInv
  BY InitKept DEF SerialInv
<1>2. SerialInv /\ [Next]_vars => SerialInv'
  BY StepKept DEF SerialInv, Kept
<1> QED BY <1>1, <1>2, PTL DEF Spec

(* intq.c and serial.c forget no sleeper.                                  *)
THEOREM SleepersNotForgotten == Spec => []SleepersKept
<1>1. ASSUME SerialInv PROVE SleepersKept
  <2>1. ASSUME NEW t \in Caller, NEW s, s = Sleepers(queue[QueueOf(t)]),
               NEW places, places = {i \in DOMAIN s : s[i] = t}
        PROVE  IF t \in blocked THEN \E i \in places : places = {i} ELSE places = {}
    <3>1. PICK n \in QueueName : n = QueueOf(t) /\ t \in Users(n) /\ t # NULL
      BY UsersSplit
    <3>2. PICK q \in QueueRecord(n) : q = queue[n]
      BY <1>1 DEF SerialInv, TypeOK
    <3>3. Good(n, q, pc, blocked)
      BY <1>1, <3>2 DEF SerialInv, QueueInv
    <3>4. PICK w : w = q.waiters
      OBVIOUS
    <3>5. /\ Len(w) \in Nat /\ DOMAIN s = 1 .. 2 + Len(w) /\ s[1] = q.not_full /\ s[2] = q.not_empty
          /\ \A i \in 1 .. Len(w) : s[i + 2] = w[i]
      BY <2>1, <3>1, <3>2, <3>4, SleepersOf, ZenonT(30)
    <3>6. /\ In(t, w) <=> pc[t] = "lock" /\ t \in blocked
          /\ Waiter(n, q) = t <=> pc[t] = "wait" /\ t \in blocked
          /\ t \in blocked => pc[t] # "own"
          /\ \A i, j \in 1 .. Len(w) : w[i] = w[j] => i = j
          /\ Unused(n, q) = NULL
      BY <3>1, <3>3, <3>4 DEF Good
    <3>7. pc[t] \in {"own", "lock", "wait"}
      BY <1>1 DEF SerialInv, TypeOK
    <3>8. \A i \in places : i \in DOMAIN s /\ (i > 2 => In(t, w) /\ i - 2 \in 1 .. Len(w) /\ w[i - 2] = t)
      <4>1. ASSUME NEW i \in places, i > 2 PROVE i - 2 \in 1 .. Len(w) /\ w[i - 2] = t
        <5>1. i \in 1 .. 2 + Len(w) /\ s[i] = t
          BY <2>1, <3>5
        <5>2. i - 2 \in 1 .. Len(w) /\ (i - 2) + 2 = i
          BY <3>5, <4>1, <5>1
        <5> QED BY <3>5, <5>1, <5>2
      <4> QED BY <2>1, <4>1 DEF In
    <3>9. \A i \in 1 .. 2 : i \in places => i \in {1, 2} /\ s[i] = t
      BY <2>1
    <3>10. PICK k \in {1, 2} : s[k] = Waiter(n, q) /\ s[3 - k] = Unused(n, q)
      <4>1. CASE n = "buffer"
        BY <3>5, <4>1 DEF Waiter, Unused
      <4>2. CASE n # "buffer"
        BY <3>5, <4>2, SMTT(30) DEF Waiter, Unused
      <4> QED BY <4>1, <4>2
    <3>11. \A i \in places : i = k \/ (i > 2 /\ i \in 1 .. 2 + Len(w))
      <4>1. \A i \in places : i \in 1 .. 2 + Len(w) /\ s[i] = t
        BY <2>1, <3>5
      <4>2. \A i \in 1 .. 2 + Len(w) : i = k \/ i = 3 - k \/ i > 2
        BY <3>5, <3>10, SMTT(30)
      <4> QED BY <3>1, <3>6, <3>10, <4>1, <4>2, ZenonT(30)
    <3>12. k \in places <=> Waiter(n, q) = t
      BY <2>1, <3>5, <3>10, SMTT(30)
    <3>13. CASE t \notin blocked
      BY <3>6, <3>8, <3>11, <3>12, <3>13
    <3>14. CASE t \in blocked /\ pc[t] = "wait"
      <4>1. k \in places /\ \A i \in places : i = k
        BY <3>6, <3>8, <3>11, <3>12, <3>14
      <4> QED BY <3>14, <4>1, ZenonT(30)
    <3>15. CASE t \in blocked /\ pc[t] = "lock"
      <4>1. PICK j \in 1 .. Len(w) : w[j] = t
        BY <3>6, <3>15 DEF In
      <4>2. j + 2 \in places
        BY <2>1, <3>5, <4>1
      <4>3. ASSUME NEW i \in places PROVE i = j + 2
        <5>1. i > 2 /\ i \in 1 .. 2 + Len(w)
          BY <3>6, <3>11, <3>12, <3>15, <4>3
        <5>2. i - 2 \in 1 .. Len(w) /\ w[i - 2] = t
          BY <3>8, <5>1, ZenonT(30)
        <5>3. i - 2 = j
          BY <3>6, <4>1, <5>2
        <5> QED BY <5>1, <5>3
      <4> QED BY <3>15, <4>2, <4>3
    <3> QED BY <3>6, <3>7, <3>13, <3>14, <3>15
  <2>2. \A n \in QueueName : Good(n, queue[n], pc, blocked)
    BY <1>1, ZenonT(30) DEF SerialInv, QueueInv
  <2>3. /\ queue["buffer"].not_empty # NULL => intq_empty(queue["buffer"])
        /\ queue["txq"].not_full # NULL => intq_full(queue["txq"])
    <3>1. Good("buffer", queue["buffer"], pc, blocked) /\ Good("txq", queue["txq"], pc, blocked)
      BY <2>2, ZenonT(30) DEF QueueName
    <3> QED BY <3>1, ZenonT(30) DEF Good, Waiter, Stuck
  <2>4. ASSUME NEW n \in {"buffer", "txq"}, queue[n].waiters # <<>>
        PROVE  \/ queue[n].value = 0
               \/ \E t \in Caller : QueueOf(t) = n /\ pc[t] = "lock" /\ t \notin blocked
    BY <2>2, <2>4 DEF Good, Users, QueueName
  <2> QED BY <2>1, <2>3, <2>4, ZenonT(30) DEF SleepersKept
<1> QED BY <1>1, SerialInductive, PTL

(* The UART's interrupt enable register never lags behind the queues.      *)
THEOREM RegisterCurrent == Spec => []IerCurrent
<1>1. Init => IerCurrent
  BY InitKept
<1>2. SerialInv /\ IerCurrent /\ [Next]_vars => IerCurrent'
  <2> SUFFICES ASSUME SerialInv, IerCurrent, [Next]_vars PROVE IerCurrent'
    OBVIOUS
  <2>1. IerStep
    BY StepKept DEF SerialInv, Kept
  <2>2. CASE ier' = write_ier(queue')
    BY <2>2 DEF IerCurrent, write_ier
  <2>3. CASE UNCHANGED ier /\ SameData("buffer") /\ (SameData("txq") \/ DrainData("txq"))
    <3>1. intq_full(queue["buffer"])' <=> intq_full(queue["buffer"])
      BY <2>3, ZenonT(30) DEF SameData, intq_full
    <3>2. intq_empty(queue["txq"])' \/ (intq_empty(queue["txq"])' <=> intq_empty(queue["txq"]))
      BY <2>3, ZenonT(30) DEF SameData, DrainData, intq_empty
    <3> QED BY <2>3, <3>1, <3>2 DEF IerCurrent
  <2> QED BY <2>1, <2>2, <2>3 DEF IerStep
<1> QED BY <1>1, <1>2, SerialInductive, PTL DEF Spec
-----------------------------------------------------------------------------
(* What a step does to the bytes of a queue, in the words of module Fifo.  *)
LEMMA FifoStep ==
  ASSUME NEW n \in QueueName, queue[n] \in QueueRecord(n), queue'[n] \in QueueRecord(n), DataStep(n),
         NEW c, NEW d, NEW o, NEW p, c = Contents(queue[n]), d = Contents(queue'[n]),
         o = taken[n], p = taken'[n]
  PROVE  \/ d = c /\ p = o
         \/ c # <<>> /\ p = Head(c) /\ d = Tail(c)
         \/ c # <<>> /\ p = c[Len(c)] /\ d = <<>>
         \/ \E x \in Byte : \/ Len(c) < INTQ_BUFSIZE - 1 /\ d = Append(c, x) /\ p = o
                            \/ Len(c) = INTQ_BUFSIZE - 1 /\ p = Head(c) /\ d = Append(Tail(c), x)
<1>1. PICK q \in QueueRecord(n), r \in QueueRecord(n) : q = queue[n] /\ r = queue'[n]
  OBVIOUS
<1>2. CASE SameData(n)
  <2>1. r.buf = q.buf /\ r.head = q.head /\ r.tail = q.tail /\ p = o
    BY <1>1, <1>2, ZenonT(30) DEF SameData
  <2>2. Contents(r) = Contents(q)
    BY <2>1, ZenonT(30) DEF Contents
  <2> QED BY <1>1, <2>1, <2>2, ZenonT(30)
<1>3. CASE GetData(n)
  <2>1. /\ ~intq_empty(q) /\ r.buf = q.buf /\ r.head = q.head /\ r.tail = next(q.tail)
        /\ p = q.buf[q.tail]
    BY <1>1, <1>3, ZenonT(30) DEF GetData
  <2> QED BY <1>1, <2>1, GetContents, ZenonT(30)
<1>4. CASE DrainData(n)
  <2>1. ~intq_empty(q) /\ intq_empty(r) /\ p = c[Len(c)]
    BY <1>1, <1>4, ZenonT(30) DEF DrainData, intq_empty
  <2> QED BY <1>1, <2>1, EmptyContents, ZenonT(30)
<1>5. ASSUME NEW x \in Byte, PutData(n, x) PROVE Len(c) < INTQ_BUFSIZE - 1 /\ d = Append(c, x) /\ p = o
  <2>1. /\ ~intq_full(q) /\ r.head = next(q.head) /\ r.tail = q.tail /\ p = o
        /\ \A i \in Slot : r.buf[i] = IF i = q.head THEN x ELSE q.buf[i]
    BY <1>1, <1>5, ZenonT(30) DEF PutData
  <2> QED BY <1>1, <2>1, PutContents, ZenonT(30)
<1>6. ASSUME NEW x \in Byte, ExchangeData(n, x)
      PROVE  Len(c) = INTQ_BUFSIZE - 1 /\ p = Head(c) /\ d = Append(Tail(c), x)
  <2>1. /\ intq_full(q) /\ r.head = next(q.head) /\ r.tail = next(q.tail) /\ p = q.buf[q.tail]
        /\ \A i \in Slot : r.buf[i] = IF i = q.head THEN x ELSE q.buf[i]
    BY <1>1, <1>6 DEF ExchangeData
  <2> QED BY <1>1, <2>1, ExchangeContents, ZenonT(60)
<1> QED BY <1>2, <1>3, <1>4, <1>5, <1>6, ZenonT(30) DEF DataStep

LEMMA FifoInit ==
  ASSUME Init, NEW n \in QueueName
  PROVE  Contents(queue[n]) = <<>> /\ taken[n] \notin Byte
<1>1. queue[n] \in QueueRecord(n)
  BY InitKept DEF TypeOK
<1>2. intq_empty(queue[n]) /\ taken[n] = NULL
  BY DEF Init, intq_init, intq_empty, QueueName
<1> QED BY <1>1, <1>2, EmptyContents, IntqAssumption

LEMMA BothQueues ==
  ASSUME SerialInv, [Next]_vars, NEW n \in QueueName
  PROVE  queue[n] \in QueueRecord(n) /\ queue'[n] \in QueueRecord(n) /\ DataStep(n)
BY StepKept DEF SerialInv, TypeOK, Kept

(* The keyboard and the serial line on one side and input_getc() on the    *)
(* other share a bounded first-in first-out buffer: no interleaving of     *)
(* threads and handlers loses, repeats or reorders a byte.                 *)
THEOREM InputQueueFifo == Spec => InputFifo
<1>1. Init => Input!Init
  BY FifoInit, ZenonT(30) DEF Input!Init, QueueName
<1>2. SerialInv /\ [Next]_vars => [Input!Next]_<<Contents(queue["buffer"]), taken["buffer"]>>
  <2> SUFFICES ASSUME SerialInv, [Next]_vars
               PROVE  [Input!Next]_<<Contents(queue["buffer"]), taken["buffer"]>>
    OBVIOUS
  <2>1. PICK c, d, o, p : /\ c = Contents(queue["buffer"]) /\ d = Contents(queue'["buffer"])
                          /\ o = taken["buffer"] /\ p = taken'["buffer"]
    BY ZenonT(30)
  <2>2. \/ d = c /\ p = o
        \/ c # <<>> /\ p = Head(c) /\ d = Tail(c)
        \/ c # <<>> /\ p = c[Len(c)] /\ d = <<>>
        \/ \E x \in Byte : \/ Len(c) < INTQ_BUFSIZE - 1 /\ d = Append(c, x) /\ p = o
                           \/ Len(c) = INTQ_BUFSIZE - 1 /\ p = Head(c) /\ d = Append(Tail(c), x)
    BY <2>1, BothQueues, FifoStep DEF QueueName
  <2> QED BY <2>1, <2>2 DEF Input!Next, Input!Put, Input!Get, Input!Exchange, Input!Drain
<1> QED BY <1>1, <1>2, SerialInductive, PTL DEF Spec, InputFifo, Input!Spec

(* Writers, with interrupts on or off, and the transmit interrupt share    *)
(* such a buffer too.                                                      *)
THEOREM OutputQueueFifo == Spec => OutputFifo
<1>1. Init => Output!Init
  BY FifoInit, ZenonT(30) DEF Output!Init, QueueName
<1>2. SerialInv /\ [Next]_vars => [Output!Next]_<<Contents(queue["txq"]), taken["txq"]>>
  <2> SUFFICES ASSUME SerialInv, [Next]_vars
               PROVE  [Output!Next]_<<Contents(queue["txq"]), taken["txq"]>>
    OBVIOUS
  <2>1. PICK c, d, o, p : /\ c = Contents(queue["txq"]) /\ d = Contents(queue'["txq"])
                          /\ o = taken["txq"] /\ p = taken'["txq"]
    BY ZenonT(30)
  <2>2. \/ d = c /\ p = o
        \/ c # <<>> /\ p = Head(c) /\ d = Tail(c)
        \/ c # <<>> /\ p = c[Len(c)] /\ d = <<>>
        \/ \E x \in Byte : \/ Len(c) < INTQ_BUFSIZE - 1 /\ d = Append(c, x) /\ p = o
                           \/ Len(c) = INTQ_BUFSIZE - 1 /\ p = Head(c) /\ d = Append(Tail(c), x)
    BY <2>1, BothQueues, FifoStep DEF QueueName
  <2> QED BY <2>1, <2>2, ZenonT(30) DEF Output!Next, Output!Put, Output!Get, Output!Exchange, Output!Drain
<1> QED BY <1>1, <1>2, SerialInductive, PTL DEF Spec, OutputFifo, Output!Spec
=============================================================================
