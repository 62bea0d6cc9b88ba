------------------------------ MODULE KernelAgendas -----------------------------
(***************************************************************************)
(* What the kernel's locks, conditions and thread identifiers owe to the   *)
(* order in which a thread runs the frames of the function it is inside:   *)
(* the invariants behind LockToken, HolderNotStolen, SignalNotLost,        *)
(* NoLostWakeup and DistinctTids of module Kernel, and that every step     *)
(* keeps them.                                                             *)
(***************************************************************************)
EXTENDS Kernel, TLAPS

\* What lies under the last frame: the thread's own code.
End == Frame("end", NULL)

(* Frame g, or the thread's own code, may lie directly under frame f of    *)
(* thread t.                                                               *)
Fits(t, f, g) ==
  \/ \E l \in Lock :
       \/ f \in {Frame("sema_down", l), Frame("sema_loop", l)} /\ g = Frame("set_holder", l)
       \/ f = Frame("clear_holder", l) /\ g = Frame("sema_up", l)
  \/ \E l \in ClientLock :
       \/ f \in {Frame("set_holder", l), Frame("sema_try_down", l)} /\ g = End
       \/ f = Frame("sema_up", l) /\ g \in {End, Frame("sema_down", t)}
       \/ f \in {Frame("sema_down", t), Frame("sema_loop", t)} /\ g = Frame("sema_down", l)
  \/ \E u \in Thread :
       \/ f = Frame("set_holder", TidLock) /\ g = Frame("read_tid", u)
       \/ f = Frame("read_tid", u) /\ g = Frame("write_tid", u)
       \/ f = Frame("write_tid", u) /\ g = Frame("clear_holder", TidLock)
       \/ f = Frame("sema_up", TidLock) /\ g = Frame("unblock", u)
       \/ f = Frame("unblock", u) /\ g = End
  \/ \E c \in Condition :
       \/ f = Frame("cond_enqueue", c) /\ g = Frame("clear_holder", LockOf[c])
       \/ f = Frame("cond_signal", c) /\ g \in {End, Frame("cond_broadcast", c)}
       \/ f = Frame("cond_broadcast", c) /\ g = End
       \/ \E u \in Thread : f = Frame("sema_up", u) /\ g \in {End, Frame("cond_broadcast", c)}
  \/ \E s \in Semaphore :
       \/ f \in {Frame("sema_down", s), Frame("sema_loop", s), Frame("sema_try_down", s)}
          /\ g = End
       \/ f = Frame("sema_up", s) /\ g \in {End, Frame("idle_loop", NULL)}
  \/ f = Frame("set_idle", NULL) /\ g = Frame("sema_up", IdleStarted)
  \/ f.op \in {"idle_loop", "hlt", "create", "timer_sleep"} /\ g = End

First(s)    == IF s = <<>> THEN End ELSE Head(s)
Below(s, i) == IF i = Len(s) THEN End ELSE s[i + 1]

ChildOps == {"read_tid", "write_tid", "unblock"}

(* Frames s are what is left of one of the kernel's functions, called by   *)
(* thread t: each lies on one it fits on, all that concern a child concern *)
(* the same one, and cond_wait() sleeps after it has enqueued.             *)
WellFormed(t, s) ==
  /\ \A i \in 1 .. Len(s) : Fits(t, s[i], Below(s, i))
  /\ \A i, j \in 1 .. Len(s) :
       s[i].op \in ChildOps /\ s[j].op \in ChildOps => s[i].arg = s[j].arg
  /\ First(s).op = "cond_enqueue" => \E i \in 1 .. Len(s) : s[i] = Frame("sema_down", t)

AgendaInv == \A t \in Thread : WellFormed(t, agenda[t])

\* The innermost frame of each thread.
now == [t \in Thread |-> First(agenda[t])]

(* The threads that have downed lock l and not yet upped it, as Inside(l). *)
In(t, l) == lock_holder[l] = t \/ now[t] \in {Frame("set_holder", l), Frame("sema_up", l)}

(* One token per lock: its semaphore's unit, or one thread inside.         *)
Token(l) ==
  /\ sema_value[l] \in {0, 1}
  /\ sema_value[l] = 1 => \A t \in Thread : ~In(t, l)
  /\ sema_value[l] = 0 => \E t \in Thread : In(t, l)
  /\ \A t, u \in Thread : In(t, l) /\ In(u, l) => t = u

(* The holder member, seen from the frame a thread is at: lock_release()   *)
(* is called, cond_wait() entered and next_tid used only by the holder,    *)
(* and lock_release() ups the semaphore after it has cleared the member.   *)
HolderInv ==
  \A t \in Thread :
    /\ \A l \in Lock : /\ now[t] = Frame("clear_holder", l) => lock_holder[l] = t
                       /\ now[t] = Frame("sema_up", l) => lock_holder[l] # t
    /\ \A c \in Condition : now[t] = Frame("cond_enqueue", c) => lock_holder[LockOf[c]] = t
    /\ now[t].op \in {"read_tid", "write_tid"} => lock_holder[TidLock] = t

LockInv == HolderInv /\ \A l \in Lock : Token(l)

(* Every identifier in use is below the counter, but that of the child     *)
(* whose creator has read the counter and not yet written it back.         *)
TidInv ==
  /\ next_tid > 0
  /\ \A t \in Thread : status[t] # "FREE" =>
       \/ tid[t] < next_tid
       \/ \E u \in Thread : now[u] = Frame("write_tid", t)
  /\ \A u, t \in Thread : now[u] = Frame("write_tid", t) => tid[t] = next_tid
  /\ DistinctTids

(* A sleeper sleeps in sema_down()'s loop; a thread that is gone is inside *)
(* no function of the kernel.                                              *)
SleepInv ==
  /\ \A s \in Sema, t \in Thread : Waits(t, s) => now[t] = Frame("sema_loop", s)
  /\ \A t \in Thread : status[t] \in {"DYING", "FREE"} => now[t] = End

\* The threads inside cond_wait(), before or in its sema_down().
InCondWait == {t \in Thread : CondWaiting(t)}

Listed(t, c, i) == i \in DOMAIN cond_waiters[c] /\ cond_waiters[c][i] = t

Raises(u, t) == now[u] = Frame("sema_up", t)

\* Thread t has enqueued in cond_wait() and not yet been let go.
Awaits(t) == t \in InCondWait /\ now[t].op # "cond_enqueue"

(* One token per thread in cond_wait(): its place on a list, a signaller   *)
(* about to up its semaphore, or the semaphore's unit.                     *)
OneSignal(t) ==
  /\ sema_value[t] \in {0, 1}
  /\ \A c, d \in Condition : \A i, j \in Nat : Listed(t, c, i) /\ Listed(t, d, j) => c = d /\ i = j
  /\ \A u, v \in Thread : Raises(u, t) /\ Raises(v, t) => u = v
  /\ \A c \in Condition, i \in Nat, u \in Thread : ~(Listed(t, c, i) /\ Raises(u, t))
  /\ sema_value[t] = 1 => /\ \A c \in Condition, i \in Nat : ~Listed(t, c, i)
                          /\ \A u \in Thread : ~Raises(u, t)
  /\ Awaits(t) <=> \/ \E c \in Condition, i \in Nat : Listed(t, c, i)
                   \/ \E u \in Thread : Raises(u, t)
                   \/ sema_value[t] = 1

SignalInv == \A t \in Thread : OneSignal(t)
-----------------------------------------------------------------------------

(* Concatenations of short sequences, element by element.                *)
LEMMA Glue ==
  ASSUME NEW S, NEW s \in Seq(S), NEW t \in Seq(S), NEW r \in Seq(S),
         Len(r) = Len(s) + Len(t),
         \A i \in 1 .. Len(s) : r[i] = s[i],
         \A i \in 1 .. Len(t) : r[Len(s) + i] = t[i]
  PROVE  s \o t = r
<1>1. /\ s \o t \in Seq(S) /\ Len(s \o t) = Len(s) + Len(t)
      /\ \A i \in 1 .. Len(s) + Len(t) : (s \o t)[i] = IF i <= Len(s) THEN s[i] ELSE t[i - Len(s)]
  OBVIOUS
<1>2. ASSUME NEW i \in 1 .. Len(r) PROVE (s \o t)[i] = r[i]
  <2>1. CASE i <= Len(s)
    BY <1>1, <2>1
  <2>2. CASE ~(i <= Len(s))
    <3>1. i - Len(s) \in 1 .. Len(t) /\ Len(s) + (i - Len(s)) = i
      BY <2>2
    <3> QED BY <1>1, <2>2, <3>1, ZenonT(30)
  <2> QED BY <2>1, <2>2
<1> QED BY <1>1, <1>2

(* The concatenations that the kernel's functions are written with.       *)
LEMMA Concat11 ==
  ASSUME NEW S, NEW a \in S, NEW b \in S
  PROVE  <<a>> \o <<b>> = <<a, b>>
<1> DEFINE s == <<a>>
           t == <<b>>
           r == <<a, b>>
<1>1. /\ s \in Seq(S) /\ t \in Seq(S) /\ r \in Seq(S) /\ Len(r) = Len(s) + Len(t)
      /\ \A i \in 1 .. Len(s) : r[i] = s[i]
      /\ \A i \in 1 .. Len(t) : r[Len(s) + i] = t[i]
  <2>1. /\ s \in Seq(S) /\ t \in Seq(S) /\ r \in Seq(S) /\ Len(s) = 1 /\ Len(t) = 1 /\ Len(r) = 2
        /\ s[1] = a /\ t[1] = b /\ r[1] = a /\ r[2] = b
    OBVIOUS
  <2> HIDE DEF s, t, r
  <2> QED BY <2>1
<1> HIDE DEF s, t, r
<1>2. s \o t = r
  BY <1>1, Glue, SMTT(30)
<1> QED BY <1>2 DEF s, t, r

LEMMA Concat12 ==
  ASSUME NEW S, NEW a \in S, NEW b \in S, NEW c \in S
  PROVE  <<a>> \o <<b, c>> = <<a, b, c>>
<1> DEFINE s == <<a>>
           t == <<b, c>>
           r == <<a, b, c>>
<1>1. /\ s \in Seq(S) /\ t \in Seq(S) /\ r \in Seq(S) /\ Len(r) = Len(s) + Len(t)
      /\ \A i \in 1 .. Len(s) : r[i] = s[i]
      /\ \A i \in 1 .. Len(t) : r[Len(s) + i] = t[i]
  OBVIOUS
<1> HIDE DEF s, t, r
<1>2. s \o t = r
  BY <1>1, Glue, SMTT(30)
<1> QED BY <1>2 DEF s, t, r

LEMMA Concat22 ==
  ASSUME NEW S, NEW a \in S, NEW b \in S, NEW c \in S, NEW d \in S
  PROVE  <<a, b>> \o <<c, d>> = <<a, b, c, d>>
<1> DEFINE s == <<a, b>>
           t == <<c, d>>
           r == <<a, b, c, d>>
<1>1. /\ s \in Seq(S) /\ t \in Seq(S) /\ r \in Seq(S) /\ Len(r) = Len(s) + Len(t)
      /\ \A i \in 1 .. Len(s) : r[i] = s[i]
      /\ \A i \in 1 .. Len(t) : r[Len(s) + i] = t[i]
  OBVIOUS
<1> HIDE DEF s, t, r
<1>2. s \o t = r
  BY <1>1, Glue, ZenonT(30)
<1> QED BY <1>2 DEF s, t, r

LEMMA Concat31 ==
  ASSUME NEW S, NEW a \in S, NEW b \in S, NEW c \in S, NEW d \in S
  PROVE  <<a, b, c>> \o <<d>> = <<a, b, c, d>>
<1> DEFINE s == <<a, b, c>>
           t == <<d>>
           r == <<a, b, c, d>>
<1>1. /\ s \in Seq(S) /\ t \in Seq(S) /\ r \in Seq(S) /\ Len(r) = Len(s) + Len(t)
      /\ \A i \in 1 .. Len(s) : r[i] = s[i]
      /\ \A i \in 1 .. Len(t) : r[Len(s) + i] = t[i]
  OBVIOUS
<1> HIDE DEF s, t, r
<1>2. s \o t = r
  BY <1>1, Glue, SMTT(30)
<1> QED BY <1>2 DEF s, t, r

LEMMA Concat42 ==
  ASSUME NEW S, NEW a \in S, NEW b \in S, NEW c \in S, NEW d \in S, NEW e \in S, NEW f \in S
  PROVE  <<a, b, c, d>> \o <<e, f>> = <<a, b, c, d, e, f>>
<1> DEFINE s == <<a, b, c, d>>
           t == <<e, f>>
           r == <<a, b, c, d, e, f>>
<1>1. /\ s \in Seq(S) /\ t \in Seq(S) /\ r \in Seq(S) /\ Len(r) = Len(s) + Len(t)
      /\ \A i \in 1 .. Len(s) : r[i] = s[i]
      /\ \A i \in 1 .. Len(t) : r[Len(s) + i] = t[i]
  OBVIOUS
<1> HIDE DEF s, t, r
<1>2. s \o t = r
  BY <1>1, Glue, ZenonT(30)
<1> QED BY <1>2 DEF s, t, r

LEMMA EmptyOrNot ==
  ASSUME NEW S, NEW s \in Seq(S)
  PROVE  /\ Len(s) \in Nat /\ (s = <<>> <=> Len(s) = 0)
         /\ s # <<>> => /\ Head(s) = s[1] /\ Tail(s) \in Seq(S) /\ Len(Tail(s)) = Len(s) - 1
                        /\ \A i \in 1 .. Len(s) - 1 : Tail(s)[i] = s[i + 1]
<1>1. Len(s) \in Nat /\ (s = <<>> <=> Len(s) = 0)
  OBVIOUS
<1>2. ASSUME s # <<>>
      PROVE  /\ Head(s) = s[1] /\ Tail(s) \in Seq(S) /\ Len(Tail(s)) = Len(s) - 1
             /\ \A i \in 1 .. Len(s) - 1 : Tail(s)[i] = s[i + 1]
  BY <1>2
<1> QED BY <1>1, <1>2

(* The last frame is followed by the thread's own code, the others by a    *)
(* frame.                                                                  *)
LEMMA FitsFrames ==
  ASSUME NEW t \in Thread, NEW f, NEW g, Fits(t, f, g)
  PROVE  g.op \notin {"cond_enqueue", "sema_loop", "create", "set_idle", "hlt", "timer_sleep",
                      "cond_signal", "sema_try_down"}
BY DEF Fits, End, Frame

(* A function goes on: what is left of it is well formed.                  *)
LEMMA PopWellFormed ==
  ASSUME NEW t \in Thread, NEW s \in Seq(Frames), s # <<>>, WellFormed(t, s)
  PROVE  WellFormed(t, Tail(s)) /\ Fits(t, Head(s), First(Tail(s)))
<1> DEFINE r == Tail(s)
<1>1. /\ r \in Seq(Frames) /\ Len(s) \in Nat \ {0} /\ Len(r) = Len(s) - 1 /\ Head(s) = s[1]
      /\ \A i \in 1 .. Len(r) : r[i] = s[i + 1]
  BY EmptyOrNot
<1> HIDE DEF r
<1>2. /\ \A i \in 1 .. Len(s) : Fits(t, s[i], Below(s, i))
      /\ \A i, j \in 1 .. Len(s) :
           s[i].op \in ChildOps /\ s[j].op \in ChildOps => s[i].arg = s[j].arg
  BY DEF WellFormed
<1>3. \A i \in 1 .. Len(r) : i + 1 \in 1 .. Len(s) /\ Below(r, i) = Below(s, i + 1)
  BY <1>1 DEF Below
<1>4. First(r) = Below(s, 1)
  <2>1. CASE Len(s) = 1
    BY <1>1, <2>1, EmptyOrNot DEF First, Below
  <2>2. CASE Len(s) # 1
    <3>1. r # <<>> /\ Head(r) = r[1] /\ r[1] = s[1 + 1] /\ 1 + 1 = 2
      BY <1>1, <2>2, EmptyOrNot
    <3> QED BY <2>2, <3>1 DEF First, Below
  <2> QED BY <2>1, <2>2
<1>5. Fits(t, s[1], First(r))
  BY <1>1, <1>2, <1>4
<1>6. First(r).op # "cond_enqueue"
  BY <1>5, FitsFrames
<1>7. \A i \in 1 .. Len(r) : Fits(t, r[i], Below(r, i))
  BY <1>1, <1>2, <1>3
<1>8. \A i, j \in 1 .. Len(r) :
         r[i].op \in ChildOps /\ r[j].op \in ChildOps => r[i].arg = r[j].arg
  BY <1>1, <1>2, <1>3, SMTT(30)
<1>9. WellFormed(t, r)
  BY <1>6, <1>7, <1>8 DEF WellFormed
<1> QED BY <1>1, <1>5, <1>9 DEF r

(* A function replaces the frame it is at by one that fits as well.        *)
LEMMA ReplaceWellFormed ==
  ASSUME NEW t \in Thread, NEW s \in Seq(Frames), s # <<>>, WellFormed(t, s),
         NEW f \in Frames, f.op \notin ChildOps \cup {"cond_enqueue"},
         \A g : Fits(t, Head(s), g) => Fits(t, f, g)
  PROVE  LET r == [s EXCEPT ![1] = f]
         IN  WellFormed(t, r) /\ r \in Seq(Frames) /\ First(r) = f
<1> DEFINE r == [s EXCEPT ![1] = f]
<1>1. /\ r \in Seq(Frames) /\ Len(s) \in Nat \ {0} /\ Len(r) = Len(s) /\ Head(s) = s[1]
      /\ r # <<>> /\ Head(r) = f /\ r[1] = f
      /\ \A i \in 1 .. Len(s) : i # 1 => r[i] = s[i]
  BY EmptyOrNot
<1> HIDE DEF r
<1>2. \A i \in 1 .. Len(s) : Below(r, i) = Below(s, i)
  BY <1>1 DEF Below
<1>3. \A i \in 1 .. Len(r) : Fits(t, r[i], Below(r, i))
  <2> TAKE i \in 1 .. Len(r)
  <2>1. Fits(t, s[i], Below(s, i))
    BY <1>1 DEF WellFormed
  <2> QED BY <1>1, <1>2, <2>1
<1>4. \A i, j \in 1 .. Len(r) :
         r[i].op \in ChildOps /\ r[j].op \in ChildOps => r[i].arg = r[j].arg
  <2> TAKE i, j \in 1 .. Len(r)
  <2>1. s[i].op \in ChildOps /\ s[j].op \in ChildOps => s[i].arg = s[j].arg
    BY <1>1 DEF WellFormed
  <2> QED BY <1>1, <2>1
<1>5. First(r) = f
  BY <1>1 DEF First
<1>6. WellFormed(t, r)
  BY <1>3, <1>4, <1>5 DEF WellFormed
<1> QED BY <1>1, <1>5, <1>6 DEF r

(* A call puts one frame on an agenda.                                     *)
LEMMA OneFrame ==
  ASSUME NEW t \in Thread, NEW f \in Frames, f.op # "cond_enqueue", Fits(t, f, End)
  PROVE  WellFormed(t, <<f>>) /\ First(<<f>>) = f
<1>1. Len(<<f>>) = 1 /\ <<f>>[1] = f /\ Head(<<f>>) = f /\ <<f>> # <<>>
  OBVIOUS
<1>2. \A i \in 1 .. 1 : Below(<<f>>, i) = End /\ i = 1
  BY <1>1 DEF Below
<1> QED BY <1>1, <1>2 DEF WellFormed, First
LEMMA EndIsNoFrame == End \notin Frames
BY DEF End, Frame, Frames, Op

(* Under a frame that fits only on the thread's own code lies nothing.     *)
LEMMA NothingUnder ==
  ASSUME NEW t \in Thread, NEW s \in Seq(Frames), s # <<>>, WellFormed(t, s),
         \A g : Fits(t, Head(s), g) => g = End
  PROVE  Tail(s) = <<>> /\ s = <<Head(s)>>
<1>1. First(Tail(s)) = End
  BY PopWellFormed
<1>2. Tail(s) \in Seq(Frames) /\ (Tail(s) # <<>> => Head(Tail(s)) \in Frames)
  BY EmptyOrNot
<1>3. Tail(s) = <<>>
  BY <1>1, <1>2, EndIsNoFrame DEF First
<1>4. Len(s) = 1 /\ s[1] = Head(s)
  <2>1. Len(Tail(s)) = 0
    BY <1>2, <1>3, EmptyOrNot, ZenonT(30)
  <2> QED BY <2>1, EmptyOrNot
<1>5. s = <<Head(s)>>
  BY <1>4
<1> QED BY <1>3, <1>5

(* lock_acquire(), lock_release() and a turn of cond_broadcast()'s loop.   *)
LEMMA TwoFrames ==
  ASSUME NEW t \in Thread, NEW f \in Frames, NEW g \in Frames,
         f.op \notin ChildOps \cup {"cond_enqueue"}, Fits(t, f, g), Fits(t, g, End)
  PROVE  WellFormed(t, <<f, g>>) /\ First(<<f, g>>) = f /\ <<f, g>> \in Seq(Frames)
<1> DEFINE s == <<f, g>>
<1>1. Len(s) = 2 /\ s[1] = f /\ s[2] = g /\ Head(s) = f /\ s # <<>> /\ s \in Seq(Frames)
  OBVIOUS
<1> HIDE DEF s
<1>2. Below(s, 1) = g /\ Below(s, 2) = End /\ First(s) = f
  BY <1>1 DEF Below, First
<1>3. 1 .. Len(s) = {1, 2}
  BY <1>1
<1>4. \A i \in 1 .. Len(s) : Fits(t, s[i], Below(s, i))
  BY <1>1, <1>2, <1>3
<1>5. \A i, j \in 1 .. Len(s) :
         s[i].op \in ChildOps /\ s[j].op \in ChildOps => s[i].arg = s[j].arg
  BY <1>1, <1>3
<1> QED BY <1>1, <1>2, <1>4, <1>5 DEF WellFormed, s

(* The frames of cond_wait().                                              *)
LEMMA CondWaitFrames ==
  ASSUME NEW c \in Condition, NEW l \in ClientLock, current \in Thread
  PROVE  cond_wait(c, l) = <<Frame("cond_enqueue", c), Frame("clear_holder", l), Frame("sema_up", l),
                             Frame("sema_down", current), Frame("sema_down", l), Frame("set_holder", l)>>
<1>1. /\ Frame("cond_enqueue", c) \in Frames /\ Frame("clear_holder", l) \in Frames
      /\ Frame("sema_up", l) \in Frames /\ Frame("sema_down", current) \in Frames
      /\ Frame("sema_down", l) \in Frames /\ Frame("set_holder", l) \in Frames
  BY DEF Frame, Frames, Op, Sema, ClientLock
<1>2. <<Frame("cond_enqueue", c)>> \o lock_release(l)
        = <<Frame("cond_enqueue", c), Frame("clear_holder", l), Frame("sema_up", l)>>
  BY <1>1, Concat12 DEF lock_release
<1>3. <<Frame("cond_enqueue", c), Frame("clear_holder", l), Frame("sema_up", l)>>
          \o <<Frame("sema_down", current)>>
        = <<Frame("cond_enqueue", c), Frame("clear_holder", l), Frame("sema_up", l),
            Frame("sema_down", current)>>
  BY ONLY <1>1, Concat31
<1>4. <<Frame("cond_enqueue", c), Frame("clear_holder", l), Frame("sema_up", l),
        Frame("sema_down", current)>> \o <<Frame("sema_down", l), Frame("set_holder", l)>>
        = <<Frame("cond_enqueue", c), Frame("clear_holder", l), Frame("sema_up", l),
            Frame("sema_down", current), Frame("sema_down", l), Frame("set_holder", l)>>
  BY ONLY <1>1, Concat42
<1> QED BY <1>2, <1>3, <1>4, Zenon DEF cond_wait, lock_acquire

LEMMA CondWaitWellFormed ==
  ASSUME NEW c \in Condition, current \in Thread
  PROVE  LET s == cond_wait(c, LockOf[c])
         IN  /\ WellFormed(current, s) /\ First(s) = Frame("cond_enqueue", c) /\ s \in Seq(Frames)
             /\ \E i \in DOMAIN s : s[i] = Frame("sema_down", current)
<1> DEFINE l == LockOf[c]
           t == current
           s == <<Frame("cond_enqueue", c), Frame("clear_holder", l), Frame("sema_up", l),
                  Frame("sema_down", t), Frame("sema_down", l), Frame("set_holder", l)>>
<1>0. l \in ClientLock /\ l \in Lock /\ t \in Thread
  BY KernelAssumption, ZenonT(30) DEF ClientLock
<1> HIDE DEF l
<1>1. /\ Frame("cond_enqueue", c) \in Frames /\ Frame("clear_holder", l) \in Frames
      /\ Frame("sema_up", l) \in Frames /\ Frame("sema_down", t) \in Frames
      /\ Frame("sema_down", l) \in Frames /\ Frame("set_holder", l) \in Frames
  BY <1>0 DEF Frame, Frames, Op, Sema
<1>2. /\ s \in Seq(Frames) /\ Len(s) = 6 /\ Head(s) = Frame("cond_enqueue", c) /\ s # <<>>
      /\ s[1] = Frame("cond_enqueue", c) /\ s[2] = Frame("clear_holder", l)
      /\ s[3] = Frame("sema_up", l) /\ s[4] = Frame("sema_down", t)
      /\ s[5] = Frame("sema_down", l) /\ s[6] = Frame("set_holder", l)
      /\ DOMAIN s = 1 .. 6 /\ First(s) = Frame("cond_enqueue", c)
  BY <1>1 DEF First
<1>3. s = cond_wait(c, l)
  BY <1>0, CondWaitFrames
<1> HIDE DEF s
<1>4. /\ Fits(t, Frame("cond_enqueue", c), Frame("clear_holder", l))
      /\ Fits(t, Frame("clear_holder", l), Frame("sema_up", l))
      /\ Fits(t, Frame("sema_up", l), Frame("sema_down", t))
      /\ Fits(t, Frame("sema_down", t), Frame("sema_down", l))
      /\ Fits(t, Frame("sema_down", l), Frame("set_holder", l))
      /\ Fits(t, Frame("set_holder", l), End)
  BY <1>0, ZenonT(30) DEF Fits, l
<1>5. /\ Below(s, 1) = s[2] /\ Below(s, 2) = s[3] /\ Below(s, 3) = s[4]
      /\ Below(s, 4) = s[5] /\ Below(s, 5) = s[6] /\ Below(s, 6) = End
  BY <1>2 DEF Below
<1>6. 1 .. Len(s) = {1, 2, 3, 4, 5, 6}
  BY <1>2
<1>7. \A i \in 1 .. Len(s) : Fits(t, s[i], Below(s, i))
  BY <1>2, <1>4, <1>5, <1>6
<1>8. \A i \in 1 .. Len(s) : s[i].op \notin ChildOps
  BY <1>2, <1>6 DEF ChildOps, Frame
<1>9. WellFormed(t, s)
  BY <1>2, <1>7, <1>8 DEF WellFormed
<1> QED BY <1>2, <1>3, <1>9 DEF l

(* The frames of thread_create() once it has a page.                       *)
LEMMA CreateWellFormed ==
  ASSUME NEW t \in Thread, NEW u \in Thread
  PROVE  LET s == allocate_tid(u) \o <<Frame("unblock", u)>> \o <<>>
         IN  /\ WellFormed(t, s) /\ First(s) = Frame("sema_down", TidLock) /\ s \in Seq(Frames)
             /\ \A i \in DOMAIN s : s[i].op \in {"sema_down", "sema_loop"} => s[i].arg = TidLock
<1> DEFINE l == TidLock
           s == <<Frame("sema_down", l), Frame("set_holder", l), Frame("read_tid", u),
                  Frame("write_tid", u), Frame("clear_holder", l), Frame("sema_up", l),
                  Frame("unblock", u)>>
<1>0. l \in Lock
  BY KernelAssumption, ZenonT(30)
<1>1. /\ Frame("sema_down", l) \in Frames /\ Frame("set_holder", l) \in Frames
      /\ Frame("read_tid", u) \in Frames /\ Frame("write_tid", u) \in Frames
      /\ Frame("clear_holder", l) \in Frames /\ Frame("sema_up", l) \in Frames
      /\ Frame("unblock", u) \in Frames
  BY <1>0 DEF Frame, Frames, Op, Sema
<1>2. /\ s \in Seq(Frames) /\ Len(s) = 7 /\ Head(s) = Frame("sema_down", l) /\ s # <<>>
      /\ s[1] = Frame("sema_down", l) /\ s[2] = Frame("set_holder", l)
      /\ s[3] = Frame("read_tid", u) /\ s[4] = Frame("write_tid", u)
      /\ s[5] = Frame("clear_holder", l) /\ s[6] = Frame("sema_up", l) /\ s[7] = Frame("unblock", u)
      /\ DOMAIN s = 1 .. 7 /\ First(s) = Frame("sema_down", l)
  BY <1>1 DEF First
<1>3. s = allocate_tid(u) \o <<Frame("unblock", u)>> \o <<>>
  <2>1. lock_acquire(TidLock) \o <<Frame("read_tid", u), Frame("write_tid", u)>>
          = <<Frame("sema_down", l), Frame("set_holder", l), Frame("read_tid", u), Frame("write_tid", u)>>
    BY <1>1, Concat22 DEF lock_acquire
  <2>2. <<Frame("sema_down", l), Frame("set_holder", l), Frame("read_tid", u), Frame("write_tid", u)>>
          \o <<Frame("clear_holder", l), Frame("sema_up", l)>>
        = <<Frame("sema_down", l), Frame("set_holder", l), Frame("read_tid", u),
            Frame("write_tid", u), Frame("clear_holder", l), Frame("sema_up", l)>>
    BY ONLY <1>1, Concat42
  <2>3. <<Frame("sema_down", l), Frame("set_holder", l), Frame("read_tid", u),
          Frame("write_tid", u), Frame("clear_holder", l), Frame("sema_up", l)>>
          \o <<Frame("unblock", u)>>
        = <<Frame("sema_down", l), Frame("set_holder", l), Frame("read_tid", u), Frame("write_tid", u),
            Frame("clear_holder", l), Frame("sema_up", l), Frame("unblock", u)>>
    <3> DEFINE p == <<Frame("sema_down", l), Frame("set_holder", l), Frame("read_tid", u),
                      Frame("write_tid", u), Frame("clear_holder", l), Frame("sema_up", l)>>
               q == <<Frame("unblock", u)>>
    <3>1. /\ p \in Seq(Frames) /\ q \in Seq(Frames) /\ Len(s) = Len(p) + Len(q)
          /\ \A i \in 1 .. Len(p) : s[i] = p[i]
          /\ \A i \in 1 .. Len(q) : s[Len(p) + i] = q[i]
      BY <1>1
    <3> HIDE DEF p, q, s
    <3>2. p \o q = s
      BY <1>2, <3>1, Glue, ZenonT(30)
    <3> QED BY <3>2 DEF p, q, s
  <2>4. allocate_tid(u) \o <<Frame("unblock", u)>> = s
    BY <2>1, <2>2, <2>3, Zenon DEF allocate_tid, lock_release
  <2>5. s \o <<>> = s
    BY <1>2, SMTT(30)
  <2> QED BY <2>4, <2>5, ZenonT(30)
<1> HIDE DEF s
<1>4. /\ Fits(t, Frame("sema_down", l), Frame("set_holder", l))
      /\ Fits(t, Frame("set_holder", l), Frame("read_tid", u))
      /\ Fits(t, Frame("read_tid", u), Frame("write_tid", u))
      /\ Fits(t, Frame("write_tid", u), Frame("clear_holder", l))
      /\ Fits(t, Frame("clear_holder", l), Frame("sema_up", l))
      /\ Fits(t, Frame("sema_up", l), Frame("unblock", u))
      /\ Fits(t, Frame("unblock", u), End)
  BY <1>0, ZenonT(30) DEF Fits
<1>5. /\ Below(s, 1) = s[2] /\ Below(s, 2) = s[3] /\ Below(s, 3) = s[4]
      /\ Below(s, 4) = s[5] /\ Below(s, 5) = s[6] /\ Below(s, 6) = s[7] /\ Below(s, 7) = End
  BY <1>2 DEF Below
<1>6. 1 .. Len(s) = {1, 2, 3, 4, 5, 6, 7}
  BY <1>2
<1>7. \A i \in 1 .. Len(s) : Fits(t, s[i], Below(s, i))
  BY <1>2, <1>4, <1>5, <1>6
<1>8. \A i \in 1 .. Len(s) : s[i].op \in ChildOps => s[i].arg = u
  BY <1>2, <1>6 DEF ChildOps, Frame
<1>9. WellFormed(t, s)
  BY <1>2, <1>7, <1>8 DEF WellFormed, Frame
<1>10. \A i \in DOMAIN s : s[i].op \in {"sema_down", "sema_loop"} => s[i].arg = TidLock
  BY <1>2, <1>6 DEF Frame
<1> QED BY <1>2, <1>3, <1>9, <1>10, SMTT(30)
-----------------------------------------------------------------------------
(* What a step does to the running thread's agenda, and to what the        *)
(* invariants see of it.                                                   *)

\* Frames s of thread t include the sema_down() of cond_wait().
SleepFrames(t) == {Frame("sema_down", t), Frame("sema_loop", t)}
SleepsIn(t, s) == \E i \in DOMAIN s : s[i] \in SleepFrames(t)

LEMMA ContinueView ==
  ASSUME TypeOK, AgendaInv, NEW frames \in Seq(Frames), WellFormed(current, frames),
         Continue(frames)
  PROVE  /\ AgendaInv' /\ now' = [now EXCEPT ![current] = First(frames)]
         /\ InCondWait' = IF SleepsIn(current, frames) THEN InCondWait \cup {current}
                          ELSE InCondWait \ {current}
<1>1. /\ current \in Thread /\ agenda \in [Thread -> Seq(Frames)]
      /\ agenda' = [agenda EXCEPT ![current] = frames]
  BY DEF TypeOK, Continue
<1>2. agenda'[current] = frames /\ \A t \in Thread : t # current => agenda'[t] = agenda[t]
  BY <1>1
<1>3. AgendaInv'
  BY <1>2 DEF AgendaInv
<1>4. now' = [now EXCEPT ![current] = First(frames)]
  BY <1>1, <1>2, ZenonT(30) DEF now
<1>5. \A t \in Thread : CondWaiting(t)' <=> IF t = current THEN SleepsIn(current, frames)
                                            ELSE CondWaiting(t)
  BY <1>1, <1>2 DEF CondWaiting, SleepsIn, SleepFrames
<1>6. InCondWait' = IF SleepsIn(current, frames) THEN InCondWait \cup {current}
                    ELSE InCondWait \ {current}
  BY <1>1, <1>5 DEF InCondWait
<1> QED BY <1>3, <1>4, <1>6

LEMMA Disjoint ==
  /\ \A l \in Lock : l \notin Thread /\ l \notin Semaphore /\ l # NULL
  /\ \A s \in Semaphore : s \notin Thread
  /\ \A l \in ClientLock : l \in Lock /\ l # TidLock
BY SynchAssumption, KernelAssumption, ZenonT(30) DEF ClientLock

(* After its sema_down() cond_wait() acquires the lock again.              *)
LEMMA FitsSleep ==
  ASSUME NEW t \in Thread, NEW f \in SleepFrames(t), NEW g, Fits(t, f, g)
  PROVE  \E l \in ClientLock : g = Frame("sema_down", l)
<1>1. f.op \in {"sema_down", "sema_loop"} /\ f.arg = t
  BY DEF SleepFrames, Frame
<1>2. CASE \E l \in ClientLock : f \in SleepFrames(t) /\ g = Frame("sema_down", l)
  BY <1>2
<1> QED BY <1>1, <1>2, Disjoint DEF Fits, Frame, SleepFrames

(* Only cond_wait()'s own frames hold its sema_down().                     *)
LEMMA OneSleepFrame ==
  ASSUME NEW t \in Thread, NEW s \in Seq(Frames), s # <<>>, WellFormed(t, s)
  PROVE  SleepsIn(t, Tail(s)) <=> SleepsIn(t, s) /\ Head(s) \notin SleepFrames(t)
<1> DEFINE r == Tail(s)
<1>1. /\ r \in Seq(Frames) /\ Len(s) \in Nat \ {0} /\ Len(r) = Len(s) - 1 /\ Head(s) = s[1]
      /\ \A i \in 1 .. Len(r) : r[i] = s[i + 1]
      /\ DOMAIN r = 1 .. Len(r) /\ DOMAIN s = 1 .. Len(s)
  BY EmptyOrNot
<1>2. WellFormed(t, r) /\ Fits(t, Head(s), First(r))
  BY PopWellFormed
<1> HIDE DEF r
<1>3. ASSUME Head(s) \notin SleepFrames(t)
      PROVE  SleepsIn(t, r) <=> SleepsIn(t, s)
  <2>1. ASSUME SleepsIn(t, r) PROVE SleepsIn(t, s)
    <3>1. PICK i \in 1 .. Len(r) : r[i] \in SleepFrames(t)
      BY <1>1, <2>1 DEF SleepsIn
    <3>2. i + 1 \in 1 .. Len(s) /\ s[i + 1] \in SleepFrames(t)
      BY <1>1, <3>1
    <3> QED BY <1>1, <3>2 DEF SleepsIn
  <2>2. ASSUME SleepsIn(t, s) PROVE SleepsIn(t, r)
    <3>1. PICK i \in 1 .. Len(s) : s[i] \in SleepFrames(t)
      BY <1>1, <2>2 DEF SleepsIn
    <3>2. i # 1
      BY <1>1, <1>3, <3>1
    <3>3. i - 1 \in 1 .. Len(r) /\ (i - 1) + 1 = i
      BY <1>1, <3>2
    <3>4. r[i - 1] = s[i]
      BY <1>1, <3>3
    <3> QED BY <1>1, <3>1, <3>3, <3>4 DEF SleepsIn
  <2> QED BY <2>1, <2>2
<1>4. ASSUME Head(s) \in SleepFrames(t)
      PROVE  ~SleepsIn(t, r)
  <2>1. PICK l \in ClientLock : First(r) = Frame("sema_down", l)
    BY <1>2, <1>4, FitsSleep
  <2>2. r # <<>> /\ Head(r) = Frame("sema_down", l)
    BY <2>1 DEF First, End, Frame
  <2>3. WellFormed(t, Tail(r)) /\ Fits(t, Frame("sema_down", l), First(Tail(r))) /\ Tail(r) \in Seq(Frames)
    BY <1>1, <1>2, <2>2, PopWellFormed, EmptyOrNot
  <2>4. First(Tail(r)) = Frame("set_holder", l)
    BY <2>3, Disjoint, ZenonT(30) DEF Fits, Frame, ClientLock
  <2>5. Tail(r) # <<>> /\ Head(Tail(r)) = Frame("set_holder", l)
    BY <2>4 DEF First, End, Frame
  <2>6. \A g : Fits(t, Frame("set_holder", l), g) => g = End
    BY ZenonT(30) DEF Fits, Frame, ClientLock
  <2>7. Tail(r) = <<Frame("set_holder", l)>>
    BY <2>3, <2>5, <2>6, NothingUnder, ZenonT(30)
  <2>8. Len(r) = 2 /\ r[1] = Frame("sema_down", l) /\ r[2] = Frame("set_holder", l)
    <3> DEFINE q == <<Frame("set_holder", l)>>
    <3>0. Len(q) = 1 /\ q[1] = Frame("set_holder", l)
      OBVIOUS
    <3> HIDE DEF q
    <3>1. Len(Tail(r)) = 1 /\ Tail(r)[1] = Frame("set_holder", l)
      BY <2>7, <3>0, Zenon DEF q
    <3>2. /\ Len(r) \in Nat \ {0} /\ Len(Tail(r)) = Len(r) - 1 /\ Head(r) = r[1]
          /\ \A i \in 1 .. Len(r) - 1 : Tail(r)[i] = r[i + 1]
      BY <1>1, <2>2, EmptyOrNot
    <3>3. Len(r) = 2 /\ Tail(r)[1] = r[1 + 1] /\ 1 + 1 = 2
      BY <3>1, <3>2
    <3> QED BY <2>2, <3>1, <3>2, <3>3, ZenonT(30)
  <2>9. \A i \in DOMAIN r : r[i] \notin SleepFrames(t)
    <3>1. l # t
      BY SynchAssumption DEF ClientLock
    <3>2. \A i \in 1 .. Len(r) : i = 1 \/ i = 2
      BY <2>8
    <3> QED BY <1>1, <2>8, <3>1, <3>2 DEF SleepFrames, Frame
  <2> QED BY <2>9 DEF SleepsIn
<1>5. SleepsIn(t, r) <=> SleepsIn(t, s) /\ Head(s) \notin SleepFrames(t)
  BY <1>3, <1>4
<1> QED BY <1>5 DEF r

(* The running thread is through with a frame.                             *)
LEMMA PopView ==
  ASSUME TypeOK, AgendaInv, agenda[current] # <<>>, Continue(Under(current))
  PROVE  /\ AgendaInv' /\ now[current] = Top(current)
         /\ \E g : Fits(current, now[current], g) /\ now' = [now EXCEPT ![current] = g]
         /\ InCondWait' = IF now[current] \in SleepFrames(current) THEN InCondWait \ {current}
                          ELSE InCondWait
<1> DEFINE s == agenda[current]
<1>1. current \in Thread /\ s \in Seq(Frames) /\ s # <<>> /\ WellFormed(current, s)
  BY DEF TypeOK, AgendaInv
<1>2. Tail(s) \in Seq(Frames) /\ WellFormed(current, Tail(s)) /\ Fits(current, Head(s), First(Tail(s)))
  BY <1>1, PopWellFormed, EmptyOrNot
<1>3. now[current] = Top(current) /\ Top(current) = Head(s) /\ Under(current) = Tail(s)
  BY <1>1 DEF now, Top, First, Under
<1>4. /\ AgendaInv' /\ now' = [now EXCEPT ![current] = First(Tail(s))]
      /\ InCondWait' = IF SleepsIn(current, Tail(s)) THEN InCondWait \cup {current}
                       ELSE InCondWait \ {current}
  BY <1>2, <1>3, ContinueView, ZenonT(30)
<1>5. SleepsIn(current, Tail(s)) <=> SleepsIn(current, s) /\ Head(s) \notin SleepFrames(current)
  BY <1>1, OneSleepFrame
<1>6. current \in InCondWait <=> SleepsIn(current, s)
  BY <1>1 DEF InCondWait, CondWaiting, SleepsIn, SleepFrames
<1>7. Head(s) \in SleepFrames(current) => SleepsIn(current, s)
  <2>1. Head(s) = s[1] /\ 1 \in DOMAIN s
    BY <1>1, EmptyOrNot
  <2> QED BY <2>1 DEF SleepsIn
<1>8. InCondWait' = IF now[current] \in SleepFrames(current) THEN InCondWait \ {current}
                    ELSE InCondWait
  BY <1>3, <1>4, <1>5, <1>6, <1>7, ZenonT(30)
<1> QED BY <1>2, <1>3, <1>4, <1>8, ZenonT(30)

(* The running thread replaces the frame it is at.                         *)
LEMMA BecomeView ==
  ASSUME TypeOK, AgendaInv, agenda[current] # <<>>, NEW op, NEW arg, Become(op, arg),
         Frame(op, arg) \in Frames, op \notin ChildOps \cup {"cond_enqueue"},
         \A g : Fits(current, Top(current), g) => Fits(current, Frame(op, arg), g),
         Frame(op, arg) \in SleepFrames(current) <=> Top(current) \in SleepFrames(current)
  PROVE  /\ AgendaInv' /\ now[current] = Top(current)
         /\ now' = [now EXCEPT ![current] = Frame(op, arg)]
         /\ InCondWait' = InCondWait
<1> DEFINE s == agenda[current]
           f == Frame(op, arg)
           r == [s EXCEPT ![1] = f]
<1>1. current \in Thread /\ s \in Seq(Frames) /\ s # <<>> /\ WellFormed(current, s)
  BY DEF TypeOK, AgendaInv
<1>2. f.op = op /\ Top(current) = Head(s) /\ now[current] = Head(s)
  BY <1>1 DEF Frame, Top, now, First
<1>3. WellFormed(current, r) /\ r \in Seq(Frames) /\ First(r) = f
  BY <1>1, <1>2, ReplaceWellFormed
<1>4. Continue(r)
  BY DEF Become, Continue
<1>5. SleepsIn(current, r) <=> SleepsIn(current, s)
  <2>1. /\ Head(s) = s[1] /\ 1 \in DOMAIN s /\ DOMAIN r = DOMAIN s /\ r[1] = f
        /\ \A i \in DOMAIN s : i # 1 => r[i] = s[i]
    BY <1>1, EmptyOrNot
  <2> QED BY <1>2, <2>1 DEF SleepsIn
<1>6. current \in InCondWait <=> SleepsIn(current, s)
  BY <1>1 DEF InCondWait, CondWaiting, SleepsIn, SleepFrames
<1> QED BY <1>2, <1>3, <1>4, <1>5, <1>6, ContinueView, ZenonT(30)
-----------------------------------------------------------------------------
(* The same for the steps that do more than drop a frame.                  *)

(* sema_down() goes to sleep in its loop.                                  *)
LEMMA SleepView ==
  ASSUME TypeOK, AgendaInv, agenda[current] # <<>>, NEW s \in Sema,
         Top(current) \in {Frame("sema_down", s), Frame("sema_loop", s)}, Become("sema_loop", s)
  PROVE  /\ AgendaInv' /\ now[current] = Top(current)
         /\ now' = [now EXCEPT ![current] = Frame("sema_loop", s)]
         /\ InCondWait' = InCondWait
<1>1. Frame("sema_loop", s) \in Frames
  BY SMTT(30) DEF Frame, Frames, Op
<1>2. \A g : Fits(current, Top(current), g) => Fits(current, Frame("sema_loop", s), g)
  BY DEF Fits, Frame
<1>3. Frame("sema_loop", s) \in SleepFrames(current) <=> Top(current) \in SleepFrames(current)
  BY DEF SleepFrames, Frame
<1> QED BY <1>1, <1>2, <1>3, BecomeView DEF ChildOps

LEMMA FitsReplaced ==
  ASSUME NEW t \in Thread, NEW g
  PROVE  /\ \A l \in Lock : Fits(t, Frame("sema_try_down", l), g) => Fits(t, Frame("set_holder", l), g)
         /\ \A c \in Condition, u \in Thread :
              Fits(t, Frame("cond_signal", c), g) => Fits(t, Frame("sema_up", u), g)
         /\ Fits(t, Frame("idle_loop", NULL), g) => Fits(t, Frame("hlt", NULL), g)
<1>1. ASSUME NEW l \in Lock, Fits(t, Frame("sema_try_down", l), g)
      PROVE  Fits(t, Frame("set_holder", l), g)
  <2>1. l \in ClientLock /\ g = End
    BY <1>1, Disjoint, ZenonT(30) DEF Fits, Frame
  <2> QED BY <2>1 DEF Fits
<1>2. ASSUME NEW c \in Condition, NEW u \in Thread, Fits(t, Frame("cond_signal", c), g)
      PROVE  Fits(t, Frame("sema_up", u), g)
  <2>1. g \in {End, Frame("cond_broadcast", c)}
    BY <1>2, ZenonT(30) DEF Fits, Frame
  <2> QED BY <2>1 DEF Fits
<1>3. ASSUME Fits(t, Frame("idle_loop", NULL), g) PROVE Fits(t, Frame("hlt", NULL), g)
  <2>1. g = End
    BY <1>3, ZenonT(30) DEF Fits, Frame
  <2>2. Frame("hlt", NULL).op = "hlt"
    BY DEF Frame
  <2> QED BY <2>1, <2>2 DEF Fits
<1> QED BY <1>1, <1>2, <1>3, ZenonT(30)

(* lock_try_acquire() has got the lock.                                    *)
LEMMA TryView ==
  ASSUME TypeOK, AgendaInv, agenda[current] # <<>>, NEW l \in Lock,
         Top(current) = Frame("sema_try_down", l), Become("set_holder", l)
  PROVE  /\ AgendaInv' /\ now[current] = Top(current)
         /\ now' = [now EXCEPT ![current] = Frame("set_holder", l)]
         /\ InCondWait' = InCondWait
<1>1. Frame("set_holder", l) \in Frames
  BY DEF Frame, Frames, Op, Sema
<1>2. \A g : Fits(current, Top(current), g) => Fits(current, Frame("set_holder", l), g)
  BY FitsReplaced, ZenonT(30) DEF TypeOK
<1>3. Frame("set_holder", l) \notin SleepFrames(current) /\ Top(current) \notin SleepFrames(current)
  BY DEF SleepFrames, Frame
<1> QED BY <1>1, <1>2, <1>3, BecomeView DEF ChildOps

(* cond_signal() has taken a waiter off the list.                          *)
LEMMA SignalView ==
  ASSUME TypeOK, AgendaInv, agenda[current] # <<>>, NEW c \in Condition, NEW t \in Thread,
         Top(current) = Frame("cond_signal", c), Become("sema_up", t)
  PROVE  /\ AgendaInv' /\ now[current] = Top(current)
         /\ now' = [now EXCEPT ![current] = Frame("sema_up", t)]
         /\ InCondWait' = InCondWait
<1>1. Frame("sema_up", t) \in Frames
  BY DEF Frame, Frames, Op, Sema
<1>2. \A g : Fits(current, Top(current), g) => Fits(current, Frame("sema_up", t), g)
  BY FitsReplaced, ZenonT(30) DEF TypeOK
<1>3. Frame("sema_up", t) \notin SleepFrames(current) /\ Top(current) \notin SleepFrames(current)
  BY DEF SleepFrames, Frame
<1> QED BY <1>1, <1>2, <1>3, BecomeView, SMTT(30) DEF ChildOps

(* The idle thread halts the processor.                                    *)
LEMMA HaltView ==
  ASSUME TypeOK, AgendaInv, agenda[current] # <<>>, Top(current) = Frame("idle_loop", NULL),
         Become("hlt", NULL)
  PROVE  /\ AgendaInv' /\ now[current] = Top(current)
         /\ now' = [now EXCEPT ![current] = Frame("hlt", NULL)]
         /\ InCondWait' = InCondWait
<1>1. Frame("hlt", NULL) \in Frames
  BY DEF Frame, Frames, Op
<1>2. \A g : Fits(current, Top(current), g) => Fits(current, Frame("hlt", NULL), g)
  BY FitsReplaced DEF TypeOK
<1>3. Frame("hlt", NULL) \notin SleepFrames(current) /\ Top(current) \notin SleepFrames(current)
  BY DEF SleepFrames, Frame
<1> QED BY <1>1, <1>2, <1>3, BecomeView DEF ChildOps

(* cond_broadcast() calls cond_signal().                                   *)
LEMMA BroadcastView ==
  ASSUME TypeOK, AgendaInv, agenda[current] # <<>>, NEW c \in Condition,
         Top(current) = Frame("cond_broadcast", c),
         Continue(<<Frame("cond_signal", c)>> \o agenda[current])
  PROVE  /\ AgendaInv' /\ now[current] = Top(current)
         /\ now' = [now EXCEPT ![current] = Frame("cond_signal", c)]
         /\ InCondWait' = InCondWait
<1> DEFINE f == Frame("cond_signal", c)
           g == Frame("cond_broadcast", c)
           s == <<f, g>>
<1>1. current \in Thread /\ agenda[current] \in Seq(Frames) /\ WellFormed(current, agenda[current])
  BY DEF TypeOK, AgendaInv
<1>2. agenda[current] = <<g>> /\ now[current] = Top(current)
  <2>1. \A h : Fits(current, g, h) => h = End
    BY ZenonT(30) DEF Fits, Frame
  <2> QED BY <1>1, <2>1, NothingUnder DEF Top, now, First
<1>3. f \in Frames /\ g \in Frames /\ f.op = "cond_signal"
  BY DEF Frame, Frames, Op
<1>4. Fits(current, f, g) /\ Fits(current, g, End)
  BY ZenonT(30) DEF Fits
<1>5. WellFormed(current, s) /\ First(s) = f /\ s \in Seq(Frames)
  BY <1>1, <1>3, <1>4, TwoFrames DEF ChildOps
<1>6. <<f>> \o <<g>> = s
  BY <1>3, Concat11
<1>7. ~SleepsIn(current, s) /\ ~SleepsIn(current, <<g>>)
  BY DEF SleepsIn, SleepFrames, Frame
<1>8. current \notin InCondWait
  BY <1>2, <1>7 DEF InCondWait, CondWaiting, SleepsIn, SleepFrames
<1>9. Continue(s)
  BY <1>2, <1>6, ZenonT(30)
<1> HIDE DEF s, f
<1>10. InCondWait' = InCondWait
  BY <1>5, <1>7, <1>8, <1>9, ContinueView, ZenonT(30)
<1>11. AgendaInv' /\ now' = [now EXCEPT ![current] = f]
  BY <1>5, <1>9, ContinueView, ZenonT(30)
<1> QED BY <1>2, <1>10, <1>11 DEF f

(* thread_create() has got a page.                                         *)
LEMMA CreateView ==
  ASSUME TypeOK, AgendaInv, agenda[current] # <<>>, NEW u \in Thread,
         Top(current) = Frame("create", NULL),
         Continue(allocate_tid(u) \o <<Frame("unblock", u)>> \o Under(current))
  PROVE  /\ AgendaInv' /\ now[current] = Top(current)
         /\ now' = [now EXCEPT ![current] = Frame("sema_down", TidLock)]
         /\ InCondWait' = InCondWait
<1> DEFINE g == Frame("create", NULL)
           s == allocate_tid(u) \o <<Frame("unblock", u)>> \o <<>>
<1>1. current \in Thread /\ agenda[current] \in Seq(Frames) /\ WellFormed(current, agenda[current])
  BY SMTT(30) DEF TypeOK, AgendaInv
<1>2. agenda[current] = <<g>> /\ now[current] = Top(current) /\ Under(current) = <<>>
  <2>1. \A h : Fits(current, g, h) => h = End
    BY ZenonT(30) DEF Fits, Frame
  <2> QED BY <1>1, <2>1, NothingUnder DEF Top, Under, now, First
<1>3. /\ WellFormed(current, s) /\ First(s) = Frame("sema_down", TidLock) /\ s \in Seq(Frames)
      /\ \A i \in DOMAIN s : s[i].op \in {"sema_down", "sema_loop"} => s[i].arg = TidLock
  BY <1>1, CreateWellFormed
<1>4. Continue(s)
  BY <1>2
<1> HIDE DEF s
<1>5. ~SleepsIn(current, s) /\ ~SleepsIn(current, <<g>>)
  BY <1>1, <1>3, Disjoint, KernelAssumption, SMTT(30) DEF SleepsIn, SleepFrames, Frame
<1>6. current \notin InCondWait
  BY <1>2, <1>5 DEF InCondWait, CondWaiting, SleepsIn, SleepFrames
<1>7. InCondWait' = InCondWait
  BY <1>3, <1>4, <1>5, <1>6, ContinueView, ZenonT(30)
<1> QED BY <1>2, <1>3, <1>4, <1>7, ContinueView
(* A thread in its own code calls a function of the kernel, whose first    *)
(* frame is f.                                                             *)
CallFrame(f) ==
  \/ f.op \in {"sema_down", "sema_try_down", "cond_signal", "cond_broadcast", "create", "timer_sleep"}
  \/ \E l \in Lock : f = Frame("clear_holder", l) /\ lock_holder[l] = current
  \/ \E c \in Condition : f = Frame("cond_enqueue", c) /\ lock_holder[LockOf[c]] = current
  \/ \E s \in Semaphore : f = Frame("sema_up", s)

(* Each call's frames are well formed; only cond_wait()'s sleep on the     *)
(* thread's own semaphore.                                                 *)
CallOK(s) ==
  /\ s \in Seq(Frames) /\ WellFormed(current, s) /\ CallFrame(First(s))
  /\ SleepsIn(current, s) <=> First(s).op = "cond_enqueue"

LEMMA OneFrameCall ==
  ASSUME current \in Thread, NEW f \in Frames, Fits(current, f, End), CallFrame(f),
         f.op # "cond_enqueue", f.arg # current
  PROVE  CallOK(<<f>>)
<1>1. WellFormed(current, <<f>>) /\ First(<<f>>) = f /\ <<f>> \in Seq(Frames)
  BY OneFrame
<1>2. ~SleepsIn(current, <<f>>)
  BY DEF SleepsIn, SleepFrames, Frame
<1> QED BY <1>1, <1>2 DEF CallOK

LEMMA LockCalls ==
  ASSUME current \in Thread, NEW l \in ClientLock
  PROVE  /\ CallOK(lock_acquire(l))
         /\ CallOK(<<Frame("sema_try_down", l)>>)
         /\ lock_holder[l] = current => CallOK(lock_release(l))
<1>1. l \in Lock /\ l # current
  BY Disjoint
<1>2. /\ Frame("sema_down", l) \in Frames /\ Frame("set_holder", l) \in Frames
      /\ Frame("clear_holder", l) \in Frames /\ Frame("sema_up", l) \in Frames
      /\ Frame("sema_try_down", l) \in Frames
  BY <1>1 DEF Frame, Frames, Op, Sema
<1>3. /\ Fits(current, Frame("sema_down", l), Frame("set_holder", l))
      /\ Fits(current, Frame("set_holder", l), End)
      /\ Fits(current, Frame("clear_holder", l), Frame("sema_up", l))
      /\ Fits(current, Frame("sema_up", l), End)
      /\ Fits(current, Frame("sema_try_down", l), End)
  BY <1>1, ZenonT(30) DEF Fits
<1>4. CallOK(lock_acquire(l))
  <2> DEFINE s == <<Frame("sema_down", l), Frame("set_holder", l)>>
  <2>1. WellFormed(current, s) /\ First(s) = Frame("sema_down", l) /\ s \in Seq(Frames)
    BY <1>2, <1>3, TwoFrames DEF Frame, ChildOps
  <2>2. ~SleepsIn(current, s)
    BY <1>1 DEF SleepsIn, SleepFrames, Frame
  <2>3. First(s).op = "sema_down"
    BY <2>1, SMTT(30) DEF Frame
  <2> QED BY <2>1, <2>2, <2>3, ZenonT(30) DEF CallOK, CallFrame, lock_acquire
<1>5. CallOK(<<Frame("sema_try_down", l)>>)
  <2>1. Frame("sema_try_down", l).op = "sema_try_down" /\ Frame("sema_try_down", l).arg = l
    BY DEF Frame
  <2> QED BY <1>1, <1>2, <1>3, <2>1, OneFrameCall DEF CallFrame
<1>6. ASSUME lock_holder[l] = current PROVE CallOK(lock_release(l))
  <2> DEFINE s == <<Frame("clear_holder", l), Frame("sema_up", l)>>
  <2>1. WellFormed(current, s) /\ First(s) = Frame("clear_holder", l) /\ s \in Seq(Frames)
    BY <1>2, <1>3, TwoFrames DEF Frame, ChildOps
  <2>2. ~SleepsIn(current, s)
    BY <1>1 DEF SleepsIn, SleepFrames, Frame
  <2>3. First(s).op = "clear_holder"
    BY <2>1 DEF Frame
  <2>4. CallFrame(First(s))
    BY <1>1, <1>6, <2>1 DEF CallFrame
  <2> QED BY <2>1, <2>2, <2>3, <2>4 DEF CallOK, lock_release
<1> QED BY <1>4, <1>5, <1>6

LEMMA SemaCalls ==
  ASSUME current \in Thread, NEW s \in ClientSema,
         NEW op \in {"sema_down", "sema_try_down", "sema_up"}
  PROVE  CallOK(<<Frame(op, s)>>)
<1>1. s \in Semaphore /\ s # current
  BY Disjoint DEF ClientSema
<1>2. Frame(op, s) \in Frames /\ Frame(op, s).op = op /\ Frame(op, s).arg = s
  BY <1>1, SMTT(30) DEF Frame, Frames, Op, Sema
<1>3. Fits(current, Frame(op, s), End)
  BY <1>1, SMTT(30) DEF Fits
<1>4. CallFrame(Frame(op, s))
  BY <1>1, <1>2 DEF CallFrame
<1> QED BY <1>1, <1>2, <1>3, <1>4, OneFrameCall

LEMMA CondCalls ==
  ASSUME current \in Thread, NEW c \in Condition, lock_holder[LockOf[c]] = current
  PROVE  /\ CallOK(cond_wait(c, LockOf[c]))
         /\ CallOK(<<Frame("cond_signal", c)>>) /\ CallOK(<<Frame("cond_broadcast", c)>>)
<1>1. CallOK(cond_wait(c, LockOf[c]))
  <2> DEFINE s == cond_wait(c, LockOf[c])
  <2>1. /\ WellFormed(current, s) /\ First(s) = Frame("cond_enqueue", c) /\ s \in Seq(Frames)
        /\ \E i \in DOMAIN s : s[i] = Frame("sema_down", current)
    BY CondWaitWellFormed
  <2> HIDE DEF s
  <2>2. SleepsIn(current, s) /\ First(s).op = "cond_enqueue"
    BY <2>1 DEF SleepsIn, SleepFrames, Frame
  <2>3. CallFrame(First(s))
    BY <2>1, SMTT(30) DEF CallFrame
  <2> QED BY <2>1, <2>2, <2>3 DEF CallOK, s
<1>2. ASSUME NEW op \in {"cond_signal", "cond_broadcast"} PROVE CallOK(<<Frame(op, c)>>)
  <2>1. Frame(op, c) \in Frames /\ Frame(op, c).op = op
    BY DEF Frame, Frames, Op
  <2>2. Fits(current, Frame(op, c), End) /\ CallFrame(Frame(op, c))
    BY <2>1, ZenonT(30) DEF Fits, CallFrame
  <2>3. PICK f \in Frames : f = Frame(op, c) /\ f.op = op
    BY <2>1, ZenonT(30)
  <2>4. WellFormed(current, <<f>>) /\ First(<<f>>) = f
    BY <2>2, <2>3, OneFrame, ZenonT(30)
  <2>5. ~SleepsIn(current, <<f>>)
    BY <2>3, SMTT(30) DEF SleepsIn, SleepFrames, Frame
  <2> QED BY <2>2, <2>3, <2>4, <2>5, SMTT(30) DEF CallOK
<1> QED BY <1>1, <1>2, ZenonT(30)

LEMMA OtherCalls ==
  ASSUME current \in Thread
  PROVE  /\ CallOK(<<Frame("create", NULL)>>)
         /\ \A n \in Sleeps : CallOK(<<Frame("timer_sleep", n)>>)
<1>1. ASSUME NEW f \in Frames, f.op \in {"create", "timer_sleep"} PROVE CallOK(<<f>>)
  <2>1. Fits(current, f, End) /\ CallFrame(f)
    BY <1>1 DEF Fits, CallFrame
  <2>2. WellFormed(current, <<f>>) /\ First(<<f>>) = f /\ <<f>> \in Seq(Frames)
    BY <1>1, <2>1, OneFrame
  <2>3. ~SleepsIn(current, <<f>>)
    BY <1>1 DEF SleepsIn, SleepFrames, Frame
  <2> QED BY <1>1, <2>1, <2>2, <2>3, SMTT(30) DEF CallOK
<1>2. Frame("create", NULL) \in Frames /\ Frame("create", NULL).op = "create"
  BY DEF Frame, Frames, Op
<1>3. ASSUME NEW n \in Sleeps
      PROVE  Frame("timer_sleep", n) \in Frames /\ Frame("timer_sleep", n).op = "timer_sleep"
  BY KernelAssumption, ZenonT(30) DEF Frame, Frames
<1> QED BY <1>1, <1>2, <1>3

LEMMA CallView ==
  ASSUME TypeOK, AgendaInv, Call
  PROVE  /\ AgendaInv' /\ now[current] = End
         /\ \E f : /\ CallFrame(f) /\ now' = [now EXCEPT ![current] = f]
                   /\ InCondWait' = IF f.op = "cond_enqueue" THEN InCondWait \cup {current}
                                    ELSE InCondWait
<1>1. current \in Thread /\ agenda[current] = <<>>
  BY ZenonT(30) DEF TypeOK, Call
<1>2. now[current] = End /\ current \notin InCondWait
  BY <1>1 DEF now, First, InCondWait, CondWaiting
<1>3. \E s : CallOK(s) /\ Continue(s)
  BY <1>1, LockCalls, SemaCalls, CondCalls, OtherCalls, ZenonT(30)
     DEF Call, Enter, lock_held_by_current_thread
<1>4. PICK s : CallOK(s) /\ Continue(s)
  BY <1>3
<1>5. /\ AgendaInv' /\ now' = [now EXCEPT ![current] = First(s)]
      /\ InCondWait' = IF SleepsIn(current, s) THEN InCondWait \cup {current}
                       ELSE InCondWait \ {current}
  BY <1>4, ContinueView DEF CallOK
<1>6. InCondWait' = IF First(s).op = "cond_enqueue" THEN InCondWait \cup {current} ELSE InCondWait
  BY <1>2, <1>4, <1>5, ZenonT(30) DEF CallOK
<1> QED BY <1>2, <1>4, <1>5, <1>6, ZenonT(30) DEF CallOK
-----------------------------------------------------------------------------
(* An interrupt brings sleepers nearer to their time and ends the idle     *)
(* thread's hlt; all other frames stay.                                    *)
Polls == {"hlt", "idle_loop", "timer_sleep"}

Polled(old, new) ==
  \/ new = old
  \/ /\ old # <<>> /\ Head(old).op \in Polls
     /\ \E f \in Frames : f.op \in Polls /\ new = [old EXCEPT ![1] = f]

LEMMA ElapsePolls ==
  ASSUME NEW s \in Seq(Frames)
  PROVE  Polled(s, Elapse(s))
<1>1. CASE s # <<>> /\ Head(s).op = "timer_sleep" /\ Head(s).arg > 0
  <2>1. Head(s) \in Frames /\ Head(s) = s[1] /\ 1 \in DOMAIN s
    BY <1>1, EmptyOrNot
  <2>2. Head(s).arg \in Int
    BY <1>1, <2>1 DEF Frames, Op
  <2> DEFINE f == [Head(s) EXCEPT !.arg = @ - 1]
  <2>3. f \in Frames /\ f.op = "timer_sleep"
    BY <1>1, <2>1, <2>2 DEF Frames, Op
  <2>4. Elapse(s) = [s EXCEPT ![1] = f]
    BY <1>1, <2>1 DEF Elapse
  <2> HIDE DEF f
  <2> QED BY <1>1, <2>3, <2>4, ZenonT(30) DEF Polled, Polls
<1>2. CASE ~(s # <<>> /\ Head(s).op = "timer_sleep" /\ Head(s).arg > 0)
  BY <1>2 DEF Elapse, Polled
<1> QED BY <1>1, <1>2

LEMMA AfterPolls ==
  ASSUME NEW s \in Seq(Frames), NEW t
  PROVE  Polled(s, AfterInterrupt(t, s))
<1>1. CASE t = current /\ s = <<Frame("hlt", NULL)>>
  <2> DEFINE f == Frame("idle_loop", NULL)
  <2>1. f \in Frames /\ f.op \in Polls /\ Frame("hlt", NULL).op \in Polls
    BY DEF Frame, Frames, Op, Polls
  <2>2. s # <<>> /\ Head(s) = Frame("hlt", NULL) /\ 1 \in DOMAIN s /\ s[1] = Frame("hlt", NULL)
    BY <1>1
  <2>3. AfterInterrupt(t, s) = [s EXCEPT ![1] = f]
    <3>1. AfterInterrupt(t, s) = [s EXCEPT ![1].op = "idle_loop"]
      BY <1>1 DEF AfterInterrupt
    <3>2. [s[1] EXCEPT !.op = "idle_loop"] = f
      BY <2>2 DEF Frame
    <3> QED BY <3>1, <3>2, ZenonT(30)
  <2> QED BY <2>1, <2>2, <2>3, ZenonT(30) DEF Polled
<1>2. CASE ~(t = current /\ s = <<Frame("hlt", NULL)>>)
  BY <1>2, SMTT(30) DEF AfterInterrupt, Polled
<1> QED BY <1>1, <1>2

LEMMA FitsPolls ==
  ASSUME NEW t, NEW f, f.op \in Polls, NEW g, Fits(t, f, g)
  PROVE  g = End
<1>1. \A op \in Op : \A arg : f = Frame(op, arg) => f.op = op
  BY DEF Frame
<1> QED BY <1>1 DEF Fits, Polls, Op

(* What both do to one agenda.                                             *)
LEMMA PolledAgenda ==
  ASSUME NEW t \in Thread, NEW s \in Seq(Frames), NEW r, WellFormed(t, s), Polled(s, r)
  PROVE  /\ WellFormed(t, r) /\ r \in Seq(Frames)
         /\ First(r) = First(s) \/ {First(r).op, First(s).op} \subseteq Polls
         /\ SleepsIn(t, r) <=> SleepsIn(t, s)
<1>1. CASE r = s
  BY <1>1
<1>2. ASSUME s # <<>>, Head(s).op \in Polls, NEW f \in Frames, f.op \in Polls, r = [s EXCEPT ![1] = f]
      PROVE  /\ WellFormed(t, r) /\ r \in Seq(Frames)
             /\ {First(r).op, First(s).op} \subseteq Polls
             /\ SleepsIn(t, r) <=> SleepsIn(t, s)
  <2>1. \A g : Fits(t, Head(s), g) => Fits(t, f, g)
    <3>1. ASSUME NEW g, Fits(t, Head(s), g) PROVE g = End
      BY <1>2, <3>1, FitsPolls
    <3>2. Fits(t, f, End)
      BY <1>2, ZenonT(30) DEF Fits, Polls
    <3> QED BY <3>1, <3>2
  <2>2. WellFormed(t, r) /\ r \in Seq(Frames) /\ First(r) = f
    <3>1. f.op \notin ChildOps \cup {"cond_enqueue"}
      BY <1>2 DEF Polls, ChildOps
    <3>2. LET q == [s EXCEPT ![1] = f] IN WellFormed(t, q) /\ q \in Seq(Frames) /\ First(q) = f
      BY <1>2, <2>1, <3>1, ReplaceWellFormed, ZenonT(30)
    <3> QED BY <1>2, <3>2
  <2>3. f \notin SleepFrames(t) /\ Head(s) \notin SleepFrames(t)
    BY <1>2 DEF SleepFrames, Frame, Polls
  <2>4. SleepsIn(t, r) <=> SleepsIn(t, s)
    <3>1. /\ Head(s) = s[1] /\ 1 \in DOMAIN s /\ DOMAIN r = DOMAIN s /\ r[1] = f
          /\ \A i \in DOMAIN s : i # 1 => r[i] = s[i]
      BY <1>2, EmptyOrNot
    <3> QED BY <2>3, <3>1 DEF SleepsIn
  <2> QED BY <1>2, <2>2, <2>4 DEF First
<1> QED BY <1>1, <1>2 DEF Polled

LEMMA InterruptView ==
  ASSUME TypeOK, AgendaInv, TimerInterrupt \/ DeviceInterrupt
  PROVE  /\ AgendaInv' /\ InCondWait' = InCondWait
         /\ \A t \in Thread : now'[t] = now[t] \/ {now'[t].op, now[t].op} \subseteq Polls
<1> DEFINE Good(t, s, r) == /\ WellFormed(t, r) /\ r \in Seq(Frames)
                            /\ First(r) = First(s) \/ {First(r).op, First(s).op} \subseteq Polls
                            /\ SleepsIn(t, r) <=> SleepsIn(t, s)
<1>1. \A t \in Thread : Good(t, agenda[t], agenda'[t])
  <2> TAKE t \in Thread
  <2>1. agenda[t] \in Seq(Frames) /\ WellFormed(t, agenda[t])
    BY DEF TypeOK, AgendaInv
  <2>2. CASE TimerInterrupt
    <3>1. agenda'[t] = AfterInterrupt(t, Elapse(agenda[t]))
      BY <2>2 DEF TimerInterrupt
    <3>2. Good(t, agenda[t], Elapse(agenda[t]))
      BY <2>1, ElapsePolls, PolledAgenda, SMTT(30)
    <3>3. Good(t, Elapse(agenda[t]), AfterInterrupt(t, Elapse(agenda[t])))
      BY <3>2, AfterPolls, PolledAgenda, SMTT(30)
    <3> QED BY <3>1, <3>2, <3>3, ZenonT(30)
  <2>3. CASE DeviceInterrupt
    <3>1. agenda'[t] = AfterInterrupt(t, agenda[t])
      BY <2>3 DEF DeviceInterrupt
    <3> QED BY <2>1, <3>1, AfterPolls, PolledAgenda
  <2> QED BY <2>2, <2>3
<1> HIDE DEF Good
<1>2. AgendaInv'
  BY <1>1 DEF AgendaInv, Good
<1>3. \A t \in Thread : now'[t] = now[t] \/ {now'[t].op, now[t].op} \subseteq Polls
  BY <1>1, SMTT(30) DEF now, Good
<1>4. \A t \in Thread : CondWaiting(t)' <=> CondWaiting(t)
  BY <1>1 DEF CondWaiting, SleepsIn, SleepFrames, Good
<1>5. InCondWait' = InCondWait
  BY <1>4 DEF InCondWait
<1> QED BY <1>2, <1>3, <1>5, SMTT(30)

(* A step that leaves every agenda alone.                                  *)
LEMMA StillView ==
  ASSUME AgendaInv, UNCHANGED agenda
  PROVE  AgendaInv' /\ now' = now /\ InCondWait' = InCondWait
<1>1. now' = now /\ AgendaInv'
  BY DEF now, AgendaInv
<1>2. \A t \in Thread : CondWaiting(t)' <=> CondWaiting(t)
  BY DEF CondWaiting
<1> QED BY <1>1, <1>2 DEF InCondWait
-----------------------------------------------------------------------------
\* The running thread's innermost frame becomes g, the others' stay.
Moves(g) == now'[current] = g /\ \A t \in Thread : t # current => now'[t] = now[t]

LEMMA MovesView ==
  ASSUME current \in Thread, NEW g, now' = [now EXCEPT ![current] = g]
  PROVE  Moves(g)
<1>1. now = [t \in Thread |-> now[t]]
  BY ZenonT(30) DEF now
<1> QED BY <1>1 DEF Moves

(* What lies under a frame.                                                *)
LEMMA UnderFrame ==
  ASSUME NEW t \in Thread, NEW f, NEW g, Fits(t, f, g)
  PROVE  /\ \A l \in Lock :
              /\ f \in {Frame("sema_down", l), Frame("sema_loop", l)} => g = Frame("set_holder", l)
              /\ f = Frame("clear_holder", l) => g = Frame("sema_up", l)
              /\ f = Frame("sema_up", l) => g.op \in {"end", "sema_down", "unblock"}
              /\ f = Frame("set_holder", l) => \/ g = End
                                               \/ l = TidLock /\ g.op = "read_tid"
         /\ \A s \in Semaphore \cup Thread :
              /\ f \in {Frame("sema_down", s), Frame("sema_loop", s)} => g.op \in {"end", "sema_down"}
              /\ f = Frame("sema_up", s) => g.op \in {"end", "cond_broadcast", "idle_loop"}
         /\ \A u \in Thread : /\ f = Frame("read_tid", u) => g = Frame("write_tid", u)
                              /\ f = Frame("write_tid", u) => g = Frame("clear_holder", TidLock)
         /\ \A c \in Condition : f = Frame("cond_enqueue", c) => g = Frame("clear_holder", LockOf[c])
         /\ f.op = "set_idle" => g = Frame("sema_up", IdleStarted)
         /\ f.op = "cond_signal" => g.op \in {"end", "cond_broadcast"}
         /\ f.op \in {"sema_try_down", "cond_broadcast", "create", "unblock", "timer_sleep"} => g = End
<1> USE Disjoint DEF Fits, Frame, End
<1>1. ASSUME NEW l \in Lock
      PROVE  /\ f \in {Frame("sema_down", l), Frame("sema_loop", l)} => g = Frame("set_holder", l)
             /\ f = Frame("clear_holder", l) => g = Frame("sema_up", l)
  BY SMTT(30)
<1>2. ASSUME NEW l \in Lock
      PROVE  /\ f = Frame("sema_up", l) => g.op \in {"end", "sema_down", "unblock"}
             /\ f = Frame("set_holder", l) => \/ g = End
                                              \/ l = TidLock /\ g.op = "read_tid"
  BY SMTT(30)
<1>3. ASSUME NEW s \in Semaphore \cup Thread
      PROVE  /\ f \in {Frame("sema_down", s), Frame("sema_loop", s)} => g.op \in {"end", "sema_down"}
             /\ f = Frame("sema_up", s) => g.op \in {"end", "cond_broadcast", "idle_loop"}
  BY KernelAssumption, SMTT(30)
<1>4. ASSUME NEW u \in Thread
      PROVE  /\ f = Frame("read_tid", u) => g = Frame("write_tid", u)
             /\ f = Frame("write_tid", u) => g = Frame("clear_holder", TidLock)
  BY SMTT(30)
<1>5. ASSUME NEW c \in Condition, f = Frame("cond_enqueue", c)
      PROVE  g = Frame("clear_holder", LockOf[c])
  <2>1. f.op = "cond_enqueue" /\ f.arg = c
    BY <1>5, ZenonT(30)
  <2>2. \E d \in Condition : f = Frame("cond_enqueue", d) /\ g = Frame("clear_holder", LockOf[d])
    BY <2>1
  <2> QED BY <2>1, <2>2, SMTT(30)
<1>6. /\ f.op = "set_idle" => g = Frame("sema_up", IdleStarted)
      /\ f.op = "cond_signal" => g.op \in {"end", "cond_broadcast"}
  OBVIOUS
<1>7. f.op \in {"sema_try_down", "cond_broadcast", "create", "unblock", "timer_sleep"} => g = End
  OBVIOUS
<1> QED BY <1>1, <1>2, <1>3, <1>4, <1>5, <1>6, <1>7, ZenonT(30)

(* What is known of run queue, wait lists and pages from the invariant of  *)
(* module KernelQueues.                                                    *)
Base ==
  /\ TypeOK /\ ListsMatchStatus
  /\ idle_thread # NULL => status[idle_thread] # "FREE"
  /\ \A t \in Thread : Nascent(t) => status[t] = "BLOCKED"

(* One step of the running thread from frame f to frame g, for the         *)
(* identifiers, the signals and cond_wait().                               *)
Transit(f, g) ==
  /\ g.op = "write_tid" => f = Frame("read_tid", g.arg)
  /\ g.op # "cond_enqueue"
  /\ \A u \in Thread : g = Frame("sema_up", u) => f.op = "cond_signal"
  /\ InCondWait' = IF f \in SleepFrames(current) /\ g.op # "sema_loop"
                   THEN InCondWait \ {current} ELSE InCondWait

LEMMA UnderOnly ==
  ASSUME NEW t \in Thread, NEW f, NEW g, Fits(t, f, g)
  PROVE  /\ g.op = "write_tid" => f = Frame("read_tid", g.arg)
         /\ \A u \in Thread : g # Frame("sema_up", u)
<1>1. g.op = "write_tid" => f = Frame("read_tid", g.arg)
  BY DEF Fits, Frame, End
<1>2. ASSUME NEW u \in Thread, g = Frame("sema_up", u) PROVE FALSE
  <2>1. g.op = "sema_up" /\ g.arg = u /\ u \notin Lock /\ u # IdleStarted
    BY <1>2, Disjoint, KernelAssumption, ZenonT(30) DEF Frame
  <2> QED BY <2>1 DEF Fits, Frame, End
<1> QED BY <1>1, <1>2, ZenonT(30)

(* A frame is dropped.                                                     *)
LEMMA PopTransit ==
  ASSUME TypeOK, AgendaInv, agenda[current] # <<>>, Continue(Under(current))
  PROVE  \E g : Moves(g) /\ Transit(now[current], g) /\ Fits(current, now[current], g)
<1>0. current \in Thread
  BY ZenonT(30) DEF TypeOK
<1>1. PICK g : Fits(current, now[current], g) /\ Moves(g)
  BY <1>0, PopView, MovesView
<1>2. InCondWait' = IF now[current] \in SleepFrames(current) THEN InCondWait \ {current}
                    ELSE InCondWait
  BY PopView
<1>3. g.op \notin {"cond_enqueue", "sema_loop"}
  BY <1>0, <1>1, FitsFrames
<1>4. g.op = "write_tid" => now[current] = Frame("read_tid", g.arg)
  BY <1>0, <1>1, UnderOnly
<1>5. \A u \in Thread : g # Frame("sema_up", u)
  BY <1>0, <1>1, UnderOnly
<1> QED BY <1>1, <1>2, <1>3, <1>4, <1>5 DEF Transit

(* A frame is replaced.                                                    *)
LEMMA BecomeTransit ==
  ASSUME current \in Thread, NEW f, now[current] = f, NEW g, Moves(g), InCondWait' = InCondWait,
         \/ f.op \in {"sema_down", "sema_loop"} /\ g.op = "sema_loop"
         \/ f.op \in {"create", "cond_broadcast", "idle_loop", "sema_try_down", "timer_sleep"}
            /\ g.op \in {"sema_down", "cond_signal", "hlt", "set_holder", "timer_sleep"}
         \/ f.op = "cond_signal" /\ g.op = "sema_up"
  PROVE  \E h : Moves(h) /\ Transit(now[current], h)
<1>1. Transit(f, g)
  BY SMTT(30) DEF Transit, SleepFrames, Frame
<1> QED BY <1>1

LEMMA StepTransit ==
  ASSUME TypeOK, AgendaInv, ThreadStep
  PROVE  /\ now[current] = Top(current) /\ agenda[current] # <<>>
         /\ \E g : Moves(g) /\ Transit(now[current], g)
<1>0. current \in Thread /\ agenda[current] # <<>> /\ now[current] = Top(current)
  BY ZenonT(30) DEF TypeOK, ThreadStep, now, Top, First
<1>1. CASE Continue(Under(current))
  BY <1>0, <1>1, PopTransit
<1>2. CASE sema_down /\ ~Continue(Under(current))
  <2>1. PICK s \in Sema : /\ Top(current) \in {Frame("sema_down", s), Frame("sema_loop", s)}
                          /\ Become("sema_loop", s)
    BY <1>2, ZenonT(30) DEF sema_down, SemaDown
  <2>2. Moves(Frame("sema_loop", s)) /\ InCondWait' = InCondWait
    BY <1>0, <2>1, SleepView, MovesView
  <2>3. Top(current).op \in {"sema_down", "sema_loop"} /\ Frame("sema_loop", s).op = "sema_loop"
    BY <2>1, SMTT(30) DEF Frame
  <2> QED BY <1>0, <2>2, <2>3, BecomeTransit
<1>3. CASE sema_try_down /\ ~Continue(Under(current))
  <2>1. PICK s \in Lock : Top(current) = Frame("sema_try_down", s) /\ Become("set_holder", s)
    BY <1>3 DEF sema_try_down
  <2>2. Moves(Frame("set_holder", s)) /\ InCondWait' = InCondWait
    BY <1>0, <2>1, TryView, MovesView
  <2>3. Top(current).op = "sema_try_down" /\ Frame("set_holder", s).op = "set_holder"
    BY <2>1, SMTT(30) DEF Frame
  <2> QED BY <1>0, <2>2, <2>3, BecomeTransit
<1>4. CASE cond_signal /\ ~Continue(Under(current))
  <2>1. PICK c \in Condition : /\ Top(current) = Frame("cond_signal", c) /\ cond_waiters[c] # <<>>
                               /\ Become("sema_up", Head(cond_waiters[c]))
    BY <1>4 DEF cond_signal
  <2>2. Head(cond_waiters[c]) \in Thread
    BY <2>1, SMTT(30) DEF TypeOK
  <2>3. Moves(Frame("sema_up", Head(cond_waiters[c]))) /\ InCondWait' = InCondWait
    BY <1>0, <2>1, <2>2, SignalView, MovesView
  <2>4. Top(current).op = "cond_signal" /\ Frame("sema_up", Head(cond_waiters[c])).op = "sema_up"
    BY <2>1, SMTT(30) DEF Frame
  <2> QED BY <1>0, <2>3, <2>4, BecomeTransit
<1>5. CASE cond_broadcast /\ ~Continue(Under(current))
  <2>1. PICK c \in Condition : /\ Top(current) = Frame("cond_broadcast", c)
                               /\ Continue(<<Frame("cond_signal", c)>> \o agenda[current])
    BY <1>5 DEF cond_broadcast
  <2>2. Moves(Frame("cond_signal", c)) /\ InCondWait' = InCondWait
    BY <1>0, <2>1, BroadcastView, MovesView
  <2>3. Top(current).op = "cond_broadcast" /\ Frame("cond_signal", c).op = "cond_signal"
    BY <2>1, SMTT(30) DEF Frame
  <2> QED BY <1>0, <2>2, <2>3, BecomeTransit, ZenonT(30)
<1>6. CASE create /\ ~Continue(Under(current))
  <2>1. PICK t \in Thread : /\ Top(current) = Frame("create", NULL)
                            /\ Continue(allocate_tid(t) \o <<Frame("unblock", t)>> \o Under(current))
    BY <1>6, ZenonT(30) DEF create
  <2>2. Moves(Frame("sema_down", TidLock)) /\ InCondWait' = InCondWait
    BY <1>0, <2>1, CreateView, MovesView
  <2>3. Top(current).op = "create" /\ Frame("sema_down", TidLock).op = "sema_down"
    BY <2>1, SMTT(30) DEF Frame
  <2> QED BY <1>0, <2>2, <2>3, BecomeTransit
<1>7. CASE idle_loop
  <2>1. Top(current) = Frame("idle_loop", NULL) /\ Become("hlt", NULL)
    BY <1>7 DEF idle_loop
  <2>2. Moves(Frame("hlt", NULL)) /\ InCondWait' = InCondWait
    BY <1>0, <2>1, HaltView, MovesView
  <2>3. Top(current).op = "idle_loop" /\ Frame("hlt", NULL).op = "hlt"
    BY <2>1, SMTT(30) DEF Frame
  <2> QED BY <1>0, <2>2, <2>3, BecomeTransit
<1>8. CASE timer_sleep /\ ~Continue(Under(current))
  <2>1. Top(current).op = "timer_sleep" /\ UNCHANGED agenda
    BY <1>8 DEF timer_sleep
  <2>2. Moves(now[current]) /\ InCondWait' = InCondWait
    BY <1>0, <2>1, StillView, ZenonT(30) DEF Moves
  <2> QED BY <1>0, <2>1, <2>2, BecomeTransit
<1>9. CASE sema_up \/ set_holder \/ clear_holder \/ cond_enqueue \/ read_tid \/ write_tid
           \/ unblock \/ set_idle
  <2>1. Continue(Under(current))
    BY <1>9 DEF sema_up, set_holder, clear_holder, SetHolder, cond_enqueue, read_tid, write_tid,
                unblock, set_idle
  <2> QED BY <1>1, <2>1, ZenonT(30)
<1> QED BY <1>1, <1>2, <1>3, <1>4, <1>5, <1>6, <1>7, <1>8, <1>9 DEF ThreadStep, SynchStep
=============================================================================
