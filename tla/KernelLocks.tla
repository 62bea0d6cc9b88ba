---------------------------- MODULE KernelLocks -----------------------------
(***************************************************************************)
(* Locks of threads/synch.c: mutual exclusion in every interleaving, from  *)
(* the invariants of module KernelAgendas.                                 *)
(***************************************************************************)
EXTENDS KernelAgendas
-----------------------------------------------------------------------------
(* Steps that neither take nor give a lock.                                *)
Outside(f) == \A l \in Lock : f \notin {Frame("set_holder", l), Frame("sema_up", l)}

HolderOK(t, f) ==
  /\ \A l \in Lock : f = Frame("clear_holder", l) => lock_holder[l] = t
  /\ \A c \in Condition : f = Frame("cond_enqueue", c) => lock_holder[LockOf[c]] = t
  /\ f.op \in {"read_tid", "write_tid"} => lock_holder[TidLock] = t

LockKept ==
  /\ UNCHANGED lock_holder
  /\ \A l \in Lock : sema_value'[l] = sema_value[l]

LEMMA LockQuiet ==
  ASSUME LockInv, LockKept,
         \A t \in Thread : \/ now'[t] = now[t]
                           \/ Outside(now[t]) /\ Outside(now'[t]) /\ HolderOK(t, now'[t])
  PROVE  LockInv'
<1>1. \A t \in Thread, l \in Lock : In(t, l)' <=> In(t, l)
  BY DEF In, Outside, LockKept
<1>2. \A l \in Lock : Token(l)'
  BY <1>1 DEF Token, LockInv, LockKept
<1>3. HolderInv'
  BY DEF HolderInv, LockInv, HolderOK, Outside, LockKept
<1> QED BY <1>2, <1>3 DEF LockInv

(* A frame that says nothing about locks.                                  *)
LEMMA PlainOutside ==
  ASSUME NEW t \in Thread, NEW f,
         \/ f.op \notin {"set_holder", "sema_up", "clear_holder", "cond_enqueue", "read_tid", "write_tid"}
         \/ \E s \in Semaphore \cup Thread : f = Frame("sema_up", s)
  PROVE  Outside(f) /\ HolderOK(t, f)
BY Disjoint DEF Outside, HolderOK, Frame

(* Steps of the running thread inside the kernel.  Its innermost frame is  *)
(* f; if the step drops it, g is what lay under it.                        *)
LEMMA SemaDownLock ==
  ASSUME TypeOK, AgendaInv, LockInv, agenda[current] # <<>>, sema_down
  PROVE  AgendaInv' /\ LockInv'
<1>1. PICK s \in Sema : /\ Top(current) \in {Frame("sema_down", s), Frame("sema_loop", s)}
                        /\ SemaDown(s) /\ UNCHANGED <<lock_holder, cond_waiters>>
  BY DEF sema_down
<1>2. current \in Thread
  BY DEF TypeOK
<1>3. CASE sema_value[s] = 0
  <2>1. Become("sema_loop", s) /\ UNCHANGED sema_value
    BY <1>1, <1>3 DEF SemaDown
  <2>2. AgendaInv' /\ now[current] = Top(current) /\ Moves(Frame("sema_loop", s))
    BY <1>1, <1>2, <2>1, SleepView, MovesView
  <2>3. /\ Outside(now[current]) /\ Outside(Frame("sema_loop", s))
        /\ HolderOK(current, Frame("sema_loop", s))
    BY <1>1, <1>2, <2>2, PlainOutside DEF Frame
  <2> QED BY <1>1, <2>1, <2>2, <2>3, LockQuiet DEF Moves, LockKept
<1>4. CASE sema_value[s] # 0
  <2>1. Continue(Under(current)) /\ sema_value' = [sema_value EXCEPT ![s] = @ - 1]
    BY <1>1, <1>4 DEF SemaDown
  <2>2. AgendaInv' /\ now[current] = Top(current)
    BY <2>1, PopView
  <2>3. PICK g : Fits(current, now[current], g) /\ Moves(g)
    BY <1>2, <2>1, PopView, MovesView
  <2>4. CASE s \in Lock
    <3>1. g = Frame("set_holder", s)
      BY <1>1, <1>2, <2>2, <2>3, <2>4, UnderFrame
    <3>2. /\ sema_value[s] = 1 /\ \A t \in Thread : ~In(t, s)
      BY <1>4, <2>4 DEF LockInv, Token
    <3>3. sema_value'[s] = 0 /\ \A l \in Lock : l # s => sema_value'[l] = sema_value[l]
      BY <1>1, <2>1, <3>2 DEF TypeOK
    <3>4. now[current].op \in {"sema_down", "sema_loop"}
      BY <1>1, <2>2 DEF Frame
    <3>5. \A t \in Thread, l \in Lock : In(t, l)' <=> In(t, l) \/ (t = current /\ l = s)
      BY <1>1, <2>3, <3>1, <3>4 DEF In, Moves, Frame
    <3>6. \A l \in Lock : Token(l)'
      BY <1>2, <2>4, <3>2, <3>3, <3>5 DEF Token, LockInv
    <3>7. HolderInv'
      BY <1>1, <2>3, <3>1 DEF HolderInv, LockInv, Moves, Frame
    <3> QED BY <2>2, <3>6, <3>7 DEF LockInv
  <2>5. CASE s \notin Lock
    <3>1. g.op \in {"end", "sema_down"} /\ now[current].op \in {"sema_down", "sema_loop"}
      BY <1>1, <1>2, <2>2, <2>3, <2>5, UnderFrame DEF Sema, Frame
    <3>2. Outside(now[current]) /\ Outside(g) /\ HolderOK(current, g)
      BY <1>2, <3>1, PlainOutside
    <3>3. LockKept
      BY <1>1, <2>1, <2>5 DEF TypeOK, LockKept
    <3> QED BY <2>2, <2>3, <3>2, <3>3, LockQuiet DEF Moves
  <2> QED BY <2>4, <2>5
<1> QED BY <1>3, <1>4

LEMMA SemaUpLock ==
  ASSUME TypeOK, AgendaInv, LockInv, agenda[current] # <<>>, sema_up
  PROVE  AgendaInv' /\ LockInv'
<1>1. PICK s \in Sema : /\ Top(current) = Frame("sema_up", s) /\ SemaUp(s)
                        /\ Continue(Under(current)) /\ UNCHANGED <<lock_holder, cond_waiters>>
  BY DEF sema_up
<1>2. current \in Thread /\ sema_value' = [sema_value EXCEPT ![s] = @ + 1]
  BY <1>1 DEF TypeOK, SemaUp
<1>3. AgendaInv' /\ now[current] = Frame("sema_up", s)
  BY <1>1, PopView
<1>4. PICK g : Fits(current, now[current], g) /\ Moves(g)
  BY <1>1, <1>2, PopView, MovesView
<1>5. CASE s \in Lock
  <2>1. g.op \in {"end", "sema_down", "unblock"}
    BY <1>2, <1>3, <1>4, <1>5, UnderFrame
  <2>2. In(current, s) /\ lock_holder[s] # current
    BY <1>2, <1>3, <1>5 DEF In, LockInv, HolderInv
  <2>3. sema_value[s] = 0 /\ \A t \in Thread : In(t, s) => t = current
    BY <1>2, <1>5, <2>2 DEF LockInv, Token
  <2>4. sema_value'[s] = 1 /\ \A l \in Lock : l # s => sema_value'[l] = sema_value[l]
    BY <1>2, <2>3 DEF TypeOK
  <2>5. \A t \in Thread, l \in Lock : In(t, l)' <=> In(t, l) /\ ~(t = current /\ l = s)
    BY <1>1, <1>2, <1>3, <1>4, <2>1, <2>2 DEF In, Moves, Frame
  <2>6. \A l \in Lock : Token(l)'
    BY <1>2, <1>5, <2>3, <2>4, <2>5 DEF Token, LockInv
  <2>7. HolderInv'
    BY <1>1, <1>4, <2>1, SMTT(30) DEF HolderInv, LockInv, Moves, Frame
  <2> QED BY <1>3, <2>6, <2>7 DEF LockInv
<1>6. CASE s \notin Lock
  <2>1. g.op \in {"end", "cond_broadcast", "idle_loop"} /\ s \in Semaphore \cup Thread
    BY <1>2, <1>3, <1>4, <1>6, UnderFrame DEF Sema
  <2>2. Outside(now[current]) /\ Outside(g) /\ HolderOK(current, g)
    BY <1>2, <1>3, <2>1, PlainOutside
  <2>3. LockKept
    BY <1>1, <1>2, <1>6 DEF TypeOK, LockKept
  <2> QED BY <1>3, <1>4, <2>2, <2>3, LockQuiet DEF Moves
<1> QED BY <1>5, <1>6

LEMMA TryLock ==
  ASSUME TypeOK, AgendaInv, LockInv, agenda[current] # <<>>, sema_try_down
  PROVE  AgendaInv' /\ LockInv'
<1>1. PICK s \in Lock \cup Semaphore :
        /\ Top(current) = Frame("sema_try_down", s)
        /\ IF sema_value[s] > 0
           THEN /\ sema_value' = [sema_value EXCEPT ![s] = @ - 1]
                /\ IF s \in Lock THEN Become("set_holder", s) ELSE Continue(Under(current))
           ELSE Continue(Under(current)) /\ UNCHANGED sema_value
        /\ UNCHANGED <<sched, sema_waiters, lock_holder, cond_waiters>>
  BY DEF sema_try_down
<1>2. current \in Thread /\ sema_value[s] \in Nat
  BY <1>1 DEF TypeOK, Sema
<1>3. CASE sema_value[s] > 0 /\ s \in Lock
  <2>1. sema_value' = [sema_value EXCEPT ![s] = @ - 1] /\ Become("set_holder", s)
    BY <1>1, <1>3
  <2>2. AgendaInv' /\ now[current] = Frame("sema_try_down", s) /\ Moves(Frame("set_holder", s))
    BY <1>1, <1>2, <1>3, <2>1, TryView, MovesView
  <2>3. /\ sema_value[s] = 1 /\ \A t \in Thread : ~In(t, s)
    BY <1>3 DEF LockInv, Token
  <2>4. sema_value'[s] = 0 /\ \A l \in Lock : l # s => sema_value'[l] = sema_value[l]
    BY <1>3, <2>1, <2>3, SMTT(30) DEF TypeOK, Sema
  <2>5. \A t \in Thread, l \in Lock : In(t, l)' <=> In(t, l) \/ (t = current /\ l = s)
    BY <1>1, <2>2 DEF In, Moves, Frame
  <2>6. \A l \in Lock : Token(l)'
    BY <1>2, <1>3, <2>3, <2>4, <2>5, ZenonT(30) DEF Token, LockInv
  <2>7. HolderInv'
    BY <1>1, <2>2, SMTT(30) DEF HolderInv, LockInv, Moves, Frame
  <2> QED BY <2>2, <2>6, <2>7 DEF LockInv
<1>4. CASE ~(sema_value[s] > 0 /\ s \in Lock)
  <2>1. Continue(Under(current)) /\ LockKept
    BY <1>1, <1>2, <1>4, ZenonT(30) DEF TypeOK, LockKept, Sema
  <2>2. AgendaInv' /\ now[current] = Frame("sema_try_down", s)
    BY <1>1, <2>1, PopView
  <2>3. PICK g : Fits(current, now[current], g) /\ Moves(g)
    BY <1>2, <2>1, PopView, MovesView
  <2>4. g = End
    BY <1>2, <2>2, <2>3, UnderFrame, SMTT(30) DEF Frame
  <2>5. Outside(now[current]) /\ Outside(g) /\ HolderOK(current, g)
    BY <1>2, <2>2, <2>4, PlainOutside DEF Frame, End
  <2> QED BY <2>1, <2>2, <2>3, <2>5, LockQuiet DEF Moves
<1> QED BY <1>3, <1>4

LEMMA SetHolderLock ==
  ASSUME TypeOK, AgendaInv, LockInv, agenda[current] # <<>>, set_holder
  PROVE  /\ AgendaInv' /\ LockInv'
         /\ \A l \in Lock : lock_holder[l] # NULL => lock_holder'[l] = lock_holder[l]
<1>1. PICK s \in Lock : /\ Top(current) = Frame("set_holder", s) /\ Continue(Under(current))
                        /\ lock_holder' = [lock_holder EXCEPT ![s] = current] /\ UNCHANGED sema_value
  BY ZenonT(30) DEF set_holder, SetHolder
<1>2. current \in Thread /\ lock_holder'[s] = current
      /\ \A l \in Lock : l # s => lock_holder'[l] = lock_holder[l]
  BY <1>1 DEF TypeOK
<1>3. AgendaInv' /\ now[current] = Frame("set_holder", s)
  BY <1>1, PopView
<1>4. PICK g : Fits(current, now[current], g) /\ Moves(g)
  BY <1>1, <1>2, PopView, MovesView, ZenonT(30)
<1>5. g = End \/ (s = TidLock /\ g.op = "read_tid")
  BY <1>2, <1>3, <1>4, UnderFrame, SMTT(30)
<1>6. In(current, s) /\ \A t \in Thread : In(t, s) => t = current
  BY <1>2, <1>3, ZenonT(30) DEF In, LockInv, Token
<1>7. lock_holder[s] \in {NULL, current}
  BY <1>6 DEF In, TypeOK
<1>8. \A t \in Thread, l \in Lock : In(t, l)' <=> In(t, l)
  BY <1>2, <1>3, <1>4, <1>5, <1>6, <1>7, SMTT(30) DEF In, Moves, Frame, End
<1>9. \A l \in Lock : Token(l)'
  BY <1>1, <1>8, SMTT(30) DEF Token, LockInv
<1>10. HolderInv'
  <2>1. ASSUME NEW t \in Thread, t # current
        PROVE  /\ now'[t] = now[t]
               /\ \A l \in Lock : lock_holder[l] = t <=> lock_holder'[l] = t
    BY <1>2, <1>4, <1>7, <2>1, ThreadAssumption DEF Moves
  <2>2. g.op \in {"end", "read_tid"} /\ now'[current] = g /\ (g.op = "read_tid" => s = TidLock)
    BY <1>4, <1>5 DEF Moves, End, Frame
  <2> QED BY <1>2, <2>1, <2>2, KernelAssumption, SMTT(30) DEF HolderInv, LockInv, Frame
<1> QED BY <1>2, <1>3, <1>7, <1>9, <1>10 DEF LockInv

LEMMA ClearHolderLock ==
  ASSUME TypeOK, AgendaInv, LockInv, agenda[current] # <<>>, clear_holder
  PROVE  AgendaInv' /\ LockInv' /\ \A l \in Lock : lock_holder'[l] \in {lock_holder[l], NULL}
<1>1. PICK s \in Lock : /\ Top(current) = Frame("clear_holder", s) /\ Continue(Under(current))
                        /\ lock_holder' = [lock_holder EXCEPT ![s] = NULL] /\ UNCHANGED sema_value
  BY ZenonT(30) DEF clear_holder, SetHolder
<1>2. current \in Thread /\ lock_holder'[s] = NULL /\ NULL \notin Thread
      /\ \A l \in Lock : l # s => lock_holder'[l] = lock_holder[l]
  BY <1>1, ThreadAssumption DEF TypeOK
<1>3. AgendaInv' /\ now[current] = Frame("clear_holder", s)
  BY <1>1, PopView, ZenonT(30)
<1>4. PICK g : Fits(current, now[current], g) /\ Moves(g)
  BY <1>1, <1>2, PopView, MovesView, ZenonT(30)
<1>5. g = Frame("sema_up", s)
  BY <1>2, <1>3, <1>4, UnderFrame, SMTT(30)
<1>6. lock_holder[s] = current /\ \A t \in Thread : In(t, s) => t = current
  BY <1>2, <1>3, SMTT(30) DEF In, LockInv, Token, HolderInv
<1>7. \A t \in Thread, l \in Lock : In(t, l)' <=> In(t, l)
  BY <1>2, <1>3, <1>4, <1>5, <1>6, SMTT(30) DEF In, Moves, Frame
<1>8. \A l \in Lock : Token(l)'
  BY <1>1, <1>7, SMTT(30) DEF Token, LockInv
<1>9. HolderInv'
  <2>1. ASSUME NEW t \in Thread, t # current
        PROVE  /\ now'[t] = now[t]
               /\ \A l \in Lock : lock_holder[l] = t <=> lock_holder'[l] = t
    BY <1>2, <1>4, <1>6, <2>1, ZenonT(30) DEF Moves
  <2>2. now'[current] = Frame("sema_up", s) /\ lock_holder'[s] # current
    BY <1>2, <1>4, <1>5 DEF Moves
  <2> QED BY <1>2, <2>1, <2>2, KernelAssumption, SMTT(30) DEF HolderInv, LockInv, Frame
<1> QED BY <1>2, <1>3, <1>8, <1>9 DEF LockInv

(* A frame is dropped or replaced, and locks are not concerned.            *)
LEMMA PlainMove ==
  ASSUME TypeOK, LockInv, LockKept, NEW g, Moves(g), Outside(now[current]), Outside(g),
         HolderOK(current, g)
  PROVE  LockInv'
<1>1. current \in Thread
  BY DEF TypeOK
<1> QED BY <1>1, LockQuiet DEF Moves

LEMMA CondLock ==
  ASSUME TypeOK, AgendaInv, LockInv, agenda[current] # <<>>, cond_enqueue \/ cond_signal \/ cond_broadcast
  PROVE  AgendaInv' /\ LockInv'
<1>0. current \in Thread /\ current \notin Lock
  BY Disjoint DEF TypeOK
<1>1. CASE cond_enqueue
  <2>1. PICK c \in Condition : /\ Top(current) = Frame("cond_enqueue", c) /\ Continue(Under(current))
                               /\ sema_value' = [sema_value EXCEPT ![current] = 0]
                               /\ UNCHANGED lock_holder
    BY <1>1 DEF cond_enqueue
  <2>2. AgendaInv' /\ now[current] = Frame("cond_enqueue", c)
    BY <2>1, PopView
  <2>3. PICK g : Fits(current, now[current], g) /\ Moves(g)
    BY <1>0, <2>1, PopView, MovesView, SMTT(30)
  <2>4. g = Frame("clear_holder", LockOf[c]) /\ lock_holder[LockOf[c]] = current
    BY <1>0, <2>2, <2>3, UnderFrame, KernelAssumption DEF LockInv, HolderInv
  <2>5. LockKept
    BY <1>0, <2>1 DEF LockKept, TypeOK
  <2>6. Outside(now[current]) /\ Outside(g) /\ HolderOK(current, g)
    BY <2>2, <2>4 DEF Outside, HolderOK, Frame
  <2> QED BY <2>2, <2>3, <2>5, <2>6, PlainMove, ZenonT(30)
<1>2. CASE cond_signal
  <2>1. PICK c \in Condition :
          /\ Top(current) = Frame("cond_signal", c)
          /\ IF cond_waiters[c] # <<>> THEN Become("sema_up", Head(cond_waiters[c]))
             ELSE Continue(Under(current))
          /\ UNCHANGED <<sema_value, lock_holder>>
    BY <1>2 DEF cond_signal
  <2>2. LockKept
    BY <2>1, ZenonT(30) DEF LockKept
  <2>3. CASE cond_waiters[c] # <<>>
    <3>1. Head(cond_waiters[c]) \in Thread
      BY <2>3 DEF TypeOK
    <3>2. /\ AgendaInv' /\ now[current] = Frame("cond_signal", c)
          /\ Moves(Frame("sema_up", Head(cond_waiters[c])))
      BY <1>0, <2>1, <2>3, <3>1, SignalView, MovesView, SMTT(30)
    <3>3. /\ Outside(now[current]) /\ Outside(Frame("sema_up", Head(cond_waiters[c])))
          /\ HolderOK(current, Frame("sema_up", Head(cond_waiters[c])))
      BY <1>0, <3>1, <3>2, PlainOutside, SMTT(30) DEF Frame
    <3> QED BY <2>2, <3>2, <3>3, PlainMove, ZenonT(30)
  <2>4. CASE cond_waiters[c] = <<>>
    <3>1. AgendaInv' /\ now[current] = Frame("cond_signal", c)
      BY <2>1, <2>4, PopView, ZenonT(30)
    <3>2. PICK g : Fits(current, now[current], g) /\ Moves(g)
      BY <1>0, <2>1, <2>4, PopView, MovesView, SMTT(30)
    <3>3. g.op \in {"end", "cond_broadcast"} /\ now[current].op = "cond_signal"
      BY <1>0, <3>1, <3>2, UnderFrame, SMTT(30) DEF Frame
    <3>4. Outside(now[current]) /\ Outside(g) /\ HolderOK(current, g)
      BY <1>0, <3>3, PlainOutside, ZenonT(30)
    <3> QED BY <2>2, <3>1, <3>2, <3>4, PlainMove, SMTT(30)
  <2> QED BY <2>3, <2>4
<1>3. CASE cond_broadcast
  <2>1. PICK c \in Condition :
          /\ Top(current) = Frame("cond_broadcast", c)
          /\ Continue(IF cond_waiters[c] = <<>> THEN Under(current)
                      ELSE <<Frame("cond_signal", c)>> \o agenda[current])
          /\ UNCHANGED <<sched, synch>>
    BY <1>3 DEF cond_broadcast
  <2>2. LockKept
    BY <2>1 DEF LockKept, synch
  <2>3. CASE cond_waiters[c] # <<>>
    <3>1. /\ AgendaInv' /\ now[current] = Frame("cond_broadcast", c)
          /\ Moves(Frame("cond_signal", c))
      BY <1>0, <2>1, <2>3, BroadcastView, MovesView, ZenonT(30)
    <3>2. /\ Outside(now[current]) /\ Outside(Frame("cond_signal", c))
          /\ HolderOK(current, Frame("cond_signal", c))
      BY <1>0, <3>1, PlainOutside, ZenonT(30) DEF Frame
    <3> QED BY <2>2, <3>1, <3>2, PlainMove, ZenonT(30)
  <2>4. CASE cond_waiters[c] = <<>>
    <3>1. AgendaInv' /\ now[current] = Frame("cond_broadcast", c)
      BY <2>1, <2>4, PopView, ZenonT(30)
    <3>2. PICK g : Fits(current, now[current], g) /\ Moves(g)
      BY <1>0, <2>1, <2>4, PopView, MovesView, ZenonT(30)
    <3>3. g = End /\ now[current].op = "cond_broadcast"
      BY <1>0, <3>1, <3>2, UnderFrame, SMTT(30) DEF Frame
    <3>4. Outside(now[current]) /\ Outside(g) /\ HolderOK(current, g)
      BY <1>0, <3>3, PlainOutside, ZenonT(30) DEF End, Frame
    <3> QED BY <2>2, <3>1, <3>2, <3>4, PlainMove, ZenonT(30)
  <2> QED BY <2>3, <2>4
<1> QED BY <1>1, <1>2, <1>3

(* Frames of thread.c and timer.c that are dropped.                        *)
LEMMA PopLock ==
  ASSUME TypeOK, AgendaInv, LockInv, agenda[current] # <<>>, Continue(Under(current)), LockKept,
         Top(current).op \in {"create", "read_tid", "write_tid", "unblock", "set_idle", "timer_sleep"},
         Top(current) \in Frames,
         Top(current).op \in {"read_tid", "write_tid"} => Top(current).arg \in Thread
  PROVE  AgendaInv' /\ LockInv'
<1>0. current \in Thread
  BY DEF TypeOK
<1>1. AgendaInv' /\ now[current] = Top(current)
  BY PopView, ZenonT(30)
<1>2. PICK g : Fits(current, now[current], g) /\ Moves(g)
  BY <1>0, PopView, MovesView
<1>3. Outside(now[current])
  BY <1>1 DEF Outside, Frame
<1>4. Outside(g) /\ HolderOK(current, g)
  <2>1. CASE Top(current).op \in {"create", "unblock", "timer_sleep"}
    <3>1. g = End
      BY <1>0, <1>1, <1>2, <2>1, UnderFrame, SMTT(30)
    <3> QED BY <1>0, <3>1, PlainOutside, SMTT(30) DEF End, Frame
  <2>2. CASE Top(current).op = "set_idle"
    <3>1. g = Frame("sema_up", IdleStarted)
      BY <1>0, <1>1, <1>2, <2>2, UnderFrame, KernelAssumption, SMTT(30)
    <3> QED BY <1>0, <3>1, PlainOutside, KernelAssumption, SMTT(30)
  <2>3. CASE Top(current).op \in {"read_tid", "write_tid"}
    <3>1. lock_holder[TidLock] = current
      BY <1>0, <1>1, <2>3 DEF LockInv, HolderInv
    <3>2. PICK u \in Thread : Top(current) \in {Frame("read_tid", u), Frame("write_tid", u)}
      BY <2>3, SMTT(30) DEF Frame, Frames
    <3>3. g \in {Frame("write_tid", u), Frame("clear_holder", TidLock)}
      BY <1>0, <1>1, <1>2, <3>2, UnderFrame
    <3> QED BY <3>1, <3>3, SMTT(30) DEF Outside, HolderOK, Frame
  <2> QED BY <2>1, <2>2, <2>3, ZenonT(30)
<1> QED BY <1>1, <1>2, <1>3, <1>4, PlainMove, ZenonT(30)

LEMMA TopFrame ==
  ASSUME TypeOK, agenda[current] # <<>>
  PROVE  Top(current) \in Frames
BY EmptyOrNot DEF TypeOK, Top

LEMMA ThreadLock ==
  ASSUME TypeOK, AgendaInv, LockInv, agenda[current] # <<>>,
         create \/ read_tid \/ write_tid \/ unblock \/ set_idle \/ idle_loop \/ timer_sleep
  PROVE  AgendaInv' /\ LockInv' /\ UNCHANGED lock_holder
<1>0. current \in Thread /\ Top(current) \in Frames
  BY TopFrame, SMTT(30) DEF TypeOK
<1>1. LockKept
  BY ZenonT(30) DEF create, read_tid, write_tid, unblock, set_idle, idle_loop, timer_sleep, LockKept, synch
<1>2. CASE create
  <2>1. Top(current) = Frame("create", NULL)
    BY <1>2, ZenonT(30) DEF create
  <2>2. CASE Continue(Under(current))
    <3>1. Top(current).op = "create"
      BY <2>1 DEF Frame
    <3> QED BY <1>0, <1>1, <2>2, <3>1, PopLock DEF LockKept
  <2>3. ASSUME NEW t \in Thread, Continue(allocate_tid(t) \o <<Frame("unblock", t)>> \o Under(current))
        PROVE  AgendaInv' /\ LockInv'
    <3>1. AgendaInv' /\ now[current] = Top(current) /\ Moves(Frame("sema_down", TidLock))
      BY <1>0, <2>1, <2>3, CreateView, MovesView, SMTT(30)
    <3>2. /\ Outside(now[current]) /\ Outside(Frame("sema_down", TidLock))
          /\ HolderOK(current, Frame("sema_down", TidLock))
      BY <1>0, <2>1, <3>1, PlainOutside, SMTT(30) DEF Frame
    <3> QED BY <1>1, <3>1, <3>2, PlainMove, SMTT(30)
  <2> QED BY <1>1, <1>2, <2>2, <2>3, ZenonT(30) DEF create, LockKept
<1>3. CASE read_tid \/ write_tid \/ unblock \/ set_idle
  <2>1. /\ Continue(Under(current))
        /\ Top(current).op \in {"read_tid", "write_tid", "unblock", "set_idle"}
        /\ Top(current).op \in {"read_tid", "write_tid"} => Top(current).arg \in Thread
    BY <1>3, SMTT(30) DEF read_tid, write_tid, unblock, set_idle, Frame
  <2> QED BY <1>0, <1>1, <2>1, PopLock, SMTT(30) DEF LockKept
<1>4. CASE idle_loop
  <2>1. /\ AgendaInv' /\ now[current] = Frame("idle_loop", NULL) /\ Moves(Frame("hlt", NULL))
    BY <1>0, <1>4, HaltView, MovesView, ZenonT(30) DEF idle_loop
  <2>2. Outside(now[current]) /\ Outside(Frame("hlt", NULL)) /\ HolderOK(current, Frame("hlt", NULL))
    BY <1>0, <2>1, PlainOutside, ZenonT(30) DEF Frame
  <2> QED BY <1>1, <2>1, <2>2, PlainMove, ZenonT(30) DEF LockKept
<1>5. CASE timer_sleep
  <2>1. CASE Continue(Under(current))
    BY <1>0, <1>1, <1>5, <2>1, PopLock DEF timer_sleep, LockKept
  <2>2. CASE UNCHANGED agenda
    BY <1>1, <2>2, StillView, LockQuiet DEF LockKept
  <2> QED BY <1>5, <2>1, <2>2, SMTT(30) DEF timer_sleep
<1> QED BY <1>2, <1>3, <1>4, <1>5

LEMMA CallLock ==
  ASSUME TypeOK, AgendaInv, LockInv, Call
  PROVE  AgendaInv' /\ LockInv' /\ UNCHANGED lock_holder
<1>0. current \in Thread /\ LockKept
  BY DEF TypeOK, Call, LockKept, synch
<1>1. AgendaInv' /\ now[current] = End
  BY CallView
<1>2. PICK f : CallFrame(f) /\ Moves(f)
  BY <1>0, CallView, MovesView, ZenonT(30)
<1>3. Outside(now[current])
  BY <1>0, <1>1, PlainOutside, ZenonT(30) DEF End, Frame
<1>4. Outside(f) /\ HolderOK(current, f)
  <2>1. CASE f.op \in {"sema_down", "sema_try_down", "cond_signal", "cond_broadcast", "create",
                       "timer_sleep"}
    BY <1>0, <2>1, PlainOutside
  <2>2. CASE \E s \in Semaphore : f = Frame("sema_up", s)
    BY <1>0, <2>2, PlainOutside, SMTT(30)
  <2>3. CASE \E l \in Lock : f = Frame("clear_holder", l) /\ lock_holder[l] = current
    BY <2>3 DEF Outside, HolderOK, Frame
  <2>4. CASE \E c \in Condition : f = Frame("cond_enqueue", c) /\ lock_holder[LockOf[c]] = current
    BY <2>4 DEF Outside, HolderOK, Frame
  <2> QED BY <1>2, <2>1, <2>2, <2>3, <2>4 DEF CallFrame
<1> QED BY <1>0, <1>1, <1>2, <1>3, <1>4, PlainMove, SMTT(30) DEF LockKept

LEMMA InterruptLock ==
  ASSUME TypeOK, AgendaInv, LockInv, TimerInterrupt \/ DeviceInterrupt
  PROVE  AgendaInv' /\ LockInv' /\ UNCHANGED lock_holder
<1>1. LockKept
  <2>1. CASE TimerInterrupt
    BY <2>1 DEF TimerInterrupt, LockKept, synch
  <2>2. CASE DeviceInterrupt
    <3>1. PICK s \in DeviceSema : SemaUp(s) /\ UNCHANGED lock_holder
      BY <2>2 DEF DeviceInterrupt
    <3>2. s \notin Lock /\ sema_value' = [sema_value EXCEPT ![s] = @ + 1]
      BY <3>1, Disjoint, KernelAssumption DEF SemaUp
    <3> QED BY <3>1, <3>2 DEF LockKept, TypeOK
  <2> QED BY <2>1, <2>2
<1>2. ASSUME NEW t \in Thread, {now'[t].op, now[t].op} \subseteq Polls
      PROVE  Outside(now[t]) /\ Outside(now'[t]) /\ HolderOK(t, now'[t])
  BY <1>2, PlainOutside DEF Polls
<1> QED BY <1>1, <1>2, InterruptView, LockQuiet DEF LockKept

(* The holder member passes through NULL.                                  *)
NotStolen == \A l \in Lock : lock_holder[l] # NULL => lock_holder'[l] \in {lock_holder[l], NULL}

LEMMA LockStep ==
  ASSUME TypeOK, AgendaInv, LockInv, [Next]_vars
  PROVE  AgendaInv' /\ LockInv' /\ NotStolen
<1>1. CASE ThreadStep
  <2>1. agenda[current] # <<>>
    BY <1>1 DEF ThreadStep
  <2>2. CASE SynchStep
    <3>1. CASE sema_down \/ sema_up \/ sema_try_down
      BY <2>1, <3>1, SemaDownLock, SemaUpLock, TryLock, ZenonT(30)
         DEF sema_down, sema_up, sema_try_down, NotStolen
    <3>2. CASE set_holder \/ clear_holder
      BY <2>1, <3>2, SetHolderLock, ClearHolderLock, SMTT(30) DEF NotStolen
    <3>3. CASE cond_enqueue \/ cond_signal \/ cond_broadcast
      BY <2>1, <3>3, CondLock, ZenonT(30) DEF cond_enqueue, cond_signal, cond_broadcast, synch, NotStolen
    <3> QED BY <2>2, <3>1, <3>2, <3>3, SMTT(30) DEF SynchStep
  <2>3. CASE create \/ read_tid \/ write_tid \/ unblock \/ set_idle \/ idle_loop \/ timer_sleep
    BY <2>1, <2>3, ThreadLock DEF NotStolen
  <2> QED BY <1>1, <2>2, <2>3 DEF ThreadStep
<1>2. CASE Call
  BY <1>2, CallLock DEF NotStolen
<1>3. CASE TimerInterrupt \/ DeviceInterrupt
  BY <1>3, InterruptLock DEF NotStolen
<1>4. CASE Yield \/ Exit \/ UNCHANGED vars
  <2>1. UNCHANGED agenda /\ LockKept
    BY <1>4 DEF Yield, Exit, vars, LockKept, synch
  <2> QED BY <2>1, StillView, LockQuiet DEF LockKept, NotStolen
<1> QED BY <1>1, <1>2, <1>3, <1>4, SMTT(30) DEF Next

LEMMA LockInit ==
  ASSUME Init
  PROVE  AgendaInv /\ LockInv
<1>1. PICK i \in Thread \ {Main} :
        /\ agenda = [t \in Thread |-> CASE t = Main -> <<Frame("sema_down", IdleStarted)>>
                                        [] t = i -> idle [] OTHER -> <<>>]
        /\ sema_value = [s \in Sema |-> IF s \in Lock THEN 1 ELSE 0]
        /\ lock_holder = [l \in Lock |-> NULL]
  BY DEF Init
<1>2. /\ agenda[Main] = <<Frame("sema_down", IdleStarted)>> /\ agenda[i] = idle
      /\ \A t \in Thread : t # Main /\ t # i => agenda[t] = <<>>
  BY <1>1, ThreadAssumption
<1>3. WellFormed(Main, <<Frame("sema_down", IdleStarted)>>)
      /\ First(<<Frame("sema_down", IdleStarted)>>) = Frame("sema_down", IdleStarted)
  <2>1. Frame("sema_down", IdleStarted) \in Frames /\ Frame("sema_down", IdleStarted).op = "sema_down"
    BY KernelAssumption, SMTT(30) DEF Frame, Frames, Op, Sema
  <2>2. Fits(Main, Frame("sema_down", IdleStarted), End)
    BY KernelAssumption, SMTT(30) DEF Fits
  <2> QED BY <2>1, <2>2, OneFrame, ThreadAssumption, ZenonT(30)
<1>4. WellFormed(i, idle) /\ First(idle) = Frame("set_idle", NULL)
  <2>1. /\ Len(idle) = 3 /\ idle[1] = Frame("set_idle", NULL) /\ idle[2] = Frame("sema_up", IdleStarted)
        /\ idle[3] = Frame("idle_loop", NULL) /\ idle # <<>> /\ Head(idle) = Frame("set_idle", NULL)
    BY SMTT(30) DEF idle
  <2>2. /\ Fits(i, idle[1], idle[2]) /\ Fits(i, idle[2], idle[3]) /\ Fits(i, idle[3], End)
    <3>1. Frame("idle_loop", NULL).op = "idle_loop"
      BY DEF Frame
    <3> QED BY <2>1, <3>1, KernelAssumption, ZenonT(30) DEF Fits
  <2>3. \A j \in 1 .. Len(idle) : j = 1 \/ j = 2 \/ j = 3
    BY <2>1
  <2>4. Below(idle, 1) = idle[2] /\ Below(idle, 2) = idle[3] /\ Below(idle, 3) = End
    BY <2>1 DEF Below
  <2>5. \A j \in 1 .. Len(idle) : Fits(i, idle[j], Below(idle, j)) /\ idle[j].op \notin ChildOps
    BY <2>1, <2>2, <2>3, <2>4 DEF Frame, ChildOps
  <2>6. First(idle) = Frame("set_idle", NULL) /\ First(idle).op = "set_idle"
    BY <2>1, SMTT(30) DEF First, Frame
  <2> QED BY <2>5, <2>6 DEF WellFormed
<1>5. \A t \in Thread : WellFormed(t, <<>>)
  BY DEF WellFormed, First, End, Frame
<1>6. AgendaInv
  BY <1>2, <1>3, <1>4, <1>5, SMTT(30) DEF AgendaInv
<1>7. \A t \in Thread : now[t].op \in {"sema_down", "set_idle", "end"}
  BY <1>2, <1>3, <1>4 DEF now, First, End, Frame
<1>8. \A l \in Lock : sema_value[l] = 1 /\ lock_holder[l] = NULL
  BY <1>1, ZenonT(30) DEF Sema
<1>9. \A t \in Thread, l \in Lock : ~In(t, l)
  BY <1>7, <1>8, ThreadAssumption, SMTT(30) DEF In, Frame
<1>10. HolderInv
  BY <1>7 DEF HolderInv, Frame
<1> QED BY <1>6, <1>8, <1>9, <1>10 DEF LockInv, Token
=============================================================================
