---------------------------- MODULE KernelSynch -----------------------------
(***************************************************************************)
(* The operations of threads/synch.c, the calls that lead to them, the     *)
(* other steps of threads/thread.c and the timer's preserve the invariant  *)
(* of module KernelQueues.                                                 *)
(***************************************************************************)
EXTENDS KernelQueues
-----------------------------------------------------------------------------
(* One lemma per operation.                                                *)

LEMMA SemaDownStep ==
  ASSUME IInv, agenda[current] # <<>>, sema_down, UNCHANGED <<idle_thread, tids>>
  PROVE  IInv'
<1>1. PICK s \in Sema : /\ Top(current) \in {Frame("sema_down", s), Frame("sema_loop", s)}
                        /\ SemaDown(s) /\ UNCHANGED <<lock_holder, cond_waiters>>
  BY SMTT(30) DEF sema_down
<1>2. Top(current).op \in {"sema_down", "sema_loop"}
  BY <1>1 DEF Frame
<1>3. PICK i \in Thread : IsIdle(i)
  BY DEF IInv, IdleInv
<1>4. current # i
  BY <1>2, <1>3, NotIdle
<1>5. CASE sema_value[s] # 0
  <2>1. AgendaKept
    BY <1>1, <1>2, <1>5, PopStep DEF SemaDown, IInv
  <2>2. sema_value' \in [Sema -> Nat]
    <3>1. sema_value \in [Sema -> Nat] /\ sema_value[s] - 1 \in Nat
      BY <1>5, SMTT(30) DEF IInv, TypeOK
    <3>2. sema_value' = [sema_value EXCEPT ![s] = sema_value[s] - 1]
      BY <1>1, <1>5 DEF SemaDown
    <3> QED BY <3>1, <3>2
  <2>3. UNCHANGED <<sched, sema_waiters>>
    BY <1>1, <1>5, SMTT(30) DEF SemaDown
  <2> QED BY <1>1, <1>3, <1>4, <2>1, <2>2, <2>3, QuietStep, ZenonT(30) DEF IInv, TypeOK, tids
<1>6. CASE sema_value[s] = 0
  <2>1. /\ sema_waiters' = [sema_waiters EXCEPT ![s] = Append(@, current)]
        /\ Become("sema_loop", s) /\ thread_block /\ sema_value' = sema_value
    BY <1>1, <1>6 DEF SemaDown
  <2>2. AgendaKept
    <3>1. Frame("sema_loop", s) \in Frames
      BY DEF Frame, Frames, Op
    <3> QED BY <1>2, <2>1, <3>1, BecomeStep DEF IInv, IdleOps
  <2>3. ready_list = <<>> => idle_thread \in Thread
    BY <1>3, <1>4, SomeoneToRun, SMTT(30) DEF IInv
  <2>4. /\ status' \in [Thread -> Status] /\ ready_list' \in Seq(Thread)
        /\ current' \in Thread /\ thread_ticks' \in 0 .. TIME_SLICE - 1
        /\ RunQueueInv'
        /\ \A t \in Thread : t # idle_thread =>
              (status'[t] = "BLOCKED" <=> t = current \/ status[t] = "BLOCKED")
        /\ \A t \in Thread : status[t] \in {"READY", "RUNNING"} /\ t # current
                               => status'[t] \in {"READY", "RUNNING"}
        /\ \A t \in Thread : status[t] = "BLOCKED" \/ t = current
                               => status'[t] \in {"BLOCKED", "RUNNING"}
    BY <2>1, <2>3, BlockStep, SMTT(30) DEF IInv
  <2>5. current \in Thread /\ current # idle_thread /\ ~Nascent(current)
        /\ \A r \in Sema : ~Waits(current, r)
    <3>1. current \in Thread /\ status[current] = "RUNNING"
      BY SMTT(30) DEF IInv, TypeOK, RunQueueInv
    <3>2. current # idle_thread
      BY <1>3, <1>4, <3>1, ThreadAssumption, SMTT(30) DEF IsIdle
    <3>3. ~Nascent(current)
      BY <3>1, SMTT(30) DEF IInv, NascentBlocked
    <3> QED BY <3>1, <3>2, <3>3 DEF IInv, WaitListInv
  <2>6. /\ sema_waiters' \in [Sema -> Seq(Thread)]
        /\ \A r \in Sema : Once(sema_waiters'[r])
        /\ \A r \in Sema, t \in Thread : Waits(t, r)' <=> Waits(t, r) \/ (r = s /\ t = current)
    <3>1. /\ sema_waiters' \in [Sema -> Seq(Thread)]
          /\ \A r \in Sema : sema_waiters'[r] = IF r = s THEN Append(sema_waiters[s], current)
                                                ELSE sema_waiters[r]
      BY <2>1, <2>5 DEF IInv, TypeOK
    <3>2. /\ Once(Append(sema_waiters[s], current))
          /\ \A t : Occurs(t, Append(sema_waiters[s], current))
                      <=> Occurs(t, sema_waiters[s]) \/ t = current
      BY <2>5, AppendOnce DEF IInv, TypeOK, WaitListInv, Waits
    <3>3. \A r \in Sema : Once(sema_waiters'[r])
      BY <3>1, <3>2, ZenonT(30) DEF IInv, WaitListInv
    <3>4. ASSUME NEW r \in Sema, NEW t \in Thread
          PROVE  Occurs(t, sema_waiters'[r]) <=> Occurs(t, sema_waiters[r]) \/ (r = s /\ t = current)
      BY <3>1, <3>2, ZenonT(30)
    <3> QED BY <3>1, <3>3, <3>4 DEF Waits
  <2>7. WaitListInv'
    <3>1. \A r, q \in Sema : \A t \in Thread : Waits(t, r)' /\ Waits(t, q)' => r = q
      BY <2>5, <2>6, SMTT(30) DEF IInv, WaitListInv
    <3>2. \A t \in Thread : (\E r \in Sema : Waits(t, r)')
            <=> status'[t] = "BLOCKED" /\ t # idle_thread /\ ~Nascent(t)
      BY <2>4, <2>5, <2>6, SMTT(30) DEF IInv, WaitListInv
    <3> QED BY <2>2, <2>6, <3>1, <3>2, ZenonT(30) DEF WaitListInv, AgendaKept
  <2>8. NascentBlocked'
    BY <2>2, <2>4, SMTT(30) DEF IInv, NascentBlocked, AgendaKept
  <2>9. IdleInv'
    BY <1>3, <1>4, <2>2, <2>4, <2>5, IdleKept
  <2>10. TypeOK'
    BY <1>1, <2>1, <2>2, <2>4, <2>6, ZenonT(30) DEF IInv, TypeOK, AgendaKept, tids
  <2> QED BY <2>2, <2>4, <2>7, <2>8, <2>9, <2>10, SMTT(30) DEF IInv, AgendaKept
<1> QED BY <1>5, <1>6

(* sema_up(), apart from what it does to the agenda of its caller.         *)
LEMMA SemaUpStep ==
  ASSUME IInv, NEW s \in Sema, SemaUp(s), idle_thread' = idle_thread,
         \A t \in Thread : Nascent(t)' <=> Nascent(t)
  PROVE  /\ status' \in [Thread -> Status] /\ ready_list' \in Seq(Thread)
         /\ current' \in Thread /\ thread_ticks' \in 0 .. TIME_SLICE - 1
         /\ sema_value' \in [Sema -> Nat] /\ sema_waiters' \in [Sema -> Seq(Thread)]
         /\ RunQueueInv' /\ WaitListInv' /\ NascentBlocked'
         /\ idle_thread \in Thread => status'[idle_thread] = status[idle_thread]
         /\ \A t \in Thread : status[t] \in {"READY", "RUNNING"} => status'[t] = status[t]
<1>1. sema_value' \in [Sema -> Nat]
  BY DEF SemaUp, IInv, TypeOK
<1>2. CASE sema_waiters[s] = <<>>
  <2>1. UNCHANGED <<sched, sema_waiters>>
    BY <1>2 DEF SemaUp
  <2>2. WaitListInv' /\ NascentBlocked'
    BY <2>1, WaitersSame DEF IInv, sched
  <2> QED BY <1>1, <2>1, <2>2 DEF IInv, TypeOK, sched, RunQueueInv
<1>3. CASE sema_waiters[s] # <<>>
  <2> DEFINE w == Head(sema_waiters[s])
  <2>1. /\ thread_unblock(w) /\ sema_waiters' = [sema_waiters EXCEPT ![s] = Tail(@)]
    BY <1>3 DEF SemaUp
  <2>2. /\ Tail(sema_waiters[s]) \in Seq(Thread) /\ w \in Thread /\ Waits(w, s)
        /\ Once(Tail(sema_waiters[s]))
        /\ \A t : Occurs(t, Tail(sema_waiters[s])) <=> Waits(t, s) /\ t # w
    BY <1>3, TailOnce DEF IInv, TypeOK, WaitListInv, Waits
  <2> HIDE DEF w
  <2>3. status[w] = "BLOCKED" /\ w # idle_thread /\ ~Nascent(w)
        /\ \A r \in Sema : Waits(w, r) => r = s
    BY <2>2 DEF IInv, WaitListInv
  <2>4. /\ status' \in [Thread -> Status] /\ ready_list' \in Seq(Thread)
        /\ current' \in Thread /\ thread_ticks' \in 0 .. TIME_SLICE - 1
        /\ RunQueueInv'
        /\ \A t \in Thread : status'[t] = IF t = w THEN "READY" ELSE status[t]
    BY <2>1, <2>2, <2>3, UnblockStep DEF IInv
  <2>5. /\ sema_waiters' \in [Sema -> Seq(Thread)]
        /\ \A r \in Sema : Once(sema_waiters'[r])
        /\ \A r \in Sema, t \in Thread : Waits(t, r)' <=> Waits(t, r) /\ t # w
    <3>1. /\ sema_waiters' \in [Sema -> Seq(Thread)]
          /\ \A r \in Sema : sema_waiters'[r] = IF r = s THEN Tail(sema_waiters[s])
                                                ELSE sema_waiters[r]
      BY <2>1, <2>2 DEF IInv, TypeOK
    <3>2. \A r \in Sema : Once(sema_waiters'[r])
      BY <2>2, <3>1, ZenonT(30) DEF IInv, WaitListInv
    <3>3. ASSUME NEW r \in Sema, NEW t \in Thread
          PROVE  Occurs(t, sema_waiters'[r]) <=> Occurs(t, sema_waiters[r]) /\ t # w
      BY <2>2, <2>3, <3>1, ZenonT(30) DEF Waits
    <3> QED BY <3>1, <3>2, <3>3 DEF Waits
  <2>6. WaitListInv'
    <3>1. \A r, q \in Sema : \A t \in Thread : Waits(t, r)' /\ Waits(t, q)' => r = q
      BY <2>5 DEF IInv, WaitListInv
    <3>2. \A t \in Thread : (\E r \in Sema : Waits(t, r)')
            <=> status'[t] = "BLOCKED" /\ t # idle_thread /\ ~Nascent(t)
      BY <2>4, <2>5 DEF IInv, WaitListInv
    <3> QED BY <2>5, <3>1, <3>2 DEF WaitListInv
  <2>7. NascentBlocked'
    BY <2>3, <2>4 DEF IInv, NascentBlocked
  <2> QED BY <1>1, <2>3, <2>4, <2>5, <2>6, <2>7
<1> QED BY <1>2, <1>3
-----------------------------------------------------------------------------

LEMMA PushStep ==
  ASSUME TypeOK, UniqueCreator, NEW f \in Plain, Continue(<<f>> \o agenda[current])
  PROVE  AgendaKept
<1> DEFINE old == agenda[current]
           new == <<f>> \o old
<1>1. old \in Seq(Frames) /\ agenda' = [agenda EXCEPT ![current] = new]
  BY DEF TypeOK, Continue
<1>2. <<f>> \in Seq(Frames) /\ Len(<<f>>) = 1 /\ <<f>>[1] = f /\ f.op \notin IdleOps \cup {"unblock"}
  BY DEF Plain
<1>3. /\ new \in Seq(Frames) /\ Len(new) = 1 + Len(old) /\ Len(old) \in Nat
      /\ \A j \in 1 .. 1 + Len(old) : new[j] = IF j <= 1 THEN <<f>>[j] ELSE old[j - 1]
  BY <1>1, <1>2, Joined
<1> HIDE DEF new, old
<1>4. new[1] = f /\ \A j \in 1 .. Len(old) : new[j + 1] = old[j]
  BY <1>2, <1>3
<1>5. Shifted(new, old, -1)
  BY <1>2, <1>3, <1>4 DEF Shifted
<1>6. \E d \in Int : Shifted(new, agenda[current], d)
  BY <1>5 DEF old
<1> QED BY <1>1, <1>3, <1>6, KeptStep, ZenonT(30)

LEMMA CallAgenda ==
  ASSUME TypeOK, UniqueCreator, agenda[current] = <<>>, NEW frames \in Seq(Plain), Continue(frames)
  PROVE  AgendaKept
<1>1. frames \in Seq(Frames) /\ agenda' = [agenda EXCEPT ![current] = frames]
  BY PlainSeq DEF Continue
<1>2. Shifted(frames, agenda[current], 0)
  BY PlainSeq, SMTT(30) DEF Shifted
<1>3. \E d \in Int : Shifted(frames, agenda[current], d)
  BY <1>2
<1> QED BY <1>1, <1>3, KeptStep, ZenonT(30)

LEMMA CallStep ==
  ASSUME IInv, Call
  PROVE  IInv'
<1>1. PICK i \in Thread : IsIdle(i)
  BY SMTT(30) DEF IInv, IdleInv
<1>2. agenda[current] = <<>> /\ current # i
  BY <1>1, NotIdle DEF Call
<1>3. \E frames \in Seq(Plain) : Continue(frames)
  <2>1. /\ \A l \in ClientLock : l \in Lock /\ l \in Sema
        /\ \A s \in ClientSema : s \in Sema
        /\ \A c \in Condition : LockOf[c] \in Lock
        /\ \A n \in Sleeps : n \in Int
    BY KernelAssumption DEF ClientLock, ClientSema, Sema
  <2>2. TypeOK
    BY DEF IInv
  <2>3. ASSUME NEW op \in {"sema_down", "sema_up", "sema_try_down", "cond_signal",
                           "cond_broadcast", "create"},
               NEW arg \in Sema \cup Condition \cup {NULL},
               Continue(<<Frame(op, arg)>>)
        PROVE  \E frames \in Seq(Plain) : Continue(frames)
    BY <2>3, PlainFrame, ZenonT(30) DEF Op, IdleOps
  <2>4. CASE \E l \in ClientLock : Continue(lock_acquire(l)) \/ Continue(lock_release(l))
    BY <2>1, <2>4, PlainCalls
  <2>5. CASE \E c \in Condition : Continue(cond_wait(c, LockOf[c]))
    BY <2>1, <2>2, <2>5, PlainCalls
  <2>6. CASE \E l \in ClientLock : Continue(<<Frame("sema_try_down", l)>>)
    BY <2>1, <2>3, <2>6
  <2>7. CASE \E s \in ClientSema : \/ Continue(<<Frame("sema_down", s)>>)
                                   \/ Continue(<<Frame("sema_try_down", s)>>)
                                   \/ Continue(<<Frame("sema_up", s)>>)
    BY <2>1, <2>3, <2>7
  <2>8. CASE \E c \in Condition : \/ Continue(<<Frame("cond_signal", c)>>)
                                  \/ Continue(<<Frame("cond_broadcast", c)>>)
    BY <2>3, <2>8, ZenonT(30)
  <2>9. CASE Continue(<<Frame("create", NULL)>>)
    BY <2>3, <2>9
  <2>10. CASE \E n \in Sleeps : Continue(<<Frame("timer_sleep", n)>>)
    <3>1. \A n \in Sleeps : <<Frame("timer_sleep", n)>> \in Seq(Plain)
      BY <2>1 DEF Plain, Frame, Frames, IdleOps
    <3> QED BY <2>10, <3>1, ZenonT(30)
  <2> QED BY <2>4, <2>5, <2>6, <2>7, <2>8, <2>9, <2>10, Zenon DEF Call, Enter
<1>4. AgendaKept
  BY <1>2, <1>3, CallAgenda, SMTT(30) DEF IInv
<1>5. UNCHANGED <<sched, idle_thread, synch, tids>>
  BY SMTT(30) DEF Call
<1> QED BY <1>1, <1>2, <1>4, <1>5, QuietStep, ZenonT(30) DEF IInv, TypeOK, synch, tids

(* The remaining steps of synch.c.                                         *)
LEMMA SemaUpByThread ==
  ASSUME IInv, agenda[current] # <<>>, sema_up, UNCHANGED <<idle_thread, tids>>
  PROVE  IInv'
<1>1. PICK s \in Sema : /\ Top(current) = Frame("sema_up", s) /\ SemaUp(s)
                        /\ Continue(Under(current)) /\ UNCHANGED <<lock_holder, cond_waiters>>
  BY DEF sema_up
<1>2. Top(current).op = "sema_up"
  BY <1>1, SMTT(30) DEF Frame
<1>3. AgendaKept
  BY <1>1, <1>2, PopStep, SMTT(30) DEF IInv
<1>4. PICK i \in Thread : IsIdle(i)
  BY DEF IInv, IdleInv
<1>5. /\ status' \in [Thread -> Status] /\ ready_list' \in Seq(Thread)
      /\ current' \in Thread /\ thread_ticks' \in 0 .. TIME_SLICE - 1
      /\ sema_value' \in [Sema -> Nat] /\ sema_waiters' \in [Sema -> Seq(Thread)]
      /\ RunQueueInv' /\ WaitListInv' /\ NascentBlocked'
      /\ idle_thread \in Thread => status'[idle_thread] = status[idle_thread]
      /\ \A t \in Thread : status[t] \in {"READY", "RUNNING"} => status'[t] = status[t]
  BY <1>1, <1>3, SemaUpStep, ZenonT(30) DEF AgendaKept
<1>6. TypeOK'
  BY <1>1, <1>3, <1>5, ZenonT(30) DEF IInv, TypeOK, AgendaKept, tids
<1>7. IdleInv'
  <2>1. CASE current # i
    <3>1. /\ status[i] \in {"READY", "RUNNING"} => status'[i] \in {"READY", "RUNNING"}
          /\ status[i] = "BLOCKED" => status'[i] \in {"READY", "BLOCKED", "RUNNING"}
      BY <1>4, <1>5, ZenonT(30) DEF IsIdle
    <3> QED BY <1>3, <1>4, <2>1, <3>1, IdleKept, SMTT(30) DEF IInv, TypeOK
  <2>2. CASE current = i
    <3>1. agenda[i] = <<Frame("sema_up", IdleStarted), Frame("idle_loop", NULL)>> /\ idle_thread = i
      BY <1>2, <1>4, <2>2 DEF IsIdle, idle, Top, Frame
    <3>2. agenda'[i] = <<Frame("idle_loop", NULL)>>
      BY <1>1, <2>2, <3>1, SMTT(30) DEF Continue, Under, IInv, TypeOK
    <3>3. \A t \in Thread \ {i} : agenda'[t] = agenda[t]
      BY <1>3, <2>2, SMTT(30) DEF AgendaKept
    <3>4. IsIdle(i)'
      BY <1>4, <1>5, <3>1, <3>2, <3>3, ThreadAssumption, KernelAssumption, ZenonT(30) DEF IsIdle
    <3> QED BY <3>4 DEF IdleInv
  <2> QED BY <2>1, <2>2
<1> QED BY <1>3, <1>5, <1>6, <1>7, SMTT(30) DEF IInv, AgendaKept

LEMMA OtherSynchSteps ==
  ASSUME IInv, agenda[current] # <<>>, UNCHANGED <<idle_thread, tids>>,
         sema_try_down \/ set_holder \/ clear_holder \/ cond_enqueue \/ cond_signal \/ cond_broadcast
  PROVE  IInv'
<1> USE DEF IInv
<1>1. PICK i \in Thread : IsIdle(i)
  BY DEF IdleInv
<1>2. /\ current \in Thread /\ sema_value \in [Sema -> Nat]
      /\ lock_holder \in [Lock -> Thread \cup {NULL}]
      /\ cond_waiters \in [Condition -> Seq(Thread)] /\ tid' \in [Thread -> Nat] /\ next_tid' \in Nat
  BY SMTT(30) DEF TypeOK, tids
<1>3. CASE sema_try_down
  <2>1. PICK s \in Lock \cup Semaphore :
          /\ Top(current) = Frame("sema_try_down", s)
          /\ IF sema_value[s] > 0
             THEN /\ sema_value' = [sema_value EXCEPT ![s] = @ - 1]
                  /\ IF s \in Lock THEN Become("set_holder", s) ELSE Continue(Under(current))
             ELSE Continue(Under(current)) /\ UNCHANGED sema_value
          /\ UNCHANGED <<sched, sema_waiters, lock_holder, cond_waiters>>
    BY <1>3, SMTT(30) DEF sema_try_down
  <2>2. Top(current).op = "sema_try_down" /\ s \in Sema
    BY <2>1 DEF Frame, Sema
  <2>3. sema_value' \in [Sema -> Nat]
    <3>1. CASE sema_value[s] > 0
      <4>1. sema_value[s] - 1 \in Nat
        BY <1>2, <2>2, <3>1, SMTT(30)
      <4> QED BY <1>2, <2>1, <3>1, <4>1, ZenonT(30)
    <3>2. CASE ~(sema_value[s] > 0)
      BY <1>2, <2>1, <3>2, SMTT(30)
    <3> QED BY <3>1, <3>2, SMTT(30)
  <2>4. AgendaKept
    <3>1. CASE Continue(Under(current))
      BY <2>2, <3>1, PopStep, SMTT(30)
    <3>2. CASE Become("set_holder", s)
      <4>1. Frame("set_holder", s) \in Frames
        BY <2>2 DEF Frame, Frames, Op
      <4> QED BY <2>2, <3>2, <4>1, BecomeStep DEF IdleOps
    <3> QED BY <2>1, <3>1, <3>2
  <2>5. current # i
    BY <1>1, <2>2, NotIdle, SMTT(30)
  <2> QED BY <1>1, <1>2, <2>1, <2>3, <2>4, <2>5, QuietStep, ZenonT(30)
<1>4. ASSUME NEW op \in {"set_holder", "clear_holder"}, NEW h \in Thread \cup {NULL}, SetHolder(op, h)
      PROVE  IInv'
  <2>1. PICK l \in Lock :
          /\ Top(current) = Frame(op, l)
          /\ lock_holder' = [lock_holder EXCEPT ![l] = h]
          /\ Continue(Under(current))
          /\ UNCHANGED <<sched, sema_value, sema_waiters, cond_waiters>>
    BY <1>4, ZenonT(30) DEF SetHolder
  <2>2. Top(current).op = op
    BY <2>1, SMTT(30) DEF Frame
  <2>3. lock_holder' \in [Lock -> Thread \cup {NULL}]
    BY <1>2, <2>1, SMTT(30)
  <2>4. AgendaKept /\ current # i
    BY <1>1, <2>1, <2>2, PopStep, NotIdle, SMTT(30)
  <2> QED BY <1>1, <1>2, <2>1, <2>3, <2>4, QuietStep, ZenonT(30)
<1>5. CASE set_holder \/ clear_holder
  BY <1>2, <1>4, <1>5, SMTT(30) DEF set_holder, clear_holder
<1>6. CASE cond_enqueue
  <2>1. PICK c \in Condition :
          /\ Top(current) = Frame("cond_enqueue", c)
          /\ sema_value' = [sema_value EXCEPT ![current] = 0]
          /\ cond_waiters' = [cond_waiters EXCEPT ![c] = Append(@, current)]
          /\ Continue(Under(current))
          /\ UNCHANGED <<sched, sema_waiters, lock_holder>>
    BY <1>6, ZenonT(30) DEF cond_enqueue
  <2>2. Top(current).op = "cond_enqueue"
    BY <2>1 DEF Frame
  <2>3. sema_value' \in [Sema -> Nat] /\ cond_waiters' \in [Condition -> Seq(Thread)]
    <3>1. Append(cond_waiters[c], current) \in Seq(Thread) /\ 0 \in Nat
      BY <1>2, SMTT(30)
    <3> QED BY <1>2, <2>1, <3>1, ZenonT(30)
  <2>4. AgendaKept /\ current # i
    BY <1>1, <2>1, <2>2, PopStep, NotIdle
  <2> QED BY <1>1, <1>2, <2>1, <2>3, <2>4, QuietStep, ZenonT(30)
<1>7. CASE cond_signal
  <2>1. PICK c \in Condition :
          /\ Top(current) = Frame("cond_signal", c)
          /\ IF cond_waiters[c] # <<>>
             THEN /\ cond_waiters' = [cond_waiters EXCEPT ![c] = Tail(@)]
                  /\ Become("sema_up", Head(cond_waiters[c]))
             ELSE Continue(Under(current)) /\ UNCHANGED cond_waiters
          /\ UNCHANGED <<sched, sema_value, sema_waiters, lock_holder>>
    BY <1>7, SMTT(30) DEF cond_signal
  <2>2. Top(current).op = "cond_signal"
    BY <2>1, SMTT(30) DEF Frame
  <2>3. cond_waiters' \in [Condition -> Seq(Thread)]
    <3>1. cond_waiters[c] # <<>> => Tail(cond_waiters[c]) \in Seq(Thread)
      BY <1>2
    <3> QED BY <1>2, <2>1, <3>1, ZenonT(30)
  <2>4. AgendaKept
    <3>1. CASE cond_waiters[c] = <<>>
      BY <2>1, <2>2, <3>1, PopStep, SMTT(30)
    <3>2. CASE cond_waiters[c] # <<>>
      <4>1. Head(cond_waiters[c]) \in Thread
        BY <1>2, <3>2
      <4>2. Frame("sema_up", Head(cond_waiters[c])) \in Frames
        BY <4>1, SMTT(30) DEF Frame, Frames, Op, Sema
      <4> QED BY <2>1, <2>2, <3>2, <4>2, BecomeStep, SMTT(30) DEF IdleOps
    <3> QED BY <3>1, <3>2, SMTT(30)
  <2>5. current # i
    BY <1>1, <2>2, NotIdle, SMTT(30)
  <2> QED BY <1>1, <1>2, <2>1, <2>3, <2>4, <2>5, QuietStep, ZenonT(30)
<1>8. CASE cond_broadcast
  <2>1. PICK c \in Condition :
          /\ Top(current) = Frame("cond_broadcast", c)
          /\ Continue(IF cond_waiters[c] = <<>> THEN Under(current)
                      ELSE <<Frame("cond_signal", c)>> \o agenda[current])
          /\ UNCHANGED <<sched, synch>>
    BY <1>8, SMTT(30) DEF cond_broadcast
  <2>2. Top(current).op = "cond_broadcast"
    BY <2>1, SMTT(30) DEF Frame
  <2>3. Frame("cond_signal", c) \in Plain
    BY PlainFrame, SMTT(30) DEF Op, IdleOps
  <2>4. AgendaKept
    BY <2>1, <2>2, <2>3, PopStep, PushStep, SMTT(30)
  <2>5. current # i
    BY <1>1, <2>2, NotIdle
  <2> QED BY <1>1, <1>2, <2>1, <2>4, <2>5, QuietStep, ZenonT(30) DEF synch
<1> QED BY <1>3, <1>5, <1>6, <1>7, <1>8
-----------------------------------------------------------------------------
(* The steps of thread.c that are left.                                   *)

LEMMA TidSteps ==
  ASSUME IInv, agenda[current] # <<>>, read_tid \/ write_tid
  PROVE  IInv'
<1>1. PICK i \in Thread : IsIdle(i)
  BY ZenonT(30) DEF IInv, IdleInv
<1>2. Top(current).op \in {"read_tid", "write_tid"} /\ Continue(Under(current))
  BY DEF read_tid, write_tid, Frame
<1>3. current # i /\ AgendaKept
  BY <1>1, <1>2, NotIdle, PopStep, ZenonT(30) DEF IInv
<1>4. UNCHANGED <<sched, idle_thread, synch>> /\ tid' \in [Thread -> Nat] /\ next_tid' \in Nat
  BY SynchAssumption, SMTT(30) DEF IInv, TypeOK, read_tid, write_tid
<1> QED BY <1>1, <1>3, <1>4, QuietStep, ZenonT(30) DEF IInv, TypeOK, synch

(* Every thread keeps its creations, and only the idle thread may leave    *)
(* its hlt.                                                                *)
AgendaMoved(i) ==
  /\ agenda' \in [Thread -> Seq(Frames)]
  /\ \A t \in Thread : Nascent(t)' <=> Nascent(t)
  /\ UniqueCreator'
  /\ \/ agenda'[i] = agenda[i]
     \/ agenda[i] = <<Frame("hlt", NULL)>> /\ agenda'[i] = <<Frame("idle_loop", NULL)>>
  /\ \A t \in Thread \ {i} : \A j \in DOMAIN agenda'[t] : agenda'[t][j].op \notin IdleOps

LEMMA AgendaStill ==
  ASSUME IInv, NEW i \in Thread, IsIdle(i), agenda' = agenda
  PROVE  AgendaMoved(i)
<1>1. UniqueCreator' /\ \A t \in Thread : Nascent(t)' <=> Nascent(t)
  BY DEF IInv, UniqueCreator, Nascent
<1> QED BY <1>1 DEF IInv, TypeOK, IsIdle, AgendaMoved

(* The idle thread's place after a step that does not block it.            *)
LEMMA IdleMoved ==
  ASSUME NEW i \in Thread, IsIdle(i), AgendaMoved(i), idle_thread' = idle_thread,
         status[i] \in {"READY", "RUNNING"} => status'[i] \in {"READY", "RUNNING"},
         status[i] = "BLOCKED" => status'[i] \in {"READY", "BLOCKED", "RUNNING"}
  PROVE  IdleInv'
<1>1. idle # <<Frame("hlt", NULL)>>
  <2>1. Len(idle) = 3 /\ Len(<<Frame("hlt", NULL)>>) = 1
    BY DEF idle
  <2> QED BY <2>1
<1>2. IsIdle(i)'
  BY <1>1, ZenonT(30) DEF IsIdle, AgendaMoved, idle
<1> QED BY <1>2 DEF IdleInv

(* A step that at most changes who runs.                                   *)
LEMMA SwitchStep ==
  ASSUME IInv, NEW i \in Thread, IsIdle(i), AgendaMoved(i),
         UNCHANGED <<idle_thread, synch, tids>>,
         status' \in [Thread -> Status], ready_list' \in Seq(Thread), current' \in Thread,
         thread_ticks' \in 0 .. TIME_SLICE - 1, RunQueueInv',
         \A t \in Thread : t # idle_thread => (status'[t] = "BLOCKED" <=> status[t] = "BLOCKED"),
         status[i] \in {"READY", "RUNNING"} => status'[i] \in {"READY", "RUNNING"},
         status[i] = "BLOCKED" => status'[i] \in {"READY", "BLOCKED", "RUNNING"}
  PROVE  IInv'
<1>1. TypeOK'
  BY ZenonT(30) DEF IInv, TypeOK, AgendaMoved, synch, tids
<1>2. WaitListInv' /\ NascentBlocked'
  BY WaitersSame DEF IInv, AgendaMoved, synch
<1>3. IdleInv'
  BY IdleMoved
<1> QED BY <1>1, <1>2, <1>3 DEF IInv, AgendaMoved

LEMMA YieldSwitch ==
  ASSUME IInv, NEW i \in Thread, IsIdle(i), AgendaMoved(i), thread_yield,
         UNCHANGED <<idle_thread, synch, tids>>
  PROVE  IInv'
<1>1. /\ status' \in [Thread -> Status] /\ ready_list' \in Seq(Thread)
      /\ current' \in Thread /\ thread_ticks' \in 0 .. TIME_SLICE - 1
      /\ RunQueueInv'
      /\ \A t \in Thread : t # idle_thread => (status'[t] = "BLOCKED" <=> status[t] = "BLOCKED")
      /\ \A t \in Thread : status[t] \in {"READY", "RUNNING"} => status'[t] \in {"READY", "RUNNING"}
      /\ \A t \in Thread : status[t] = "BLOCKED" => status'[t] \in {"BLOCKED", "RUNNING"}
  BY YieldStep DEF IInv
<1> QED BY <1>1, SwitchStep

LEMMA YieldAction ==
  ASSUME IInv, Yield
  PROVE  IInv'
<1>1. PICK i \in Thread : IsIdle(i)
  BY DEF IInv, IdleInv
<1> QED BY <1>1, AgendaStill, YieldSwitch, ZenonT(30) DEF Yield

LEMMA ExitAction ==
  ASSUME IInv, Exit
  PROVE  IInv'
<1>1. PICK i \in Thread : IsIdle(i)
  BY DEF IInv, IdleInv
<1>2. agenda[current] = <<>> /\ current # i /\ current # idle_thread
  <2>1. agenda[current] = <<>> /\ current # i
    BY <1>1, NotIdle DEF Exit
  <2> QED BY <1>1, <2>1, ThreadAssumption DEF IsIdle, IInv, TypeOK
<1>3. ready_list = <<>> => idle_thread \in Thread
  BY <1>1, <1>2, SomeoneToRun, ZenonT(30) DEF IInv
<1>4. /\ status' \in [Thread -> Status] /\ ready_list' \in Seq(Thread)
      /\ current' \in Thread /\ thread_ticks' \in 0 .. TIME_SLICE - 1
      /\ RunQueueInv'
      /\ \A t \in Thread : t # idle_thread => (status'[t] = "BLOCKED" <=> status[t] = "BLOCKED")
      /\ \A t \in Thread : status[t] \in {"READY", "RUNNING"} /\ t # current
                             => status'[t] \in {"READY", "RUNNING"}
      /\ \A t \in Thread : status[t] = "BLOCKED" => status'[t] \in {"BLOCKED", "RUNNING"}
  BY <1>2, <1>3, ExitStep DEF IInv, Exit
<1>5. AgendaMoved(i) /\ UNCHANGED <<idle_thread, synch, tids>>
  BY <1>1, AgendaStill DEF Exit
<1> QED BY <1>1, <1>2, <1>4, <1>5, SwitchStep

LEMMA SleepStep ==
  ASSUME IInv, agenda[current] # <<>>, timer_sleep
  PROVE  IInv'
<1>1. PICK i \in Thread : IsIdle(i)
  BY DEF IInv, IdleInv
<1>2. current # i /\ Top(current).op = "timer_sleep"
  BY <1>1, NotIdle, ZenonT(30) DEF timer_sleep
<1>3. CASE thread_yield /\ agenda' = agenda
  BY <1>1, <1>3, AgendaStill, YieldSwitch DEF timer_sleep
<1>4. CASE Continue(Under(current)) /\ UNCHANGED sched
  <2>1. AgendaKept
    BY <1>2, <1>4, PopStep, ZenonT(30) DEF IInv
  <2>2. UNCHANGED <<idle_thread, synch, tids>>
    BY DEF timer_sleep
  <2> QED BY <1>1, <1>2, <1>4, <2>1, <2>2, QuietStep, ZenonT(30) DEF IInv, TypeOK, synch, tids
<1> QED BY <1>3, <1>4 DEF timer_sleep
-----------------------------------------------------------------------------
(* Interrupts.                                                             *)

(* Frames f are frames g, but for the ticks a sleeper has left.            *)
SameFrames(f, g) ==
  /\ f \in Seq(Frames) /\ Len(f) = Len(g)
  /\ \A j \in 1 .. Len(g) : f[j].op = g[j].op /\ (g[j].op = "timer_sleep" \/ f[j] = g[j])

LEMMA ElapseFrames ==
  ASSUME NEW f \in Seq(Frames)
  PROVE  SameFrames(Elapse(f), f)
<1>1. CASE f # <<>> /\ Head(f).op = "timer_sleep" /\ Head(f).arg > 0
  <2> DEFINE x == [f[1] EXCEPT !.arg = @ - 1]
             g == [f EXCEPT ![1] = x]
  <2>1. Len(f) \in Nat \ {0} /\ 1 \in 1 .. Len(f) /\ f[1] \in Frames /\ Head(f) = f[1]
    BY <1>1
  <2>2. f[1] \in [op : {"timer_sleep"}, arg : Int]
    BY <1>1, <2>1 DEF Frames, Op
  <2>3. x \in Frames /\ x.op = "timer_sleep" /\ f[1].op = "timer_sleep"
    BY <2>2 DEF Frames
  <2>4. Elapse(f) = g
    BY <1>1 DEF Elapse
  <2> HIDE DEF x
  <2>5. /\ g \in Seq(Frames) /\ Len(g) = Len(f)
        /\ \A j \in 1 .. Len(f) : g[j] = IF j = 1 THEN x ELSE f[j]
    BY <2>1, <2>3
  <2> HIDE DEF g
  <2> QED BY <2>3, <2>4, <2>5 DEF SameFrames
<1>2. CASE ~(f # <<>> /\ Head(f).op = "timer_sleep" /\ Head(f).arg > 0)
  BY <1>2, ZenonT(30) DEF Elapse, SameFrames
<1> QED BY <1>1, <1>2, ZenonT(30)

LEMMA InterruptAgenda ==
  ASSUME IInv, NEW i \in Thread, IsIdle(i), NEW g,
         \A t \in Thread : SameFrames(g[t], agenda[t]),
         g[i] = agenda[i],
         agenda' = [t \in Thread |-> AfterInterrupt(t, g[t])]
  PROVE  AgendaMoved(i)
<1> DEFINE Hlt  == <<Frame("hlt", NULL)>>
           Loop == <<Frame("idle_loop", NULL)>>
<1>1. /\ Len(Hlt) = 1 /\ Hlt[1].op = "hlt" /\ Len(Loop) = 1 /\ Loop[1].op = "idle_loop"
      /\ Loop \in Seq(Frames)
  BY DEF Frame, Frames, Op
<1>2. [Hlt EXCEPT ![1].op = "idle_loop"] = Loop
  BY DEF Frame
<1> HIDE DEF Hlt, Loop
<1>3. ASSUME NEW t \in Thread PROVE agenda'[t] = g[t] \/ (g[t] = Hlt /\ agenda'[t] = Loop)
  BY <1>2 DEF AfterInterrupt, Hlt
<1>4. ASSUME NEW t \in Thread PROVE agenda[t] \in Seq(Frames) /\ DOMAIN agenda[t] = 1 .. Len(agenda[t])
  BY SMTT(30) DEF IInv, TypeOK
<1>5. ASSUME NEW t \in Thread
      PROVE  /\ agenda'[t] \in Seq(Frames) /\ DOMAIN agenda'[t] = DOMAIN agenda[t]
             /\ \A j \in DOMAIN agenda[t] :
                  /\ \/ agenda[t][j].op # "unblock" /\ agenda'[t][j].op # "unblock"
                     \/ agenda'[t][j] = agenda[t][j]
                  /\ agenda'[t][j].op \in IdleOps => agenda[t][j].op \in IdleOps
  <2>1. /\ g[t] \in Seq(Frames) /\ DOMAIN g[t] = DOMAIN agenda[t]
        /\ \A j \in DOMAIN agenda[t] : /\ g[t][j].op = agenda[t][j].op
                                       /\ agenda[t][j].op = "timer_sleep" \/ g[t][j] = agenda[t][j]
    <3>1. /\ g[t] \in Seq(Frames) /\ Len(g[t]) = Len(agenda[t])
          /\ \A j \in 1 .. Len(agenda[t]) :
               g[t][j].op = agenda[t][j].op /\ (agenda[t][j].op = "timer_sleep" \/ g[t][j] = agenda[t][j])
      BY DEF SameFrames
    <3>2. DOMAIN g[t] = 1 .. Len(agenda[t])
      BY <3>1, SMTT(30)
    <3> QED BY <1>4, <3>1, <3>2, Zenon
  <2>2. CASE agenda'[t] = g[t]
    BY <2>1, <2>2, ZenonT(30)
  <2>3. CASE g[t] = Hlt /\ agenda'[t] = Loop
    <3>1. DOMAIN g[t] = {1} /\ DOMAIN agenda'[t] = {1} /\ g[t][1].op = "hlt"
          /\ agenda'[t][1].op = "idle_loop"
      BY <1>1, <2>3, SMTT(30) DEF Hlt, Loop
    <3>2. agenda[t][1].op = "hlt"
      BY <2>1, <3>1
    <3>3. DOMAIN agenda[t] = {1}
      BY <2>1, <3>1
    <3>4. agenda'[t] \in Seq(Frames)
      BY <1>1, <2>3, ZenonT(30)
    <3> QED BY <3>1, <3>2, <3>3, <3>4, ZenonT(30) DEF IdleOps
  <2> QED BY <1>3, <2>2, <2>3
<1>6. agenda' \in [Thread -> Seq(Frames)]
  BY <1>5
<1>7. ASSUME NEW t \in Thread PROVE Nascent(t)' <=> Nascent(t)
  <2>1. Frame("unblock", t).op = "unblock"
    BY ZenonT(30) DEF Frame
  <2>2. ASSUME NEW u \in Thread
        PROVE  (\E j \in DOMAIN agenda'[u] : agenda'[u][j] = Frame("unblock", t))
                 <=> \E j \in DOMAIN agenda[u] : agenda[u][j] = Frame("unblock", t)
    BY <1>5, <2>1, ZenonT(30)
  <2> QED BY <2>2, ZenonT(30) DEF Nascent
<1>8. UniqueCreator'
  <2> SUFFICES ASSUME NEW u \in Thread, NEW v \in Thread,
                      NEW j \in DOMAIN agenda'[u], NEW k \in DOMAIN agenda'[v],
                      agenda'[u][j].op = "unblock", agenda'[v][k] = agenda'[u][j]
               PROVE  u = v /\ j = k
    BY SMTT(30) DEF UniqueCreator
  <2>1. j \in DOMAIN agenda[u] /\ agenda[u][j] = agenda'[u][j]
    BY <1>5, ZenonT(30)
  <2>2. k \in DOMAIN agenda[v] /\ agenda[v][k] = agenda'[v][k]
    BY <1>5
  <2> QED BY <2>1, <2>2, SMTT(30) DEF IInv, UniqueCreator
<1>9. agenda'[i] = agenda[i] \/ (agenda[i] = Hlt /\ agenda'[i] = Loop)
  BY <1>3
<1>10. \A t \in Thread \ {i} : \A j \in DOMAIN agenda'[t] : agenda'[t][j].op \notin IdleOps
  BY <1>5, ZenonT(30) DEF IsIdle
<1> QED BY <1>6, <1>7, <1>8, <1>9, <1>10, ZenonT(30) DEF AgendaMoved, Hlt, Loop

LEMMA TimerStep ==
  ASSUME IInv, TimerInterrupt
  PROVE  IInv'
<1>1. PICK i \in Thread : IsIdle(i)
  BY DEF IInv, IdleInv
<1>2. AgendaMoved(i)
  <2> DEFINE g == [t \in Thread |-> Elapse(agenda[t])]
  <2>1. \A t \in Thread : SameFrames(g[t], agenda[t])
    BY ElapseFrames DEF IInv, TypeOK
  <2>2. g[i] = agenda[i]
    BY <1>1 DEF IsIdle, idle, Elapse, Frame
  <2>3. agenda' = [t \in Thread |-> AfterInterrupt(t, g[t])]
    BY DEF TimerInterrupt
  <2> HIDE DEF g
  <2> QED BY <1>1, <2>1, <2>2, <2>3, InterruptAgenda
<1>3. UNCHANGED <<idle_thread, synch, tids>> /\ thread_tick
  BY DEF TimerInterrupt
<1>4. CASE thread_yield
  BY <1>1, <1>2, <1>3, <1>4, YieldSwitch
<1>5. CASE thread_ticks + 1 < TIME_SLICE /\ thread_ticks' = thread_ticks + 1
           /\ UNCHANGED <<status, ready_list, current>>
  <2>1. thread_ticks' \in 0 .. TIME_SLICE - 1
    BY <1>5, ThreadAssumption DEF IInv, TypeOK
  <2>2. RunQueueInv'
    BY <1>3, <1>5 DEF IInv, RunQueueInv
  <2>3. status' \in [Thread -> Status] /\ ready_list' \in Seq(Thread) /\ current' \in Thread
    BY <1>5 DEF IInv, TypeOK
  <2> QED BY <1>1, <1>2, <1>3, <1>5, <2>1, <2>2, <2>3, SwitchStep
<1>6. thread_ticks + 1 >= TIME_SLICE \/ thread_ticks + 1 < TIME_SLICE
  BY ThreadAssumption, SMTT(30) DEF IInv, TypeOK
<1> QED BY <1>3, <1>4, <1>5, <1>6 DEF thread_tick

LEMMA DeviceStep ==
  ASSUME IInv, DeviceInterrupt
  PROVE  IInv'
<1>1. PICK i \in Thread : IsIdle(i)
  BY DEF IInv, IdleInv
<1>2. AgendaMoved(i)
  <2>1. \A t \in Thread : SameFrames(agenda[t], agenda[t])
    BY DEF IInv, TypeOK, SameFrames
  <2> QED BY <1>1, <2>1, InterruptAgenda DEF DeviceInterrupt
<1>3. PICK s \in Sema : SemaUp(s)
  BY KernelAssumption DEF DeviceInterrupt, Sema
<1>4. UNCHANGED <<lock_holder, cond_waiters, idle_thread, tids>>
  BY ZenonT(30) DEF DeviceInterrupt
<1>5. /\ status' \in [Thread -> Status] /\ ready_list' \in Seq(Thread)
      /\ current' \in Thread /\ thread_ticks' \in 0 .. TIME_SLICE - 1
      /\ sema_value' \in [Sema -> Nat] /\ sema_waiters' \in [Sema -> Seq(Thread)]
      /\ RunQueueInv' /\ WaitListInv' /\ NascentBlocked'
      /\ idle_thread \in Thread => status'[idle_thread] = status[idle_thread]
      /\ \A t \in Thread : status[t] \in {"READY", "RUNNING"} => status'[t] = status[t]
  BY <1>2, <1>3, <1>4, SemaUpStep DEF AgendaMoved
<1>6. TypeOK'
  BY <1>2, <1>4, <1>5, ZenonT(30) DEF IInv, TypeOK, AgendaMoved, tids
<1>7. IdleInv'
  <2>1. /\ status[i] \in {"READY", "RUNNING"} => status'[i] \in {"READY", "RUNNING"}
        /\ status[i] = "BLOCKED" => status'[i] \in {"READY", "BLOCKED", "RUNNING"}
    BY <1>1, <1>5, ZenonT(30) DEF IsIdle
  <2> QED BY <1>1, <1>2, <1>4, <2>1, IdleMoved, SMTT(30)
<1> QED BY <1>2, <1>5, <1>6, <1>7, SMTT(30) DEF IInv, AgendaMoved
-----------------------------------------------------------------------------
(* The end of thread_create() and the idle thread's own steps.             *)

LEMMA SetIdleStep ==
  ASSUME IInv, agenda[current] # <<>>, set_idle
  PROVE  IInv'
<1> DEFINE rest == <<Frame("sema_up", IdleStarted), Frame("idle_loop", NULL)>>
<1>1. PICK i \in Thread : IsIdle(i)
  BY DEF IInv, IdleInv
<1>2. Top(current).op = "set_idle" /\ current \in Thread /\ idle_thread' = current
      /\ UNCHANGED <<sched, synch, tids>>
  BY DEF set_idle, Frame, IInv, TypeOK
<1>3. current = i
  <2>1. 1 \in DOMAIN agenda[current] /\ agenda[current][1].op \in IdleOps
    BY <1>2 DEF IInv, TypeOK, Top, IdleOps
  <2> QED BY <1>1, <1>2, <2>1 DEF IsIdle
<1>4. agenda[i] = idle /\ idle_thread = NULL
  <2>1. agenda[i] # rest /\ agenda[i] # <<Frame("idle_loop", NULL)>> /\ agenda[i] # <<Frame("hlt", NULL)>>
    BY <1>2, <1>3, SMTT(30) DEF Top, Frame
  <2> QED BY <1>1, <2>1, ZenonT(30) DEF IsIdle
<1>5. AgendaKept
  BY <1>2, PopStep DEF IInv, set_idle
<1>6. agenda'[i] = rest
  <2>1. Tail(idle) = rest
    BY DEF idle
  <2> QED BY <1>2, <1>3, <1>4, <2>1 DEF set_idle, Continue, Under, IInv, TypeOK
<1>7. status[i] = "RUNNING"
  BY <1>2, <1>3 DEF IInv, RunQueueInv
<1>8. TypeOK'
  BY <1>2, <1>5, ZenonT(30) DEF IInv, TypeOK, AgendaKept, sched, synch, tids
<1>9. RunQueueInv'
  BY <1>2, <1>3, <1>4, <1>7, ThreadAssumption DEF IInv, RunQueueInv, sched
<1>10. ~Nascent(i)
  BY <1>7, ZenonT(30) DEF IInv, NascentBlocked
<1>11. WaitListInv'
  <2>1. \A s \in Sema, t \in Thread : Waits(t, s)' <=> Waits(t, s)
    BY <1>2, ZenonT(30) DEF Waits, synch
  <2>2. \A t \in Thread : status'[t] = status[t] /\ (Nascent(t)' <=> Nascent(t))
    BY <1>2, <1>5, ZenonT(30) DEF sched, AgendaKept
  <2>3. \A t \in Thread : (\E s \in Sema : Waits(t, s)') <=> (\E s \in Sema : Waits(t, s))
    BY <2>1, SMTT(30)
  <2>4. \A t \in Thread : (\E s \in Sema : Waits(t, s)')
              <=> status'[t] = "BLOCKED" /\ t # idle_thread' /\ ~(Nascent(t)')
    <3> TAKE t \in Thread
    <3>1. (\E s \in Sema : Waits(t, s)) <=> status[t] = "BLOCKED" /\ t # idle_thread /\ ~Nascent(t)
      BY DEF IInv, WaitListInv
    <3>2. idle_thread' = i /\ t # idle_thread /\ status[i] # "BLOCKED"
      BY <1>2, <1>3, <1>4, <1>7, ThreadAssumption, ZenonT(30)
    <3> QED BY <2>2, <2>3, <3>1, <3>2, Zenon
  <2>5. \A s \in Sema : Once(sema_waiters'[s])
    BY <1>2 DEF IInv, WaitListInv, synch
  <2>6. \A s, r \in Sema : \A t \in Thread : Waits(t, s)' /\ Waits(t, r)' => s = r
    BY <2>1, SMTT(30) DEF IInv, WaitListInv
  <2> QED BY <2>4, <2>5, <2>6, SMTT(30) DEF WaitListInv
<1>12. NascentBlocked'
  BY <1>2, <1>3, <1>5, <1>10, SMTT(30) DEF IInv, NascentBlocked, AgendaKept, sched
<1>13. IsIdle(i)'
  BY <1>1, <1>2, <1>3, <1>5, <1>6, <1>7, SMTT(30) DEF IsIdle, AgendaKept, sched
<1> QED BY <1>5, <1>8, <1>9, <1>11, <1>12, <1>13 DEF IInv, IdleInv, AgendaKept

LEMMA IdleLoopStep ==
  ASSUME IInv, agenda[current] # <<>>, idle_loop
  PROVE  IInv'
<1> DEFINE Hlt  == <<Frame("hlt", NULL)>>
           Loop == <<Frame("idle_loop", NULL)>>
<1>1. PICK i \in Thread : IsIdle(i)
  BY DEF IInv, IdleInv
<1>2. Top(current).op = "idle_loop" /\ current \in Thread /\ thread_block /\ Become("hlt", NULL)
      /\ UNCHANGED <<idle_thread, synch, tids>>
  BY SMTT(30) DEF idle_loop, Frame, IInv, TypeOK
<1>3. current = i
  <2>1. 1 \in DOMAIN agenda[current] /\ agenda[current][1].op \in IdleOps
    BY <1>2, SMTT(30) DEF IInv, TypeOK, Top, IdleOps
  <2> QED BY <1>1, <1>2, <2>1 DEF IsIdle
<1>4. agenda[i] = Loop /\ idle_thread = i
  <2>1. /\ agenda[i] # <<Frame("sema_up", IdleStarted), Frame("idle_loop", NULL)>>
        /\ agenda[i] # Hlt /\ agenda[i] # idle
    BY <1>2, <1>3 DEF Top, Frame, idle
  <2> QED BY <1>1, <2>1, ZenonT(30) DEF IsIdle
<1>5. /\ agenda' \in [Thread -> Seq(Frames)] /\ agenda'[i] = Hlt
      /\ \A t \in Thread \ {i} : agenda'[t] = agenda[t]
  <2>1. [Loop EXCEPT ![1] = Frame("hlt", NULL)] = Hlt
    OBVIOUS
  <2>2. agenda' = [agenda EXCEPT ![i] = Hlt]
    BY <1>2, <1>3, <1>4, <2>1, ZenonT(30) DEF Become
  <2>3. Hlt \in Seq(Frames)
    BY SMTT(30) DEF Frame, Frames, Op
  <2> HIDE DEF Hlt
  <2> QED BY <2>2, <2>3, ZenonT(30) DEF IInv, TypeOK
<1>6. /\ DOMAIN agenda[i] = {1} /\ DOMAIN agenda'[i] = {1}
      /\ agenda[i][1].op # "unblock" /\ agenda'[i][1].op # "unblock"
  BY <1>4, <1>5 DEF Frame
<1> HIDE DEF Hlt, Loop
<1>7. ASSUME NEW t \in Thread PROVE Nascent(t)' <=> Nascent(t)
  <2>1. Frame("unblock", t).op = "unblock"
    BY DEF Frame
  <2>2. ASSUME NEW u \in Thread
        PROVE  (\E j \in DOMAIN agenda'[u] : agenda'[u][j] = Frame("unblock", t))
                 <=> \E j \in DOMAIN agenda[u] : agenda[u][j] = Frame("unblock", t)
    BY <1>5, <1>6, <2>1
  <2> QED BY <2>2 DEF Nascent
<1>8. UniqueCreator'
  <2> SUFFICES ASSUME NEW u \in Thread, NEW v \in Thread,
                      NEW j \in DOMAIN agenda'[u], NEW k \in DOMAIN agenda'[v],
                      agenda'[u][j].op = "unblock", agenda'[v][k] = agenda'[u][j]
               PROVE  u = v /\ j = k
    BY DEF UniqueCreator
  <2>1. u # i /\ v # i
    BY <1>6
  <2> QED BY <1>5, <2>1 DEF IInv, UniqueCreator
<1>9. /\ status' \in [Thread -> Status] /\ ready_list' \in Seq(Thread)
      /\ current' \in Thread /\ thread_ticks' \in 0 .. TIME_SLICE - 1
      /\ RunQueueInv'
      /\ \A t \in Thread : t # idle_thread =>
            (status'[t] = "BLOCKED" <=> t = current \/ status[t] = "BLOCKED")
      /\ \A t \in Thread : status[t] = "BLOCKED" \/ t = current
                             => status'[t] \in {"BLOCKED", "RUNNING"}
  BY <1>2, <1>4, BlockStep, SMTT(30) DEF IInv
<1>10. WaitListInv' /\ NascentBlocked'
  BY <1>2, <1>3, <1>4, <1>7, <1>9, WaitersSame, SMTT(30) DEF IInv, synch
<1>11. TypeOK'
  BY <1>2, <1>5, <1>9, ZenonT(30) DEF IInv, TypeOK, synch, tids
<1>12. IsIdle(i)'
  BY <1>1, <1>2, <1>3, <1>4, <1>5, <1>9, ZenonT(30) DEF IsIdle, Hlt
<1> QED BY <1>8, <1>9, <1>10, <1>11, <1>12, SMTT(30) DEF IInv, IdleInv

-----------------------------------------------------------------------------
LEMMA InitInv ==
  ASSUME Init
  PROVE  IInv
<1>1. PICK i \in Thread \ {Main} :
        /\ status = [t \in Thread |-> CASE t = Main -> "RUNNING" [] t = i -> "READY"
                                        [] OTHER -> "FREE"]
        /\ ready_list = <<i>> /\ current = Main /\ idle_thread = NULL /\ thread_ticks = 0
        /\ agenda = [t \in Thread |-> CASE t = Main -> <<Frame("sema_down", IdleStarted)>>
                                        [] t = i -> idle [] OTHER -> <<>>]
        /\ sema_value = [s \in Sema |-> IF s \in Lock THEN 1 ELSE 0]
        /\ sema_waiters = [s \in Sema |-> <<>>]
        /\ lock_holder = [l \in Lock |-> NULL]
        /\ cond_waiters = [c \in Condition |-> <<>>]
        /\ tid = [t \in Thread |-> CASE t = Main -> 1 [] t = i -> 2 [] OTHER -> 0]
        /\ next_tid = 3
  BY DEF Init
<1>2. /\ status[Main] = "RUNNING" /\ status[i] = "READY"
      /\ \A t \in Thread \ {Main, i} : status[t] = "FREE"
  BY <1>1, ThreadAssumption
<1>3. /\ agenda[Main] = <<Frame("sema_down", IdleStarted)>> /\ agenda[i] = idle
      /\ \A t \in Thread \ {Main, i} : agenda[t] = <<>>
  BY <1>1, ThreadAssumption
<1>4. <<Frame("sema_down", IdleStarted)>> \in Seq(Frames) /\ idle \in Seq(Frames)
  BY KernelAssumption DEF idle, Frame, Frames, Op, Sema
<1>5. agenda \in [Thread -> Seq(Frames)]
  <2>1. ASSUME NEW t \in Thread PROVE agenda[t] \in Seq(Frames)
    <3>1. CASE t = Main
      BY <1>3, <1>4, <3>1, ZenonT(30)
    <3>2. CASE t = i
      BY <1>3, <1>4, <3>2
    <3>3. CASE t \notin {Main, i}
      <4>1. agenda[t] = <<>>
        BY <1>3, <3>3
      <4> QED BY ONLY <4>1
    <3> QED BY <3>1, <3>2, <3>3
  <2> QED BY <1>1, <2>1
<1>6. ASSUME NEW t \in Thread, NEW j \in DOMAIN agenda[t]
      PROVE  agenda[t][j].op # "unblock" /\ (t # i => agenda[t][j].op \notin IdleOps)
  <2>1. CASE t = Main
    <3>1. DOMAIN agenda[t] = {1} /\ agenda[t][1].op = "sema_down"
      BY <1>3, <2>1 DEF Frame
    <3> QED BY <3>1 DEF IdleOps
  <2>2. CASE t = i
    <3>1. DOMAIN idle = 1 .. 3 /\ idle[1].op = "set_idle" /\ idle[2].op = "sema_up" /\ idle[3].op = "idle_loop"
      BY DEF Frame, idle
    <3>2. j \in {1, 2, 3} /\ agenda[t][j] = idle[j]
      BY <1>3, <2>2, <3>1
    <3> QED BY <2>2, <3>1, <3>2
  <2>3. CASE t \notin {Main, i}
    BY <1>3, <1>6, <2>3
  <2> QED BY <2>1, <2>2, <2>3
<1>7. TypeOK
  <2>1. status \in [Thread -> Status] /\ tid \in [Thread -> Nat]
    BY <1>1 DEF Status
  <2>2. ready_list \in Seq(Thread) /\ current \in Thread /\ thread_ticks \in 0 .. TIME_SLICE - 1
    BY <1>1, ThreadAssumption
  <2>3. /\ sema_value \in [Sema -> Nat] /\ sema_waiters \in [Sema -> Seq(Thread)]
        /\ lock_holder \in [Lock -> Thread \cup {NULL}] /\ cond_waiters \in [Condition -> Seq(Thread)]
    BY <1>1
  <2> QED BY <1>1, <1>5, <2>1, <2>2, <2>3 DEF TypeOK
<1>8. RunQueueInv
  <2>1. Once(ready_list) /\ \A t \in Thread : Occurs(t, ready_list) <=> t = i
    BY <1>1 DEF Once, Occurs
  <2> QED BY <1>1, <1>2, <2>1, ThreadAssumption DEF RunQueueInv
<1>9. \A t \in Thread : ~Nascent(t)
  BY <1>6 DEF Nascent, Frame
<1>10. WaitListInv
  <2>1. \A s \in Sema : Once(sema_waiters[s]) /\ \A t \in Thread : ~Waits(t, s)
    BY <1>1 DEF Once, Waits, Occurs
  <2>2. \A t \in Thread : status[t] # "BLOCKED"
    BY <1>2
  <2> QED BY <2>1, <2>2 DEF WaitListInv
<1>11. IsIdle(i)
  BY <1>1, <1>2, <1>3, <1>6, SMTT(30) DEF IsIdle
<1>12. UniqueCreator /\ NascentBlocked
  BY <1>6, <1>9 DEF UniqueCreator, NascentBlocked
<1> QED BY <1>7, <1>8, <1>10, <1>11, <1>12 DEF IInv, IdleInv

LEMMA StutterStep ==
  ASSUME IInv, UNCHANGED vars
  PROVE  IInv'
<1>1. PICK i \in Thread : IsIdle(i)
  BY DEF IInv, IdleInv
<1>2. UNCHANGED <<sched, idle_thread, agenda, synch, tids>>
  BY DEF vars, tids
<1>3. RunQueueInv' /\ status' \in [Thread -> Status] /\ ready_list' \in Seq(Thread)
      /\ current' \in Thread /\ thread_ticks' \in 0 .. TIME_SLICE - 1 /\ status' = status
  BY <1>2 DEF IInv, TypeOK, RunQueueInv, sched
<1> QED BY <1>1, <1>2, <1>3, AgendaStill, SwitchStep

LEMMA NextInv ==
  ASSUME IInv, [Next]_vars
  PROVE  IInv'
<1>1. CASE ThreadStep
  <2>1. CASE SynchStep /\ UNCHANGED <<idle_thread, tids>>
    BY <1>1, <2>1, SemaDownStep, SemaUpByThread, OtherSynchSteps DEF ThreadStep, SynchStep
  <2>2. CASE create \/ read_tid \/ write_tid \/ unblock \/ set_idle \/ idle_loop \/ timer_sleep
    BY <1>1, <2>2, CreateStep, TidSteps, UnblockAction, SetIdleStep, IdleLoopStep, SleepStep
       DEF ThreadStep
  <2> QED BY <1>1, <2>1, <2>2, SMTT(30) DEF ThreadStep
<1>2. CASE Call
  BY <1>2, CallStep
<1>3. CASE Yield
  BY <1>3, YieldAction
<1>4. CASE Exit
  BY <1>4, ExitAction
<1>5. CASE TimerInterrupt
  BY <1>5, TimerStep
<1>6. CASE DeviceInterrupt
  BY <1>6, DeviceStep
<1>7. CASE UNCHANGED vars
  BY <1>7, StutterStep
<1> QED BY <1>1, <1>2, <1>3, <1>4, <1>5, <1>6, <1>7, SMTT(30) DEF Next
=============================================================================
