--------------------------- MODULE KernelWakeups ----------------------------
(***************************************************************************)
(* Sleepers, wakeups and thread identifiers: what threads/synch.c and      *)
(* threads/thread.c promise about them in every interleaving, from the     *)
(* invariants of module KernelAgendas.                                     *)
(***************************************************************************)
EXTENDS KernelAgendas, FiniteSetTheorems
-----------------------------------------------------------------------------
(* How a step changes the status of threads.                               *)

\* thread_create() by the running thread takes page u.
TakesPage(u) ==
  /\ ThreadStep /\ create /\ status[u] = "FREE"
  /\ status' = [status EXCEPT ![u] = "BLOCKED"]
  /\ tid' = [tid EXCEPT ![u] = 0]
  /\ Moves(Frame("sema_down", TidLock))

Gone == {"DYING", "FREE"}

StatusKept ==
  \A t \in Thread :
    /\ status'[t] # "FREE" => status[t] # "FREE"
    /\ status'[t] \in Gone => status[t] \in Gone \/ (t = current /\ Exit)
    /\ status'[t] = "BLOCKED" => status[t] = "BLOCKED" \/ t = current

LEMMA ScheduleStatus ==
  ASSUME Base, TypeOK', NEW x \in {"READY", "BLOCKED", "DYING"}, x = "DYING" => Exit,
         NEW rl \in {ready_list, Append(ready_list, current)},
         schedule([status EXCEPT ![current] = x], rl)
  PROVE  StatusKept
<1> DEFINE next == next_thread_to_run(rl)
           st == [status EXCEPT ![current] = x]
<1>1. /\ TypeOK /\ current \in Thread /\ status[current] = "RUNNING"
  BY ZenonT(30) DEF Base, TypeOK, ListsMatchStatus, RunQueueInv
<1>2. next \in Thread /\ status' = thread_schedule_tail(st, current, next)
  BY DEF schedule, TypeOK
<1>3. status[next] # "FREE"
  <2>1. CASE rl = <<>>
    BY <1>2, <2>1, ThreadAssumption DEF next_thread_to_run, Base
  <2>2. CASE rl # <<>>
    <3>1. next = rl[1] /\ next = Head(rl)
      BY <1>1, <2>2 DEF next_thread_to_run, TypeOK
    <3>2. next = current \/ Occurs(next, ready_list)
      <4>1. CASE ready_list = <<>>
        BY <1>1, <2>2, <3>1, <4>1 DEF TypeOK
      <4>2. CASE ready_list # <<>>
        <5>1. rl[1] = ready_list[1] /\ 1 \in DOMAIN ready_list
          <6>1. ready_list \in Seq(Thread) /\ Len(ready_list) \in Nat \ {0}
                /\ DOMAIN ready_list = 1 .. Len(ready_list)
            BY <1>1, <4>2, EmptyOrNot DEF TypeOK
          <6>2. Append(ready_list, current)[1] = ready_list[1]
            BY <1>1, <6>1
          <6> QED BY <6>1, <6>2, SMTT(30)
        <5> QED BY <3>1, <5>1 DEF Occurs
      <4> QED BY <4>1, <4>2
    <3> QED BY <1>1, <1>2, <3>2 DEF Base, ListsMatchStatus, RunQueueInv
  <2> QED BY <2>1, <2>2
<1> HIDE DEF next
<1>4. ASSUME NEW t \in Thread
      PROVE  /\ status'[t] # "FREE" => status[t] # "FREE"
             /\ status'[t] \in Gone => status[t] \in Gone \/ (t = current /\ Exit)
             /\ status'[t] = "BLOCKED" => status[t] = "BLOCKED" \/ t = current
  BY <1>1, <1>2, <1>3, ZenonT(30) DEF thread_schedule_tail, TypeOK, Gone
<1> QED BY <1>4 DEF StatusKept

LEMMA UnblockStatus ==
  ASSUME Base, NEW u \in Thread, status[u] = "BLOCKED", thread_unblock(u)
  PROVE  StatusKept
BY DEF thread_unblock, StatusKept, Base, TypeOK, Gone

LEMMA SemaUpStatus ==
  ASSUME Base, NEW s \in Sema, SemaUp(s)
  PROVE  StatusKept
<1>1. CASE sema_waiters[s] # <<>>
  <2>1. Head(sema_waiters[s]) \in Thread /\ Waits(Head(sema_waiters[s]), s)
    BY <1>1, EmptyOrNot DEF Base, TypeOK, Waits, Occurs
  <2>2. status[Head(sema_waiters[s])] = "BLOCKED"
    BY <2>1 DEF Base, ListsMatchStatus, WaitListInv
  <2> QED BY <1>1, <2>1, <2>2, UnblockStatus DEF SemaUp
<1>2. CASE sema_waiters[s] = <<>>
  BY <1>2 DEF SemaUp, sched, StatusKept
<1> QED BY <1>1, <1>2

LEMMA YieldStatus ==
  ASSUME Base, TypeOK', thread_yield
  PROVE  StatusKept
<1>1. CASE current # idle_thread
  BY <1>1, ScheduleStatus DEF thread_yield
<1>2. CASE current = idle_thread
  BY <1>2, ScheduleStatus DEF thread_yield
<1> QED BY <1>1, <1>2

LEMMA BlockStatus ==
  ASSUME Base, TypeOK', thread_block
  PROVE  StatusKept
BY ScheduleStatus DEF thread_block

LEMMA CreateStatus ==
  ASSUME Base, AgendaInv, ThreadStep, create
  PROVE  UNCHANGED <<status, tid>> \/ \E u \in Thread : TakesPage(u)
<1>0. TypeOK /\ current \in Thread
  BY DEF Base, TypeOK
<1>1. CASE ~UNCHANGED <<status, tid>>
  <2>1. PICK t \in Thread :
          /\ Top(current) = Frame("create", NULL) /\ status[t] = "FREE"
          /\ status' = [status EXCEPT ![t] = "BLOCKED"] /\ tid' = [tid EXCEPT ![t] = 0]
          /\ Continue(allocate_tid(t) \o <<Frame("unblock", t)>> \o Under(current))
    BY <1>1, ZenonT(30) DEF create
  <2>2. Moves(Frame("sema_down", TidLock))
    BY <1>0, <2>1, CreateView, MovesView DEF ThreadStep
  <2> QED BY <2>1, <2>2, ZenonT(30) DEF TakesPage
<1> QED BY <1>1

LEMMA StatusStep ==
  ASSUME Base, TypeOK', AgendaInv, [Next]_vars
  PROVE  StatusKept \/ \E u \in Thread : TakesPage(u)
<1>0. TypeOK /\ current \in Thread
  BY ZenonT(30) DEF Base, TypeOK
<1>1. CASE UNCHANGED status
  BY <1>1 DEF StatusKept
<1>2. CASE sema_down
  <2>1. UNCHANGED status \/ thread_block
    BY <1>2 DEF sema_down, SemaDown, sched
  <2> QED BY <1>1, <2>1, BlockStatus
<1>3. CASE sema_up \/ DeviceInterrupt
  <2>1. \E s \in Sema : SemaUp(s)
    BY <1>3, KernelAssumption DEF sema_up, DeviceInterrupt, Sema
  <2> QED BY <2>1, SemaUpStatus
<1>4. CASE unblock /\ ThreadStep
  <2>1. PICK t \in Thread : Top(current) = Frame("unblock", t) /\ thread_unblock(t)
    BY <1>4 DEF unblock
  <2>2. Nascent(t)
    <3>1. agenda[current] \in Seq(Frames) /\ agenda[current] # <<>>
      BY <1>0, <1>4 DEF TypeOK, ThreadStep
    <3>2. 1 \in DOMAIN agenda[current] /\ agenda[current][1] = Frame("unblock", t)
      BY <2>1, <3>1, EmptyOrNot, SMTT(30) DEF Top
    <3> QED BY <1>0, <3>2 DEF Nascent
  <2> QED BY <2>1, <2>2, UnblockStatus DEF Base
<1>5. CASE idle_loop
  BY <1>5, BlockStatus DEF idle_loop
<1>6. CASE timer_sleep \/ Yield
  <2>1. thread_yield \/ UNCHANGED status
    BY <1>6, ZenonT(30) DEF timer_sleep, Yield, sched
  <2> QED BY <1>1, <2>1, YieldStatus, ZenonT(30)
<1>7. CASE TimerInterrupt
  <2>1. thread_yield \/ UNCHANGED status
    BY <1>7 DEF TimerInterrupt, thread_tick
  <2> QED BY <1>1, <2>1, YieldStatus
<1>8. CASE Exit
  BY <1>8, ScheduleStatus DEF Exit, thread_exit
<1>9. CASE create /\ ThreadStep
  BY <1>1, <1>9, CreateStatus
<1>10. CASE sema_try_down \/ set_holder \/ clear_holder \/ cond_enqueue \/ cond_signal
            \/ cond_broadcast \/ read_tid \/ write_tid \/ set_idle \/ Call \/ UNCHANGED vars
  <2>1. UNCHANGED status
    BY <1>10, ZenonT(30) DEF sema_try_down, set_holder, clear_holder, SetHolder, cond_enqueue, cond_signal,
                 cond_broadcast, read_tid, write_tid, set_idle, Call, vars, sched
  <2> QED BY <1>1, <2>1, ZenonT(30)
<1> QED BY <1>1, <1>2, <1>3, <1>4, <1>5, <1>6, <1>7, <1>8, <1>9, <1>10, ZenonT(30)
        DEF Next, ThreadStep, SynchStep
-----------------------------------------------------------------------------
(* Thread identifiers.                                                     *)

(* The child of a creator that is about to write next_tid back is nascent. *)
LEMMA WriteChild ==
  ASSUME TypeOK, AgendaInv, NEW v \in Thread, NEW u \in Thread, now[v] = Frame("write_tid", u)
  PROVE  Nascent(u)
<1> DEFINE s == agenda[v]
<1>1. s \in Seq(Frames) /\ WellFormed(v, s) /\ First(s) = Frame("write_tid", u)
  BY DEF TypeOK, AgendaInv, now
<1>2. s # <<>> /\ Head(s) = Frame("write_tid", u)
  BY <1>1 DEF First, End, Frame
<1>3. Len(s) \in Nat \ {0} /\ s[1] = Frame("write_tid", u) /\ DOMAIN s = 1 .. Len(s)
  BY <1>1, <1>2, EmptyOrNot, SMTT(30)
<1> HIDE DEF s
<1>4. \A i \in 1 .. Len(s) : Fits(v, s[i], Below(s, i))
  BY <1>1, ZenonT(30) DEF WellFormed
<1>5. Below(s, 1) = Frame("clear_holder", TidLock)
  BY <1>3, <1>4, UnderFrame, SMTT(30)
<1>6. 2 \in 1 .. Len(s) /\ s[2] = Frame("clear_holder", TidLock)
  BY <1>3, <1>5, SMTT(30) DEF Below, End, Frame
<1>7. Below(s, 2) = Frame("sema_up", TidLock)
  BY <1>4, <1>6, UnderFrame, KernelAssumption, SMTT(30)
<1>8. 3 \in 1 .. Len(s) /\ s[3] = Frame("sema_up", TidLock)
  BY <1>3, <1>6, <1>7, SMTT(30) DEF Below, End, Frame
<1>9. \E w \in Thread : Below(s, 3) = Frame("unblock", w)
  <2>1. Fits(v, Frame("sema_up", TidLock), Below(s, 3))
    BY <1>4, <1>8
  <2>2. TidLock \notin Thread /\ TidLock \notin Semaphore /\ TidLock \notin ClientLock
    BY Disjoint, KernelAssumption
  <2> QED BY <2>1, <2>2, ZenonT(30) DEF Fits, Frame
<1>10. PICK w \in Thread : Below(s, 3) = Frame("unblock", w)
  BY <1>9
<1>11. 4 \in 1 .. Len(s) /\ s[4] = Frame("unblock", w)
  BY <1>3, <1>8, <1>10, SMTT(30) DEF Below, End, Frame
<1>12. w = u
  <2>1. /\ s[1].op = "write_tid" /\ s[1].arg = u /\ s[4].op = "unblock" /\ s[4].arg = w
        /\ 1 \in 1 .. Len(s)
    BY <1>3, <1>11, SMTT(30) DEF Frame
  <2> QED BY <1>1, <1>11, <2>1, ZenonT(30) DEF WellFormed, ChildOps
<1> QED BY <1>3, <1>11, <1>12 DEF Nascent, s

(* Only the thread that holds tid_lock is about to write next_tid.         *)
LEMMA OneWriter ==
  ASSUME LockInv, NEW u \in Thread, NEW v \in Thread, now[u].op \in {"read_tid", "write_tid"},
         now[v].op \in {"read_tid", "write_tid"}
  PROVE  u = v
BY DEF LockInv, HolderInv

(* Steps that do not concern the counter.                                  *)
LEMMA TidQuiet ==
  ASSUME TidInv, UNCHANGED tids, StatusKept,
         \A u \in Thread : \/ now'[u] = now[u]
                           \/ now[u].op # "write_tid" /\ now'[u].op # "write_tid"
  PROVE  TidInv'
<1>1. \A u, t \in Thread : now'[u] = Frame("write_tid", t) <=> now[u] = Frame("write_tid", t)
  BY DEF Frame
<1>2. UNCHANGED tid /\ UNCHANGED next_tid
  BY DEF tids
<1>3. DistinctTids'
  BY <1>2, ZenonT(30) DEF TidInv, DistinctTids, StatusKept
<1> QED BY <1>1, <1>2, <1>3, ZenonT(30) DEF TidInv, StatusKept

LEMMA ReadTid ==
  ASSUME Base, AgendaInv, LockInv, TidInv, ThreadStep, read_tid
  PROVE  TidInv'
<1>1. PICK u \in Thread : /\ Top(current) = Frame("read_tid", u) /\ tid' = [tid EXCEPT ![u] = next_tid]
                          /\ Continue(Under(current)) /\ UNCHANGED <<status, next_tid>>
  BY ZenonT(30) DEF read_tid, sched
<1>2. TypeOK /\ current \in Thread /\ agenda[current] # <<>>
  BY DEF Base, TypeOK, ThreadStep
<1>3. now[current] = Frame("read_tid", u)
  BY <1>1, <1>2, PopView
<1>4. PICK g : Fits(current, now[current], g) /\ Moves(g)
  BY <1>1, <1>2, PopView, MovesView, ZenonT(30)
<1>5. g = Frame("write_tid", u)
  BY <1>2, <1>3, <1>4, UnderFrame, SMTT(30)
<1>6. \A v \in Thread : now[v].op # "write_tid"
  <2>1. now[current].op = "read_tid"
    BY <1>3, SMTT(30) DEF Frame
  <2> QED BY <1>2, <2>1, OneWriter, ZenonT(30)
<1>7. \A t \in Thread : status[t] # "FREE" => tid[t] < next_tid
  <2>1. \A v, t \in Thread : now[v] # Frame("write_tid", t)
    BY <1>6 DEF Frame
  <2> QED BY <2>1 DEF TidInv
<1>8. \A v, t \in Thread : now'[v] = Frame("write_tid", t) <=> v = current /\ t = u
  BY <1>4, <1>5, <1>6, SMTT(30) DEF Moves, Frame
<1>9. tid \in [Thread -> Nat] /\ next_tid \in Nat /\ tid'[u] = next_tid
      /\ \A t \in Thread : t # u => tid'[t] = tid[t]
  BY <1>1, <1>2, ZenonT(30) DEF TypeOK
<1>10. DistinctTids'
  BY <1>1, <1>7, <1>9, SMTT(30) DEF TidInv, DistinctTids
<1> QED BY <1>1, <1>2, <1>7, <1>8, <1>9, <1>10, ZenonT(30) DEF TidInv

LEMMA WriteTid ==
  ASSUME Base, AgendaInv, LockInv, TidInv, ThreadStep, write_tid
  PROVE  TidInv'
<1>1. PICK u \in Thread : /\ Top(current) = Frame("write_tid", u) /\ next_tid' = tid[u] + 1
                          /\ Continue(Under(current)) /\ UNCHANGED <<status, tid>>
  BY DEF write_tid, sched
<1>2. TypeOK /\ current \in Thread /\ agenda[current] # <<>>
  BY ZenonT(30) DEF Base, TypeOK, ThreadStep
<1>3. now[current] = Frame("write_tid", u) /\ now[current].op = "write_tid"
  BY <1>1, <1>2, PopView, SMTT(30) DEF Frame
<1>4. PICK g : Fits(current, now[current], g) /\ Moves(g)
  BY <1>1, <1>2, PopView, MovesView, ZenonT(30)
<1>5. g = Frame("clear_holder", TidLock)
  BY <1>2, <1>3, <1>4, UnderFrame, SMTT(30)
<1>6. \A v, t \in Thread : now[v] = Frame("write_tid", t) => t = u
  BY <1>2, <1>3, OneWriter, SMTT(30) DEF Frame
<1>7. tid \in [Thread -> Nat] /\ next_tid \in Nat /\ tid[u] = next_tid
  BY <1>2, <1>3, ZenonT(30) DEF TypeOK, TidInv
<1>8. \A t \in Thread : status[t] # "FREE" => tid[t] < next_tid + 1
  BY <1>6, <1>7 DEF TidInv
<1>9. \A v, t \in Thread : now'[v] # Frame("write_tid", t)
  <2>1. \A v \in Thread : v # current => now[v].op # "write_tid"
    BY <1>2, <1>3, OneWriter, ZenonT(30)
  <2> QED BY <1>4, <1>5, <2>1, SMTT(30) DEF Moves, Frame
<1>10. DistinctTids'
  BY <1>1, ZenonT(30) DEF TidInv, DistinctTids
<1> QED BY <1>1, <1>7, <1>8, <1>9, <1>10, SMTT(30) DEF TidInv

LEMMA PageTid ==
  ASSUME Base, AgendaInv, TidInv, NEW u \in Thread, TakesPage(u)
  PROVE  TidInv'
<1>1. TypeOK /\ current \in Thread /\ UNCHANGED next_tid
  BY DEF Base, TypeOK, TakesPage, create
<1>2. \A v \in Thread : now[v] # Frame("write_tid", u)
  BY <1>1, WriteChild DEF Base, TakesPage
<1>3. tid'[u] = 0 /\ status'[u] = "BLOCKED"
      /\ \A t \in Thread : t # u => tid'[t] = tid[t] /\ status'[t] = status[t]
  BY <1>1 DEF TakesPage, TypeOK
<1>4. \A v, t \in Thread : now'[v] = Frame("write_tid", t) <=> now[v] = Frame("write_tid", t)
  <2>1. now[current] = Frame("create", NULL)
    BY <1>1, StepTransit DEF TakesPage, create
  <2> QED BY <2>1, SMTT(30) DEF TakesPage, Moves, Frame
<1>5. DistinctTids'
  BY <1>3 DEF TidInv, DistinctTids
<1> QED BY <1>1, <1>2, <1>3, <1>4, <1>5, ZenonT(30) DEF TidInv

LEMMA TidStep ==
  ASSUME Base, TypeOK', AgendaInv, LockInv, TidInv, [Next]_vars
  PROVE  TidInv'
<1>0. TypeOK /\ current \in Thread
  BY ZenonT(30) DEF Base, TypeOK
<1>1. CASE ThreadStep
  <2>1. CASE read_tid \/ write_tid
    BY <1>1, <2>1, ReadTid, WriteTid
  <2>2. CASE \E u \in Thread : TakesPage(u)
    BY <2>2, PageTid
  <2>3. CASE ~(read_tid \/ write_tid) /\ ~\E u \in Thread : TakesPage(u)
    <3>1. StatusKept
      BY <1>0, <2>3, StatusStep, ZenonT(30)
    <3>2. now[current] = Top(current) /\ \E g : Moves(g) /\ Transit(now[current], g)
      BY <1>0, <1>1, StepTransit, ZenonT(30)
    <3>3. PICK g : Moves(g) /\ Transit(now[current], g)
      BY <3>2
    <3>4. Top(current).op \notin {"read_tid", "write_tid"}
      <4>1. CASE sema_down \/ sema_up \/ sema_try_down
        BY <4>1, SMTT(30) DEF sema_down, sema_up, sema_try_down, Frame
      <4>2. CASE set_holder \/ clear_holder
        BY <4>2 DEF set_holder, clear_holder, SetHolder, Frame
      <4>3. CASE cond_enqueue \/ cond_signal \/ cond_broadcast
        <5>1. \E c \in Condition : Top(current) \in {Frame("cond_enqueue", c), Frame("cond_signal", c),
                                                     Frame("cond_broadcast", c)}
          BY <4>3, ZenonT(30) DEF cond_enqueue, cond_signal, cond_broadcast
        <5> QED BY <5>1, SMTT(30) DEF Frame
      <4>4. CASE create \/ unblock \/ set_idle \/ idle_loop \/ timer_sleep
        BY <4>4 DEF create, unblock, set_idle, idle_loop, timer_sleep, Frame
      <4> QED BY <1>1, <2>3, <4>1, <4>2, <4>3, <4>4, ZenonT(30) DEF ThreadStep, SynchStep
    <3>5. UNCHANGED tids
      <4>1. CASE create
        BY <1>1, <2>3, <4>1, CreateStatus, ZenonT(30) DEF create, tids
      <4> QED BY <1>1, <2>3, <4>1 DEF ThreadStep, unblock, set_idle, idle_loop, timer_sleep
    <3>6. now[current].op # "write_tid" /\ now'[current].op # "write_tid"
      BY <3>2, <3>3, <3>4 DEF Transit, Moves, Frame
    <3> QED BY <3>1, <3>3, <3>5, <3>6, TidQuiet, ZenonT(30) DEF Moves
  <2> QED BY <2>1, <2>2, <2>3
<1>2. CASE ~ThreadStep
  <2>1. StatusKept
    BY <1>0, <1>2, StatusStep, ZenonT(30) DEF TakesPage
  <2>2. UNCHANGED tids
    BY <1>2, ZenonT(30) DEF Next, Call, Yield, Exit, TimerInterrupt, DeviceInterrupt, vars, tids
  <2>3. CASE Call
    <3>1. now[current] = End
      BY <1>0, <2>3, CallView, ZenonT(30)
    <3>2. PICK f : CallFrame(f) /\ Moves(f)
      BY <1>0, <2>3, CallView, MovesView, ZenonT(30)
    <3>3. f.op # "write_tid" /\ now[current].op # "write_tid"
      BY <3>1, <3>2, SMTT(30) DEF CallFrame, End, Frame
    <3> QED BY <2>1, <2>2, <3>2, <3>3, TidQuiet, ZenonT(30) DEF Moves
  <2>4. CASE TimerInterrupt \/ DeviceInterrupt
    <3>1. \A t \in Thread : now'[t] = now[t] \/ {now'[t].op, now[t].op} \subseteq Polls
      BY <1>0, <2>4, InterruptView, ZenonT(30)
    <3> QED BY <2>1, <2>2, <3>1, TidQuiet, ZenonT(30) DEF Polls
  <2>5. CASE UNCHANGED agenda
    BY <2>1, <2>2, <2>5, StillView, TidQuiet, ZenonT(30)
  <2> QED BY <1>2, <2>3, <2>4, <2>5 DEF Next, Yield, Exit, vars
<1> QED BY <1>1, <1>2, ZenonT(30)

LEMMA TidInit ==
  ASSUME Init
  PROVE  TidInv
<1>1. PICK i \in Thread \ {Main} :
        /\ status = [t \in Thread |-> CASE t = Main -> "RUNNING" [] t = i -> "READY" [] OTHER -> "FREE"]
        /\ tid = [t \in Thread |-> CASE t = Main -> 1 [] t = i -> 2 [] OTHER -> 0]
        /\ next_tid = 3
        /\ agenda = [t \in Thread |-> CASE t = Main -> <<Frame("sema_down", IdleStarted)>>
                                        [] t = i -> idle [] OTHER -> <<>>]
  BY DEF Init
<1>2. /\ tid[Main] = 1 /\ tid[i] = 2
      /\ \A t \in Thread : t # Main /\ t # i => tid[t] = 0 /\ status[t] = "FREE"
  BY <1>1, ThreadAssumption
<1>3. \A t, u \in Thread : now[t] # Frame("write_tid", u)
  BY <1>1, SMTT(30) DEF now, First, End, Frame, idle
<1> QED BY <1>1, <1>2, <1>3, SMTT(30) DEF TidInv, DistinctTids
-----------------------------------------------------------------------------
(* Sleepers.                                                               *)

(* Only the running thread's innermost frame changes, but for polling.     *)
LEMMA OthersStay ==
  ASSUME TypeOK, AgendaInv, [Next]_vars, NEW t \in Thread, t # current
  PROVE  now'[t] = now[t] \/ {now'[t].op, now[t].op} \subseteq Polls
<1>0. current \in Thread
  BY DEF TypeOK
<1>1. CASE ThreadStep
  BY <1>1, StepTransit, ZenonT(30) DEF Moves
<1>2. CASE Call
  BY <1>0, <1>2, CallView, MovesView, ZenonT(30) DEF Moves
<1>3. CASE TimerInterrupt \/ DeviceInterrupt
  BY <1>3, InterruptView, ZenonT(30)
<1>4. CASE UNCHANGED agenda
  BY <1>4, StillView, ZenonT(30)
<1> QED BY <1>1, <1>2, <1>3, <1>4, ZenonT(30) DEF Next, Yield, Exit, vars

LEMMA OccursKept ==
  ASSUME NEW q \in Seq(Thread), NEW t \in Thread, NEW u \in Thread
  PROVE  /\ Occurs(t, Append(q, u)) <=> Occurs(t, q) \/ t = u
         /\ q # <<>> => Occurs(Head(q), q) /\ (Occurs(t, Tail(q)) => Occurs(t, q))
<1>1. Occurs(t, Append(q, u)) <=> Occurs(t, q) \/ t = u
  <2>1. /\ Append(q, u) \in Seq(Thread) /\ Len(Append(q, u)) = Len(q) + 1
        /\ \A i \in 1 .. Len(q) : Append(q, u)[i] = q[i]
        /\ Append(q, u)[Len(q) + 1] = u /\ Len(q) \in Nat
        /\ DOMAIN q = 1 .. Len(q) /\ DOMAIN Append(q, u) = 1 .. Len(q) + 1
    OBVIOUS
  <2>2. \A i \in 1 .. Len(q) + 1 : i \in 1 .. Len(q) \/ i = Len(q) + 1
    BY <2>1
  <2>3. Len(q) + 1 \in 1 .. Len(q) + 1 /\ \A i \in 1 .. Len(q) : i \in 1 .. Len(q) + 1
    BY <2>1
  <2> QED BY <2>1, <2>2, <2>3 DEF Occurs
<1>2. ASSUME q # <<>> PROVE Occurs(Head(q), q) /\ (Occurs(t, Tail(q)) => Occurs(t, q))
  <2>1. /\ Len(q) \in Nat \ {0} /\ Head(q) = q[1] /\ Tail(q) \in Seq(Thread)
        /\ Len(Tail(q)) = Len(q) - 1 /\ \A i \in 1 .. Len(q) - 1 : Tail(q)[i] = q[i + 1]
    BY <1>2, EmptyOrNot
  <2>2. DOMAIN q = 1 .. Len(q) /\ DOMAIN Tail(q) = 1 .. Len(q) - 1
    BY <2>1
  <2>3. \A i \in 1 .. Len(q) - 1 : i + 1 \in 1 .. Len(q)
    BY <2>1, SMTT(30)
  <2> QED BY <2>1, <2>2, <2>3, SMTT(30) DEF Occurs
<1> QED BY <1>1, <1>2

LEMMA WaitsStep ==
  ASSUME TypeOK, AgendaInv, [Next]_vars, NEW s \in Sema, NEW t \in Thread, Waits(t, s)'
  PROVE  Waits(t, s) \/ (t = current /\ now'[t] = Frame("sema_loop", s))
<1>0. current \in Thread /\ sema_waiters \in [Sema -> Seq(Thread)]
  BY DEF TypeOK
<1>1. CASE ThreadStep /\ sema_down
  <2>1. PICK r \in Sema : /\ Top(current) \in {Frame("sema_down", r), Frame("sema_loop", r)}
                          /\ SemaDown(r)
    BY <1>1, ZenonT(30) DEF sema_down
  <2>2. CASE sema_value[r] = 0
    <3>1. /\ sema_waiters' = [sema_waiters EXCEPT ![r] = Append(@, current)]
          /\ Become("sema_loop", r)
      BY <2>1, <2>2, ZenonT(30) DEF SemaDown
    <3>2. now'[current] = Frame("sema_loop", r)
      BY <1>0, <1>1, <2>1, <3>1, SleepView, MovesView, ZenonT(30) DEF ThreadStep, Moves
    <3>3. sema_waiters'[s] = IF s = r THEN Append(sema_waiters[s], current) ELSE sema_waiters[s]
      BY <1>0, <3>1
    <3> QED BY <1>0, <3>2, <3>3, OccursKept, ZenonT(30) DEF Waits
  <2>3. CASE sema_value[r] # 0
    BY <2>1, <2>3 DEF SemaDown, Waits
  <2> QED BY <2>2, <2>3, ZenonT(30)
<1>2. ASSUME NEW r \in Sema, SemaUp(r) PROVE Waits(t, s)
  <2>1. CASE sema_waiters[r] # <<>>
    <3>1. sema_waiters'[s] = IF s = r THEN Tail(sema_waiters[s]) ELSE sema_waiters[s]
      BY <1>0, <1>2, <2>1, ZenonT(30) DEF SemaUp
    <3> QED BY <1>0, <2>1, <3>1, OccursKept, ZenonT(30) DEF Waits
  <2>2. CASE sema_waiters[r] = <<>>
    BY <1>2, <2>2, ZenonT(30) DEF SemaUp, Waits
  <2> QED BY <2>1, <2>2
<1>3. CASE sema_up \/ DeviceInterrupt
  <2>1. \E r \in Sema : SemaUp(r)
    BY <1>3, KernelAssumption DEF sema_up, DeviceInterrupt, Sema
  <2> QED BY <1>2, <2>1, ZenonT(30)
<1>4. CASE UNCHANGED sema_waiters
  BY <1>4 DEF Waits
<1>5. CASE SynchStep /\ ~(sema_down \/ sema_up)
  <2>1. UNCHANGED sema_waiters
    BY <1>5, ZenonT(30) DEF SynchStep, sema_try_down, set_holder, clear_holder, SetHolder, cond_enqueue,
                cond_signal, cond_broadcast, synch
  <2> QED BY <1>4, <2>1, ZenonT(30)
<1>6. CASE create \/ read_tid \/ write_tid \/ unblock \/ set_idle \/ idle_loop \/ timer_sleep
           \/ Call \/ Yield \/ Exit \/ TimerInterrupt \/ UNCHANGED vars
  <2>1. UNCHANGED sema_waiters
    BY <1>6, ZenonT(30) DEF create, read_tid, write_tid, unblock, set_idle, idle_loop, timer_sleep, Call, Yield,
                Exit, TimerInterrupt, vars, synch
  <2> QED BY <1>4, <2>1
<1> QED BY <1>1, <1>3, <1>5, <1>6, ZenonT(30) DEF Next, ThreadStep

LEMMA AsleepStep ==
  ASSUME Base, TypeOK', AgendaInv, SleepInv, [Next]_vars
  PROVE  SleepInv'
<1>0. TypeOK /\ current \in Thread /\ status[current] = "RUNNING"
  BY ZenonT(30) DEF Base, TypeOK, ListsMatchStatus, RunQueueInv
<1>1. ASSUME NEW s \in Sema, NEW t \in Thread, Waits(t, s)' PROVE now'[t] = Frame("sema_loop", s)
  <2>1. CASE Waits(t, s)
    <3>1. t # current /\ now[t] = Frame("sema_loop", s)
      BY <1>0, <2>1, ZenonT(30) DEF Base, ListsMatchStatus, WaitListInv, SleepInv
    <3>2. now[t].op \notin Polls
      BY <3>1, SMTT(30) DEF Polls, Frame
    <3> QED BY <1>0, <3>1, <3>2, OthersStay, ZenonT(30)
  <2> QED BY <1>0, <1>1, <2>1, WaitsStep
<1>2. ASSUME NEW t \in Thread, status'[t] \in Gone PROVE now'[t] = End
  <2>1. CASE status[t] \in Gone
    <3>1. t # current /\ now[t] = End
      BY <1>0, <2>1, ZenonT(30) DEF SleepInv, Gone
    <3>2. now[t].op \notin Polls
      BY <3>1, SMTT(30) DEF Polls, Frame, End
    <3> QED BY <1>0, <3>1, <3>2, OthersStay, ZenonT(30)
  <2>2. CASE t = current /\ Exit
    BY <1>0, <2>2, StillView, ZenonT(30) DEF Exit, now, First
  <2>3. CASE \E u \in Thread : TakesPage(u)
    <3>1. status[t] \in Gone
      BY <1>0, <1>2, <2>3, ZenonT(30) DEF TakesPage, TypeOK, Gone
    <3> QED BY <2>1, <3>1, ZenonT(30)
  <2> QED BY <1>0, <1>2, <2>1, <2>2, <2>3, StatusStep, ZenonT(30) DEF StatusKept
<1> QED BY <1>1, <1>2, ZenonT(30) DEF SleepInv, Gone

LEMMA AsleepInit ==
  ASSUME Init
  PROVE  SleepInv
<1>1. PICK i \in Thread \ {Main} :
        /\ status = [t \in Thread |-> CASE t = Main -> "RUNNING" [] t = i -> "READY" [] OTHER -> "FREE"]
        /\ sema_waiters = [s \in Sema |-> <<>>]
        /\ agenda = [t \in Thread |-> CASE t = Main -> <<Frame("sema_down", IdleStarted)>>
                                        [] t = i -> idle [] OTHER -> <<>>]
  BY DEF Init
<1>2. \A s \in Sema, t \in Thread : ~Waits(t, s)
  BY <1>1 DEF Waits, Occurs
<1>3. \A t \in Thread : status[t] \in {"DYING", "FREE"} => t # Main /\ t # i
  BY <1>1
<1>4. \A t \in Thread : t # Main /\ t # i => now[t] = End
  BY <1>1, ZenonT(30) DEF now, First
<1> QED BY <1>2, <1>3, <1>4 DEF SleepInv
-----------------------------------------------------------------------------
(* Wakeups.                                                                *)

Wakeup(s) == sema_waiters[s] # <<>> => Cardinality(Woken(s)) >= sema_value[s]

LEMMA LoopView ==
  ASSUME NEW a \in Seq(Frames), NEW s
  PROVE  First(a) = Frame("sema_loop", s)
           <=> a # <<>> /\ Head(a).op = "sema_loop" /\ Head(a).arg = s
<1>1. CASE a = <<>>
  BY <1>1 DEF First, End, Frame
<1>2. CASE a # <<>>
  <2>1. Head(a) \in Frames /\ First(a) = Head(a)
    BY <1>2, EmptyOrNot, SMTT(30) DEF First
  <2>2. \A f \in Frames : f = Frame(f.op, f.arg)
    BY DEF Frames, Frame
  <2>3. Frame("sema_loop", s).op = "sema_loop" /\ Frame("sema_loop", s).arg = s
    BY ZenonT(30) DEF Frame
  <2> QED BY <1>2, <2>1, <2>2, <2>3, ZenonT(30)
<1> QED BY <1>1, <1>2, ZenonT(30)

LEMMA WokenView ==
  ASSUME NEW s \in Sema, NEW t \in Thread
  PROVE  /\ TypeOK => (t \in Woken(s) <=> now[t] = Frame("sema_loop", s) /\ status[t] # "BLOCKED")
         /\ TypeOK' => (t \in Woken(s)' <=> now'[t] = Frame("sema_loop", s) /\ status'[t] # "BLOCKED")
<1>1. ASSUME TypeOK
      PROVE  t \in Woken(s) <=> now[t] = Frame("sema_loop", s) /\ status[t] # "BLOCKED"
  <2>1. agenda[t] \in Seq(Frames) /\ now[t] = First(agenda[t])
    BY <1>1, ZenonT(30) DEF TypeOK, now
  <2> QED BY <2>1, LoopView, ZenonT(30) DEF Woken, InKernel, Top
<1>2. ASSUME TypeOK'
      PROVE  t \in Woken(s)' <=> now'[t] = Frame("sema_loop", s) /\ status'[t] # "BLOCKED"
  <2>1. agenda'[t] \in Seq(Frames) /\ now'[t] = First(agenda'[t])
    BY <1>2 DEF TypeOK, now
  <2> QED BY <2>1, LoopView, ZenonT(30) DEF Woken, InKernel, Top
<1> QED BY <1>1, <1>2, ZenonT(30)

(* A thread that was woken stays so until it runs.                         *)
LEMMA WokenStays ==
  ASSUME Base, TypeOK', AgendaInv, SleepInv, [Next]_vars, NEW s \in Sema, NEW t \in Woken(s),
         ~(t = current /\ ThreadStep)
  PROVE  t \in Woken(s)'
<1>0. TypeOK /\ current \in Thread /\ t \in Thread
  BY ZenonT(30) DEF Base, TypeOK, Woken
<1>1. now[t] = Frame("sema_loop", s) /\ status[t] # "BLOCKED" /\ agenda[t] # <<>>
  BY <1>0, WokenView, ZenonT(30) DEF Woken, InKernel
<1>2. now[t].op = "sema_loop" /\ now[t] # End
  BY <1>1, SMTT(30) DEF Frame, End
<1>3. CASE t # current
  <2>1. now'[t] = now[t]
    BY <1>0, <1>2, <1>3, OthersStay, ZenonT(30) DEF Polls
  <2>2. status'[t] # "BLOCKED"
    <3>1. CASE StatusKept
      BY <1>0, <1>1, <1>3, <3>1, ZenonT(30) DEF StatusKept
    <3>2. ASSUME NEW u \in Thread, TakesPage(u) PROVE status'[t] # "BLOCKED"
      <4>1. status[u] = "FREE" /\ status' = [status EXCEPT ![u] = "BLOCKED"]
        BY <3>2, ZenonT(30) DEF TakesPage
      <4>2. t # u
        BY <1>2, <4>1, ZenonT(30) DEF SleepInv
      <4> QED BY <1>0, <1>1, <4>1, <4>2, ZenonT(30) DEF TypeOK
    <3> QED BY <3>1, <3>2, StatusStep, ZenonT(30)
  <2> QED BY <1>0, <1>1, <2>1, <2>2, WokenView, ZenonT(30)
<1>4. CASE t = current
  <2>1. InKernel(current, "sema_loop")
    BY <1>4, ZenonT(30) DEF Woken
  <2>2. ~(TimerInterrupt \/ DeviceInterrupt \/ Call \/ Yield \/ Exit)
    BY <1>1, <1>4, <2>1, ZenonT(30) DEF TimerInterrupt, DeviceInterrupt, intr_get_level, Call, Yield, Exit
  <2>3. UNCHANGED vars
    BY <1>4, <2>2 DEF Next
  <2> QED BY <2>3 DEF vars, sched, Woken, InKernel, Top
<1> QED BY <1>3, <1>4, ZenonT(30)

LEMMA WokenFinite ==
  ASSUME NEW s \in Sema
  PROVE  /\ IsFiniteSet(Woken(s)) /\ Cardinality(Woken(s)) \in Nat
         /\ IsFiniteSet(Woken(s)') /\ Cardinality(Woken(s)') \in Nat
<1>1. Woken(s) \subseteq Thread /\ Woken(s)' \subseteq Thread
  BY DEF Woken
<1>2. IsFiniteSet(Woken(s)) /\ IsFiniteSet(Woken(s)')
  BY <1>1, FS_Subset, ThreadAssumption, ZenonT(30)
<1> QED BY <1>2, FS_CardinalityType, ZenonT(30)

LEMMA WakeupKept ==
  ASSUME TypeOK, TypeOK', NEW s \in Sema, Wakeup(s), Woken(s) \subseteq Woken(s)',
         sema_value'[s] <= sema_value[s], sema_waiters'[s] # <<>> => sema_waiters[s] # <<>>
  PROVE  Wakeup(s)'
<1>1. sema_value[s] \in Nat /\ sema_value'[s] \in Nat
  BY ZenonT(30) DEF TypeOK
<1>2. Cardinality(Woken(s)) <= Cardinality(Woken(s)')
  BY WokenFinite, FS_Subset, ZenonT(30)
<1> QED BY <1>1, <1>2, WokenFinite, SMTT(30) DEF Wakeup

LEMMA SemaUpWakes ==
  ASSUME Base, TypeOK', AgendaInv, SleepInv, [Next]_vars, NEW s \in Sema, NEW r \in Sema, SemaUp(r),
         Wakeup(s), Woken(s) \subseteq Woken(s)'
  PROVE  Wakeup(s)'
<1>0. TypeOK /\ sema_value \in [Sema -> Nat] /\ sema_waiters \in [Sema -> Seq(Thread)]
  BY ZenonT(30) DEF Base, TypeOK
<1>1. CASE s # r
  <2>1. sema_value'[s] = sema_value[s] /\ sema_waiters'[s] = sema_waiters[s]
    BY <1>0, <1>1 DEF SemaUp
  <2> QED BY <1>0, <2>1, WakeupKept, KernelAssumption, SMTT(30)
<1>2. CASE s = r /\ sema_waiters[r] = <<>>
  <2>1. sema_waiters'[s] = <<>>
    BY <1>2 DEF SemaUp
  <2> QED BY <2>1 DEF Wakeup
<1>3. CASE s = r /\ sema_waiters[r] # <<>>
  <2>1. PICK h \in Thread : h = Head(sema_waiters[s])
    BY <1>0, <1>3, EmptyOrNot, SMTT(30)
  <2>2. Waits(h, s)
    BY <1>0, <1>3, <2>1, OccursKept, ZenonT(30) DEF Waits
  <2>3. status[h] = "BLOCKED" /\ now[h] = Frame("sema_loop", s) /\ h # current
    BY <1>0, <2>2, ZenonT(30) DEF Base, ListsMatchStatus, WaitListInv, RunQueueInv, SleepInv
  <2>4. h \notin Woken(s)
    BY <2>3, ZenonT(30) DEF Woken
  <2>5. now'[h] = now[h]
    <3>1. now[h].op \notin Polls
      BY <2>3, SMTT(30) DEF Polls, Frame
    <3> QED BY <1>0, <2>3, <3>1, OthersStay, ZenonT(30)
  <2>6. status'[h] = "READY"
    BY <1>0, <1>3, <2>1, ZenonT(30) DEF SemaUp, thread_unblock, TypeOK
  <2>7. h \in Woken(s)'
    BY <2>3, <2>5, <2>6, WokenView
  <2>8. Cardinality(Woken(s) \cup {h}) = Cardinality(Woken(s)) + 1
    BY <2>4, WokenFinite, FS_AddElement, ZenonT(30)
  <2>9. Cardinality(Woken(s) \cup {h}) <= Cardinality(Woken(s)')
    BY <2>7, WokenFinite, FS_Subset
  <2>10. sema_value'[s] = sema_value[s] + 1 /\ sema_value[s] \in Nat
    BY <1>0, <1>3 DEF SemaUp
  <2> QED BY <1>3, <2>8, <2>9, <2>10, WokenFinite, SMTT(30) DEF Wakeup
<1> QED BY <1>1, <1>2, <1>3, ZenonT(30)

LEMMA SemaDownWakes ==
  ASSUME Base, TypeOK', AgendaInv, SleepInv, ThreadStep, sema_down, NEW s \in Sema, Wakeup(s)
  PROVE  Wakeup(s)'
<1>0. /\ TypeOK /\ current \in Thread /\ sema_value \in [Sema -> Nat]
      /\ sema_waiters \in [Sema -> Seq(Thread)] /\ [Next]_vars
      /\ agenda[current] # <<>> /\ now[current] = Top(current)
  BY ZenonT(30) DEF Base, TypeOK, Next, ThreadStep, now, Top, First
<1>1. PICK r \in Sema : /\ Top(current) \in {Frame("sema_down", r), Frame("sema_loop", r)}
                        /\ SemaDown(r)
  BY DEF sema_down
<1>2. \A t \in Woken(s) : t # current => t \in Woken(s)'
  BY <1>0, WokenStays
<1>3. CASE s # r
  <2>1. current \notin Woken(s)
    <3>1. now[current] # Frame("sema_loop", s)
      BY <1>0, <1>1, <1>3, SMTT(30) DEF Frame
    <3> QED BY <1>0, <3>1, WokenView, ZenonT(30)
  <2>2. Woken(s) \subseteq Woken(s)'
    BY <1>2, <2>1, ZenonT(30)
  <2>3. sema_value'[s] = sema_value[s] /\ sema_waiters'[s] = sema_waiters[s]
    BY <1>0, <1>1, <1>3, ZenonT(30) DEF SemaDown
  <2> QED BY <1>0, <2>2, <2>3, WakeupKept, SMTT(30)
<1>4. CASE s = r /\ sema_value[r] = 0
  <2>1. sema_value'[s] = 0
    BY <1>1, <1>4, ZenonT(30) DEF SemaDown
  <2> QED BY <2>1, WokenFinite, SMTT(30) DEF Wakeup
<1>5. CASE s = r /\ sema_value[r] # 0
  <2>1. sema_value'[s] = sema_value[s] - 1 /\ sema_value[s] \in Nat /\ UNCHANGED sema_waiters
    BY <1>0, <1>1, <1>5, ZenonT(30) DEF SemaDown
  <2>2. Woken(s) \ {current} \subseteq Woken(s)'
    BY <1>2, ZenonT(30)
  <2>3. Cardinality(Woken(s) \ {current}) <= Cardinality(Woken(s)')
    BY <2>2, WokenFinite, FS_Subset, ZenonT(30)
  <2>4. Cardinality(Woken(s) \ {current}) >= Cardinality(Woken(s)) - 1
    <3>1. Cardinality(Woken(s) \ {current}) = IF current \in Woken(s) THEN Cardinality(Woken(s)) - 1
                                              ELSE Cardinality(Woken(s))
      BY WokenFinite, FS_RemoveElement, ZenonT(30)
    <3> QED BY <3>1, WokenFinite, SMTT(30)
  <2>5. Cardinality(Woken(s) \ {current}) \in Nat
    BY WokenFinite, FS_RemoveElement, FS_CardinalityType, FS_Subset
  <2> QED BY <2>1, <2>3, <2>4, <2>5, WokenFinite, SMTT(30) DEF Wakeup
<1> QED BY <1>3, <1>4, <1>5, ZenonT(30)

(* No wakeup is lost in a step.                                            *)
LEMMA WakeupStep ==
  ASSUME Base, TypeOK', AgendaInv, SleepInv, NoLostWakeup, [Next]_vars
  PROVE  NoLostWakeup'
<1> SUFFICES ASSUME NEW s \in Sema PROVE Wakeup(s)'
  BY ZenonT(30) DEF NoLostWakeup, Wakeup
<1>0. /\ TypeOK /\ current \in Thread /\ sema_value \in [Sema -> Nat] /\ Wakeup(s)
      /\ sema_waiters \in [Sema -> Seq(Thread)]
  BY ZenonT(30) DEF Base, TypeOK, NoLostWakeup, Wakeup
<1>1. CASE ThreadStep /\ sema_down
  BY <1>0, <1>1, SemaDownWakes
<1>2. CASE ~(ThreadStep /\ sema_down)
  <2>1. ASSUME current \in Woken(s), ThreadStep PROVE FALSE
    <3>1. agenda[current] # <<>> /\ Top(current).op = "sema_loop"
      BY <2>1, ZenonT(30) DEF Woken, InKernel
    <3>2. ~(create \/ set_idle \/ idle_loop \/ timer_sleep)
      BY <3>1, KernelAssumption, SMTT(30) DEF create, set_idle, idle_loop, timer_sleep, Frame
    <3>3. ~(read_tid \/ write_tid \/ unblock)
      <4>1. \A t : Top(current) \notin {Frame("read_tid", t), Frame("write_tid", t), Frame("unblock", t)}
        BY <3>1, SMTT(30) DEF Frame
      <4> QED BY <4>1, ZenonT(30) DEF read_tid, write_tid, unblock
    <3>4. ~(sema_up \/ sema_try_down \/ set_holder \/ clear_holder)
      <4>1. \A t : Top(current) \notin {Frame("sema_up", t), Frame("sema_try_down", t),
                                        Frame("set_holder", t), Frame("clear_holder", t)}
        BY <3>1, SMTT(30) DEF Frame
      <4> QED BY <4>1, ZenonT(30) DEF sema_up, sema_try_down, set_holder, clear_holder, SetHolder
    <3>5. ~(cond_enqueue \/ cond_signal \/ cond_broadcast)
      <4>1. \A t : Top(current) \notin {Frame("cond_enqueue", t), Frame("cond_signal", t),
                                        Frame("cond_broadcast", t)}
        BY <3>1 DEF Frame
      <4> QED BY <4>1, ZenonT(30) DEF cond_enqueue, cond_signal, cond_broadcast
    <3> QED BY <1>2, <2>1, <3>2, <3>3, <3>4, <3>5, ZenonT(30) DEF ThreadStep, SynchStep
  <2>2. Woken(s) \subseteq Woken(s)'
    BY <2>1, WokenStays
  <2>3. CASE (ThreadStep /\ sema_up) \/ DeviceInterrupt
    <3>1. PICK r \in Sema : SemaUp(r)
      BY <2>3, KernelAssumption, ZenonT(30) DEF sema_up, DeviceInterrupt, Sema
    <3> QED BY <1>0, <2>2, <3>1, SemaUpWakes
  <2>4. CASE UNCHANGED sema_waiters /\ sema_value'[s] <= sema_value[s]
    BY <1>0, <2>2, <2>4, WakeupKept, ZenonT(30)
  <2>5. CASE ThreadStep /\ (sema_try_down \/ cond_enqueue)
    <3>1. UNCHANGED sema_waiters
      BY <2>5 DEF sema_try_down, cond_enqueue
    <3>2. sema_value'[s] <= sema_value[s]
      <4>1. CASE sema_try_down
        <5>1. PICK r \in Lock \cup Semaphore :
                \/ UNCHANGED sema_value
                \/ sema_value' = [sema_value EXCEPT ![r] = @ - 1]
          BY <4>1 DEF sema_try_down
        <5>2. sema_value'[s] = sema_value[s] \/ sema_value'[s] = sema_value[s] - 1
          BY <1>0, <5>1
        <5>3. sema_value[s] \in Nat
          BY <1>0
        <5> QED BY <5>2, <5>3, SMTT(30)
      <4>2. CASE cond_enqueue
        <5>1. sema_value' = [sema_value EXCEPT ![current] = 0]
          BY <4>2 DEF cond_enqueue
        <5> QED BY <1>0, <5>1 DEF Sema
      <4> QED BY <2>5, <4>1, <4>2, ZenonT(30)
    <3> QED BY <2>4, <3>1, <3>2, ZenonT(30)
  <2>6. CASE set_holder \/ clear_holder \/ cond_signal \/ cond_broadcast
    <3>1. UNCHANGED <<sema_waiters, sema_value>>
      BY <2>6, ZenonT(30) DEF set_holder, clear_holder, SetHolder, cond_signal, cond_broadcast, synch
    <3> QED BY <1>0, <2>4, <3>1, SMTT(30)
  <2>7. CASE create \/ read_tid \/ write_tid \/ unblock \/ set_idle \/ idle_loop \/ timer_sleep
             \/ Call \/ Yield \/ Exit \/ TimerInterrupt \/ UNCHANGED vars
    <3>1. UNCHANGED <<sema_waiters, sema_value>>
      BY <2>7, ZenonT(30) DEF create, read_tid, write_tid, unblock, set_idle, idle_loop, timer_sleep, Call, Yield,
                  Exit, TimerInterrupt, vars, synch
    <3> QED BY <1>0, <2>4, <3>1
  <2> QED BY <1>2, <2>3, <2>5, <2>6, <2>7 DEF Next, ThreadStep, SynchStep
<1> QED BY <1>1, <1>2

LEMMA WakeupInit ==
  ASSUME Init
  PROVE  NoLostWakeup
<1>1. sema_waiters = [s \in Sema |-> <<>>]
  BY DEF Init
<1> QED BY <1>1 DEF NoLostWakeup
=============================================================================
