---------------------------- MODULE KernelQueues ----------------------------
(***************************************************************************)
(* The inductive invariant of module Kernel, what the scheduler's operators *)
(* and the changes to an agenda do to it, and thread_create() of           *)
(* threads/thread.c, from the page it takes to the thread it unblocks.     *)
(***************************************************************************)
EXTENDS Kernel, TLAPS

IdleOps == {"set_idle", "idle_loop", "hlt"}

(* Exactly one thread is in idle()'s code.  Until it has set idle_thread   *)
(* it is ready or running, so the run queue is never found empty.          *)
IsIdle(i) ==
  /\ \/ idle_thread = NULL /\ agenda[i] = idle /\ status[i] \in {"READY", "RUNNING"}
     \/ /\ idle_thread = i
        /\ agenda[i] \in {<<Frame("sema_up", IdleStarted), Frame("idle_loop", NULL)>>,
                          <<Frame("idle_loop", NULL)>>, <<Frame("hlt", NULL)>>}
        /\ status[i] \in {"READY", "RUNNING", "BLOCKED"}
  /\ \A t \in Thread \ {i} : \A j \in DOMAIN agenda[t] : agenda[t][j].op \notin IdleOps

IdleInv == \E i \in Thread : IsIdle(i)

(* A thread being created has one creator and stays blocked.               *)
UniqueCreator ==
  \A u, v \in Thread : \A i \in DOMAIN agenda[u], j \in DOMAIN agenda[v] :
    agenda[u][i].op = "unblock" /\ agenda[v][j] = agenda[u][i] => u = v /\ i = j

NascentBlocked ==
  \A t \in Thread : Nascent(t) => status[t] = "BLOCKED" /\ t # idle_thread

IInv == TypeOK /\ RunQueueInv /\ WaitListInv /\ IdleInv /\ UniqueCreator /\ NascentBlocked
-----------------------------------------------------------------------------

(* Concatenation, element by element.                                      *)
LEMMA Joined ==
  ASSUME NEW S, NEW s \in Seq(S), NEW t \in Seq(S)
  PROVE  /\ s \o t \in Seq(S) /\ Len(s \o t) = Len(s) + Len(t)
         /\ \A i \in 1 .. Len(s) + Len(t) : (s \o t)[i] = IF i <= Len(s) THEN s[i] ELSE t[i - Len(s)]
OBVIOUS

(* Queues without repetitions under Append and Tail.                       *)
LEMMA AppendOnce ==
  ASSUME NEW S, NEW q \in Seq(S), NEW x \in S, Once(q), ~Occurs(x, q)
  PROVE  /\ Append(q, x) \in Seq(S)
         /\ Once(Append(q, x))
         /\ \A t : Occurs(t, Append(q, x)) <=> Occurs(t, q) \/ t = x
<1> DEFINE a == Append(q, x)
<1>1. /\ a \in Seq(S) /\ DOMAIN q = 1 .. Len(q) /\ DOMAIN a = 1 .. Len(q) + 1
      /\ Len(q) \in Nat /\ a[Len(q) + 1] = x
      /\ \A i \in DOMAIN q : a[i] = q[i]
  OBVIOUS
<1>2. Once(a)
  BY <1>1 DEF Once, Occurs
<1>3. ASSUME NEW t PROVE Occurs(t, a) <=> Occurs(t, q) \/ t = x
  BY <1>1 DEF Occurs
<1> QED BY <1>1, <1>2, <1>3

LEMMA TailOnce ==
  ASSUME NEW S, NEW q \in Seq(S), q # <<>>, Once(q)
  PROVE  /\ Tail(q) \in Seq(S) /\ Head(q) \in S /\ Occurs(Head(q), q)
         /\ Once(Tail(q))
         /\ \A t : Occurs(t, Tail(q)) <=> Occurs(t, q) /\ t # Head(q)
<1> DEFINE a == Tail(q)
<1>1. /\ a \in Seq(S) /\ DOMAIN q = 1 .. Len(q) /\ DOMAIN a = 1 .. Len(q) - 1
      /\ Len(q) \in Nat \ {0} /\ Head(q) = q[1] /\ Head(q) \in S
      /\ \A i \in DOMAIN a : a[i] = q[i + 1]
  OBVIOUS
<1>2. Once(a)
  BY <1>1 DEF Once
<1>3. ASSUME NEW t PROVE Occurs(t, a) <=> Occurs(t, q) /\ t # Head(q)
  <2>1. ASSUME Occurs(t, a) PROVE Occurs(t, q) /\ t # Head(q)
    BY <1>1, <2>1 DEF Occurs, Once
  <2>2. ASSUME Occurs(t, q), t # Head(q) PROVE Occurs(t, a)
    <3>1. PICK i \in DOMAIN q : q[i] = t
      BY <2>2 DEF Occurs
    <3>2. i - 1 \in DOMAIN a /\ a[i - 1] = t
      BY <1>1, <2>2, <3>1
    <3> QED BY <3>2 DEF Occurs
  <2> QED BY <2>1, <2>2
<1> QED BY <1>1, <1>2, <1>3 DEF Occurs

(* schedule() leaves one thread running and the run queue in order, if it  *)
(* is entered with the queue in order for the statuses st and finds a      *)
(* thread to run.                                                          *)
LEMMA ScheduleStep ==
  ASSUME TypeOK, idle_thread' = idle_thread,
         NEW st \in [Thread -> Status], NEW rl \in Seq(Thread),
         \A t \in Thread : st[t] # "RUNNING",
         Once(rl), \A t \in Thread : Occurs(t, rl) <=> st[t] = "READY" /\ t # idle_thread,
         rl = <<>> => idle_thread \in Thread,
         schedule(st, rl)
  PROVE  /\ status' \in [Thread -> Status] /\ ready_list' \in Seq(Thread)
         /\ current' \in Thread /\ thread_ticks' \in 0 .. TIME_SLICE - 1
         /\ RunQueueInv'
         /\ current' = idle_thread \/ st[current'] = "READY"
         /\ \A t \in Thread : status'[t] = IF t = current' THEN "RUNNING"
                                ELSE IF t = current /\ st[t] = "DYING" /\ t # Main
                                THEN "FREE" ELSE st[t]
<1>1. /\ status' = thread_schedule_tail(st, current, next_thread_to_run(rl))
      /\ ready_list' = IF rl = <<>> THEN rl ELSE Tail(rl)
      /\ current' = next_thread_to_run(rl) /\ thread_ticks' = 0
  BY DEF schedule
<1>2. \A t \in Thread : status'[t] = IF t = current' THEN "RUNNING"
                          ELSE IF t = current /\ st[t] = "DYING" /\ t # Main
                          THEN "FREE" ELSE st[t]
  BY <1>1 DEF thread_schedule_tail
<1>3. status' \in [Thread -> Status]
  BY <1>1 DEF thread_schedule_tail, Status
<1>4. thread_ticks' \in 0 .. TIME_SLICE - 1
  BY <1>1, ThreadAssumption
<1>5. CASE rl = <<>>
  <2>1. current' = idle_thread /\ ready_list' = <<>>
    BY <1>1, <1>5 DEF next_thread_to_run
  <2>2. Once(<<>>) /\ \A t : ~Occurs(t, <<>>)
    BY DEF Once, Occurs
  <2>3. RunQueueInv'
    BY <1>2, <1>5, <2>1, <2>2 DEF RunQueueInv
  <2> QED BY <1>2, <1>3, <1>4, <1>5, <2>1, <2>3
<1>6. CASE rl # <<>>
  <2>1. current' = Head(rl) /\ ready_list' = Tail(rl)
    BY <1>1, <1>6 DEF next_thread_to_run
  <2>2. /\ Tail(rl) \in Seq(Thread) /\ Head(rl) \in Thread /\ Occurs(Head(rl), rl)
        /\ Once(Tail(rl)) /\ \A t : Occurs(t, Tail(rl)) <=> Occurs(t, rl) /\ t # Head(rl)
    BY <1>6, TailOnce
  <2>3. RunQueueInv'
    BY <1>2, <2>1, <2>2 DEF RunQueueInv
  <2> QED BY <1>2, <1>3, <1>4, <2>1, <2>2, <2>3
<1> QED BY <1>5, <1>6

(* What is left alone by a switch away from a thread that yields, blocks   *)
(* or exits.                                                               *)
LEMMA YieldStep ==
  ASSUME TypeOK, RunQueueInv, thread_yield, idle_thread' = idle_thread
  PROVE  /\ status' \in [Thread -> Status] /\ ready_list' \in Seq(Thread)
         /\ current' \in Thread /\ thread_ticks' \in 0 .. TIME_SLICE - 1
         /\ RunQueueInv'
         /\ \A t \in Thread : t # idle_thread => (status'[t] = "BLOCKED" <=> status[t] = "BLOCKED")
         /\ \A t \in Thread : status[t] \in {"READY", "RUNNING"} => status'[t] \in {"READY", "RUNNING"}
         /\ \A t \in Thread : status[t] = "BLOCKED" => status'[t] \in {"BLOCKED", "RUNNING"}
<1> DEFINE st == [status EXCEPT ![current] = "READY"]
           rl == IF current # idle_thread THEN Append(ready_list, current) ELSE ready_list
<1>1. /\ st \in [Thread -> Status] /\ rl \in Seq(Thread) /\ st[current] = "READY"
      /\ \A t \in Thread : st[t] # "RUNNING" /\ (t # current => st[t] = status[t])
  BY DEF TypeOK, RunQueueInv, Status
<1>2. Once(rl) /\ \A t \in Thread : Occurs(t, rl) <=> st[t] = "READY" /\ t # idle_thread
  <2>1. CASE current # idle_thread
    <3>1. ~Occurs(current, ready_list)
      BY DEF TypeOK, RunQueueInv
    <3> QED BY <2>1, <3>1, AppendOnce DEF TypeOK, RunQueueInv
  <2>2. CASE current = idle_thread
    BY <2>2 DEF TypeOK, RunQueueInv
  <2> QED BY <2>1, <2>2
<1>3. rl = <<>> => idle_thread \in Thread
  BY <1>1, <1>2 DEF TypeOK, Occurs
<1>4. schedule(st, rl)
  BY DEF thread_yield
<1> HIDE DEF st, rl
<1>5. /\ status' \in [Thread -> Status] /\ ready_list' \in Seq(Thread)
      /\ current' \in Thread /\ thread_ticks' \in 0 .. TIME_SLICE - 1
      /\ RunQueueInv'
      /\ current' = idle_thread \/ st[current'] = "READY"
      /\ \A t \in Thread : status'[t] = IF t = current' THEN "RUNNING"
                             ELSE IF t = current /\ st[t] = "DYING" /\ t # Main
                             THEN "FREE" ELSE st[t]
  BY <1>1, <1>2, <1>3, <1>4, ScheduleStep
<1>6. \A t \in Thread : status'[t] = IF t = current' THEN "RUNNING"
                                     ELSE IF t = current THEN "READY" ELSE status[t]
  BY <1>1, <1>5
<1>7. status[current] = "RUNNING" /\ (current' = idle_thread \/ current' = current \/ status[current'] = "READY")
  BY <1>1, <1>5 DEF RunQueueInv, TypeOK
<1> QED BY <1>5, <1>6, <1>7

LEMMA BlockStep ==
  ASSUME TypeOK, RunQueueInv, thread_block, idle_thread' = idle_thread,
         ready_list = <<>> => idle_thread \in Thread
  PROVE  /\ status' \in [Thread -> Status] /\ ready_list' \in Seq(Thread)
         /\ current' \in Thread /\ thread_ticks' \in 0 .. TIME_SLICE - 1
         /\ RunQueueInv'
         /\ \A t \in Thread : t # idle_thread =>
               (status'[t] = "BLOCKED" <=> t = current \/ status[t] = "BLOCKED")
         /\ \A t \in Thread : status[t] \in {"READY", "RUNNING"} /\ t # current
                                => status'[t] \in {"READY", "RUNNING"}
         /\ \A t \in Thread : status[t] = "BLOCKED" \/ t = current
                                => status'[t] \in {"BLOCKED", "RUNNING"}
<1> DEFINE st == [status EXCEPT ![current] = "BLOCKED"]
<1>1. /\ st \in [Thread -> Status] /\ ready_list \in Seq(Thread) /\ st[current] = "BLOCKED"
      /\ \A t \in Thread : st[t] # "RUNNING" /\ (t # current => st[t] = status[t])
  BY DEF TypeOK, RunQueueInv, Status
<1>2. Once(ready_list) /\ \A t \in Thread : Occurs(t, ready_list) <=> st[t] = "READY" /\ t # idle_thread
  BY <1>1, ZenonT(30) DEF RunQueueInv, TypeOK
<1>4. schedule(st, ready_list)
  BY DEF thread_block
<1> HIDE DEF st
<1>5. /\ status' \in [Thread -> Status] /\ ready_list' \in Seq(Thread)
      /\ current' \in Thread /\ thread_ticks' \in 0 .. TIME_SLICE - 1
      /\ RunQueueInv'
      /\ current' = idle_thread \/ st[current'] = "READY"
      /\ \A t \in Thread : status'[t] = IF t = current' THEN "RUNNING"
                             ELSE IF t = current /\ st[t] = "DYING" /\ t # Main
                             THEN "FREE" ELSE st[t]
  BY <1>1, <1>2, <1>4, ScheduleStep
<1>6. \A t \in Thread : status'[t] = IF t = current' THEN "RUNNING"
                                     ELSE IF t = current THEN "BLOCKED" ELSE status[t]
  BY <1>1, <1>5
<1>7. current' = idle_thread \/ (current' # current /\ status[current'] = "READY")
  BY <1>1, <1>5, SMTT(30) DEF RunQueueInv, TypeOK
<1> QED BY <1>5, <1>6, <1>7

LEMMA ExitStep ==
  ASSUME TypeOK, RunQueueInv, thread_exit, idle_thread' = idle_thread,
         ready_list = <<>> => idle_thread \in Thread, current # idle_thread
  PROVE  /\ status' \in [Thread -> Status] /\ ready_list' \in Seq(Thread)
         /\ current' \in Thread /\ thread_ticks' \in 0 .. TIME_SLICE - 1
         /\ RunQueueInv'
         /\ \A t \in Thread : t # idle_thread => (status'[t] = "BLOCKED" <=> status[t] = "BLOCKED")
         /\ \A t \in Thread : status[t] \in {"READY", "RUNNING"} /\ t # current
                                => status'[t] \in {"READY", "RUNNING"}
         /\ \A t \in Thread : status[t] = "BLOCKED" => status'[t] \in {"BLOCKED", "RUNNING"}
<1> DEFINE st == [status EXCEPT ![current] = "DYING"]
<1>1. /\ st \in [Thread -> Status] /\ ready_list \in Seq(Thread) /\ st[current] = "DYING"
      /\ status[current] = "RUNNING"
      /\ \A t \in Thread : st[t] # "RUNNING" /\ (t # current => st[t] = status[t])
  BY DEF TypeOK, RunQueueInv, Status
<1>2. Once(ready_list) /\ \A t \in Thread : Occurs(t, ready_list) <=> st[t] = "READY" /\ t # idle_thread
  BY <1>1, SMTT(30) DEF RunQueueInv, TypeOK
<1>4. schedule(st, ready_list)
  BY DEF thread_exit
<1> HIDE DEF st
<1>5. /\ status' \in [Thread -> Status] /\ ready_list' \in Seq(Thread)
      /\ current' \in Thread /\ thread_ticks' \in 0 .. TIME_SLICE - 1
      /\ RunQueueInv'
      /\ current' = idle_thread \/ st[current'] = "READY"
      /\ \A t \in Thread : status'[t] = IF t = current' THEN "RUNNING"
                             ELSE IF t = current /\ st[t] = "DYING" /\ t # Main
                             THEN "FREE" ELSE st[t]
  BY <1>1, <1>2, <1>4, ScheduleStep
<1>7. current' = idle_thread \/ (current' # current /\ status[current'] = "READY")
  BY <1>1, <1>5, SMTT(30) DEF TypeOK
<1> QED BY <1>1, <1>5, <1>7, SMTT(30)

(* A blocked thread made ready.                                            *)
LEMMA UnblockStep ==
  ASSUME TypeOK, RunQueueInv, NEW w \in Thread, status[w] = "BLOCKED", w # idle_thread,
         thread_unblock(w), idle_thread' = idle_thread
  PROVE  /\ status' \in [Thread -> Status] /\ ready_list' \in Seq(Thread)
         /\ current' \in Thread /\ thread_ticks' \in 0 .. TIME_SLICE - 1
         /\ RunQueueInv'
         /\ \A t \in Thread : status'[t] = IF t = w THEN "READY" ELSE status[t]
<1>1. ~Occurs(w, ready_list) /\ w # current
  BY DEF RunQueueInv, TypeOK
<1>2. /\ \A t \in Thread : status'[t] = IF t = w THEN "READY" ELSE status[t]
      /\ status' \in [Thread -> Status]
      /\ ready_list' = Append(ready_list, w) /\ current' = current /\ thread_ticks' = thread_ticks
  BY DEF thread_unblock, TypeOK, Status
<1>3. /\ ready_list' \in Seq(Thread) /\ Once(ready_list')
      /\ \A t : Occurs(t, ready_list') <=> Occurs(t, ready_list) \/ t = w
  BY <1>1, <1>2, AppendOnce DEF TypeOK, RunQueueInv
<1> QED BY <1>1, <1>2, <1>3, ZenonT(30) DEF RunQueueInv, TypeOK
-----------------------------------------------------------------------------
NoIdleOps(t) == \A j \in DOMAIN agenda[t] : agenda[t][j].op \notin IdleOps

(* The running thread went on without starting or ending a creation, and   *)
(* without entering idle().                                                *)
AgendaKept ==
  /\ agenda' \in [Thread -> Seq(Frames)]
  /\ \A t \in Thread : Nascent(t)' <=> Nascent(t)
  /\ UniqueCreator'
  /\ \A t \in Thread : t # current => agenda'[t] = agenda[t]
  /\ NoIdleOps(current) => \A j \in DOMAIN agenda'[current] : agenda'[current][j].op \notin IdleOps

(* Agenda new is agenda old moved by d places, as far as the frames that   *)
(* matter to creation and to idle() are concerned.                         *)
Shifted(new, old, d) ==
  /\ \A j \in 1 .. Len(new) :
        \/ new[j].op \notin IdleOps \cup {"unblock"}
        \/ j + d \in 1 .. Len(old) /\ new[j] = old[j + d]
  /\ \A j \in 1 .. Len(old) :
        \/ old[j].op # "unblock"
        \/ j - d \in 1 .. Len(new) /\ new[j - d] = old[j]

LEMMA KeptStep ==
  ASSUME TypeOK, UniqueCreator,
         NEW new \in Seq(Frames),
         agenda' = [agenda EXCEPT ![current] = new],
         \E d \in Int : Shifted(new, agenda[current], d)
  PROVE  AgendaKept
<1> DEFINE old == agenda[current]
<1>1. /\ agenda' \in [Thread -> Seq(Frames)] /\ agenda'[current] = new
      /\ \A t \in Thread : t # current => agenda'[t] = agenda[t]
      /\ current \in Thread
  BY DEF TypeOK
<1>2. /\ old \in Seq(Frames) /\ DOMAIN old = 1 .. Len(old) /\ DOMAIN new = 1 .. Len(new)
      /\ Len(old) \in Nat /\ Len(new) \in Nat
  BY DEF TypeOK
<1>3. PICK d \in Int : Shifted(new, old, d)
  OBVIOUS
<1> HIDE DEF old
<1>4. ASSUME NEW j \in DOMAIN new, new[j].op \in IdleOps \cup {"unblock"}
      PROVE  j \in Int /\ j + d \in DOMAIN old /\ old[j + d] = new[j]
  BY <1>2, <1>3, <1>4 DEF Shifted
<1>5. ASSUME NEW j \in DOMAIN old, old[j].op = "unblock"
      PROVE  j - d \in DOMAIN new /\ new[j - d] = old[j]
  BY <1>2, <1>3, <1>5 DEF Shifted
<1>6. ASSUME NEW t \in Thread PROVE Nascent(t)' <=> Nascent(t)
  <2>1. Frame("unblock", t).op = "unblock"
    BY DEF Frame
  <2>2. ASSUME Nascent(t)' PROVE Nascent(t)
    <3>1. PICK u \in Thread : \E i \in DOMAIN agenda'[u] : agenda'[u][i] = Frame("unblock", t)
      BY <2>2 DEF Nascent
    <3>2. PICK i \in DOMAIN agenda'[u] : agenda'[u][i] = Frame("unblock", t)
      BY <3>1
    <3>3. CASE u = current
      <4>1. i + d \in DOMAIN old /\ old[i + d] = Frame("unblock", t)
        BY <1>1, <1>4, <2>1, <3>2, <3>3
      <4> QED BY <1>1, <4>1 DEF Nascent, old
    <3>4. CASE u # current
      BY <1>1, <3>2, <3>4 DEF Nascent
    <3> QED BY <3>3, <3>4
  <2>3. ASSUME Nascent(t) PROVE Nascent(t)'
    <3>1. PICK u \in Thread : \E i \in DOMAIN agenda[u] : agenda[u][i] = Frame("unblock", t)
      BY <2>3 DEF Nascent
    <3>2. PICK i \in DOMAIN agenda[u] : agenda[u][i] = Frame("unblock", t)
      BY <3>1
    <3>3. CASE u = current
      <4>1. i - d \in DOMAIN new /\ new[i - d] = Frame("unblock", t)
        BY <1>5, <2>1, <3>2, <3>3 DEF old
      <4> QED BY <1>1, <4>1 DEF Nascent
    <3>4. CASE u # current
      BY <1>1, <3>2, <3>4 DEF Nascent
    <3> QED BY <3>3, <3>4
  <2> QED BY <2>2, <2>3
<1>7. UniqueCreator'
  <2> SUFFICES ASSUME NEW u \in Thread, NEW v \in Thread,
                      NEW i \in DOMAIN agenda'[u], NEW j \in DOMAIN agenda'[v],
                      agenda'[u][i].op = "unblock", agenda'[v][j] = agenda'[u][i]
               PROVE  u = v /\ i = j
    BY DEF UniqueCreator
  <2> DEFINE i0 == IF u = current THEN i + d ELSE i
             j0 == IF v = current THEN j + d ELSE j
  <2>1. i0 \in DOMAIN agenda[u] /\ agenda[u][i0] = agenda'[u][i] /\ (u = current => i \in Int)
    <3>1. CASE u = current
      BY <1>1, <1>4, <3>1 DEF old
    <3>2. CASE u # current
      BY <1>1, <3>2
    <3> QED BY <3>1, <3>2
  <2>2. j0 \in DOMAIN agenda[v] /\ agenda[v][j0] = agenda'[v][j] /\ (v = current => j \in Int)
    <3>1. CASE v = current
      BY <1>1, <1>4, <3>1 DEF old
    <3>2. CASE v # current
      BY <1>1, <3>2
    <3> QED BY <3>1, <3>2
  <2> HIDE DEF i0, j0
  <2>3. u = v /\ i0 = j0
    BY <2>1, <2>2 DEF UniqueCreator
  <2> QED BY <2>1, <2>2, <2>3 DEF i0, j0
<1>8. ASSUME NoIdleOps(current), NEW j \in DOMAIN agenda'[current]
      PROVE  agenda'[current][j].op \notin IdleOps
  BY <1>1, <1>4, <1>8 DEF NoIdleOps, old
<1> QED BY <1>1, <1>6, <1>7, <1>8 DEF AgendaKept

LEMMA PopStep ==
  ASSUME TypeOK, UniqueCreator, agenda[current] # <<>>, Top(current).op # "unblock",
         Continue(Under(current))
  PROVE  AgendaKept
<1> DEFINE old == agenda[current]
           new == Tail(old)
<1>1. old \in Seq(Frames) /\ agenda' = [agenda EXCEPT ![current] = new]
  BY DEF TypeOK, Continue, Under
<1>2. /\ new \in Seq(Frames) /\ Len(new) = Len(old) - 1
      /\ Len(old) \in Nat \ {0} /\ \A j \in 1 .. Len(new) : new[j] = old[j + 1]
      /\ old[1].op # "unblock"
  BY <1>1 DEF Top
<1> HIDE DEF new, old
<1>3. Shifted(new, old, 1)
  BY <1>2 DEF Shifted
<1>4. \E d \in Int : Shifted(new, agenda[current], d)
  BY <1>3 DEF old
<1> QED BY <1>1, <1>2, <1>4, KeptStep, ZenonT(30)

LEMMA BecomeStep ==
  ASSUME TypeOK, UniqueCreator, agenda[current] # <<>>, Top(current).op # "unblock",
         NEW op, NEW arg, Frame(op, arg) \in Frames, op \notin IdleOps \cup {"unblock"},
         Become(op, arg)
  PROVE  AgendaKept
<1> DEFINE old == agenda[current]
           new == [old EXCEPT ![1] = Frame(op, arg)]
<1>1. old \in Seq(Frames) /\ agenda' = [agenda EXCEPT ![current] = new]
  BY DEF TypeOK, Become
<1>2. Len(old) \in Nat \ {0} /\ 1 \in 1 .. Len(old) /\ old[1].op # "unblock"
  BY <1>1 DEF Top
<1>3. /\ new \in Seq(Frames) /\ Len(new) = Len(old)
      /\ \A j \in 1 .. Len(old) : new[j] = IF j = 1 THEN Frame(op, arg) ELSE old[j]
  BY <1>1, <1>2
<1> HIDE DEF new, old
<1>4. new[1].op = op
  BY <1>2, <1>3 DEF Frame
<1>5. Shifted(new, old, 0)
  BY <1>2, <1>3, <1>4 DEF Shifted
<1>6. \E d \in Int : Shifted(new, agenda[current], d)
  BY <1>5 DEF old
<1> QED BY <1>1, <1>3, <1>6, KeptStep, ZenonT(30)
-----------------------------------------------------------------------------
(* A thread whose agenda is empty, or whose innermost frame is not one of  *)
(* idle()'s, is not the idle thread.                                       *)
LEMMA NotIdle ==
  ASSUME NEW i \in Thread, IsIdle(i),
         agenda[current] = <<>>
         \/ Top(current).op \notin {"set_idle", "sema_up", "idle_loop", "hlt"}
  PROVE  current # i
<1> SUFFICES ASSUME current = i PROVE FALSE
  OBVIOUS
<1>1. /\ idle # <<>> /\ Head(idle).op = "set_idle"
      /\ \A f, g : <<f, g>> # <<>> /\ Head(<<f, g>>) = f /\ <<f>> # <<>> /\ Head(<<f>>) = f
  BY DEF idle, Frame
<1>2. agenda[i] # <<>> /\ Head(agenda[i]).op \in {"set_idle", "sema_up", "idle_loop", "hlt"}
  BY <1>1 DEF IsIdle, Frame
<1> QED BY <1>2 DEF Top

(* The idle thread is never the one that leaves the processor without a    *)
(* successor.                                                              *)
LEMMA SomeoneToRun ==
  ASSUME TypeOK, RunQueueInv, NEW i \in Thread, IsIdle(i), current # i \/ idle_thread = i,
         ready_list = <<>>
  PROVE  idle_thread \in Thread
<1>1. CASE idle_thread = i
  BY <1>1
<1>2. CASE idle_thread # i
  <2>1. idle_thread = NULL /\ status[i] \in {"READY", "RUNNING"} /\ current # i
    BY <1>2 DEF IsIdle
  <2>2. status[i] = "READY" /\ i # idle_thread
    BY <2>1, ThreadAssumption DEF RunQueueInv
  <2>3. Occurs(i, ready_list)
    BY <2>2 DEF RunQueueInv
  <2> QED BY <2>3 DEF Occurs
<1> QED BY <1>1, <1>2

(* Steps that leave the wait lists and the set of blocked threads alone.   *)
LEMMA WaitersSame ==
  ASSUME WaitListInv, NascentBlocked,
         sema_waiters' = sema_waiters, idle_thread' = idle_thread,
         \A t \in Thread : t # idle_thread => (status'[t] = "BLOCKED" <=> status[t] = "BLOCKED"),
         \A t \in Thread : Nascent(t)' <=> Nascent(t)
  PROVE  WaitListInv' /\ NascentBlocked'
<1>1. WaitListInv'
  BY DEF WaitListInv, Waits
<1>2. NascentBlocked'
  BY DEF NascentBlocked
<1> QED BY <1>1, <1>2

(* The idle thread goes on being the idle thread while others run.         *)
LEMMA IdleKept ==
  ASSUME NEW i \in Thread, IsIdle(i), current # i, current \in Thread,
         AgendaKept, idle_thread' = idle_thread,
         status[i] \in {"READY", "RUNNING"} => status'[i] \in {"READY", "RUNNING"},
         status[i] = "BLOCKED" => status'[i] \in {"READY", "BLOCKED", "RUNNING"}
  PROVE  IdleInv'
<1>1. agenda'[i] = agenda[i]
  BY DEF AgendaKept
<1>2. \A t \in Thread \ {i} : \A j \in DOMAIN agenda'[t] : agenda'[t][j].op \notin IdleOps
  BY SMTT(30) DEF AgendaKept, IsIdle, NoIdleOps
<1>3. IsIdle(i)'
  BY <1>1, <1>2 DEF IsIdle, idle
<1> QED BY <1>3 DEF IdleInv

(* Steps of a thread that do not touch the scheduler.                      *)
LEMMA QuietStep ==
  ASSUME IInv, NEW i \in Thread, IsIdle(i), current # i, AgendaKept,
         UNCHANGED <<sched, idle_thread, sema_waiters>>,
         sema_value' \in [Sema -> Nat], lock_holder' \in [Lock -> Thread \cup {NULL}],
         cond_waiters' \in [Condition -> Seq(Thread)], tid' \in [Thread -> Nat], next_tid' \in Nat
  PROVE  IInv'
<1>1. TypeOK'
  BY ZenonT(30) DEF IInv, TypeOK, AgendaKept, sched
<1>2. RunQueueInv'
  BY DEF IInv, RunQueueInv, sched
<1>3. WaitListInv' /\ NascentBlocked'
  BY WaitersSame DEF IInv, sched, AgendaKept
<1>4. IdleInv'
  BY IdleKept DEF IInv, TypeOK, sched
<1> QED BY <1>1, <1>2, <1>3, <1>4 DEF IInv, AgendaKept
-----------------------------------------------------------------------------
Plain == {f \in Frames : f.op \notin IdleOps \cup {"unblock"}}

LEMMA PlainFrame ==
  ASSUME NEW op \in Op \ (IdleOps \cup {"unblock"}),
         NEW arg \in Sema \cup Condition \cup {NULL}
  PROVE  Frame(op, arg) \in Plain /\ <<Frame(op, arg)>> \in Seq(Plain)
<1>1. Frame(op, arg) \in Plain
  BY DEF Frame, Frames, Plain
<1> QED BY <1>1

LEMMA PlainSeq ==
  ASSUME NEW s \in Seq(Plain)
  PROVE  s \in Seq(Frames) /\ \A j \in 1 .. Len(s) : s[j].op \notin IdleOps \cup {"unblock"}
<1>1. Plain \subseteq Frames
  BY DEF Plain
<1>2. s \in Seq(Frames)
  BY <1>1
<1>3. \A j \in 1 .. Len(s) : s[j] \in Plain
  OBVIOUS
<1> QED BY <1>2, <1>3 DEF Plain

(* What thread_create() and a client put on an agenda is plain.            *)
LEMMA PlainCalls ==
  /\ \A l \in Lock : lock_acquire(l) \in Seq(Plain) /\ lock_release(l) \in Seq(Plain)
  /\ \A t \in Thread : allocate_tid(t) \in Seq(Plain)
  /\ TypeOK => \A c \in Condition, l \in Lock : cond_wait(c, l) \in Seq(Plain)
<1>1. ASSUME NEW l \in Lock
      PROVE  lock_acquire(l) \in Seq(Plain) /\ lock_release(l) \in Seq(Plain)
  <2>1. /\ Frame("sema_down", l) \in Plain /\ Frame("set_holder", l) \in Plain
        /\ Frame("clear_holder", l) \in Plain /\ Frame("sema_up", l) \in Plain
    BY DEF Plain, Frame, Frames, Op, Sema, IdleOps
  <2> QED BY <2>1 DEF lock_acquire, lock_release
<1>2. ASSUME NEW t \in Thread PROVE allocate_tid(t) \in Seq(Plain)
  <2>1. Frame("read_tid", t) \in Plain /\ Frame("write_tid", t) \in Plain
    BY DEF Plain, Frame, Frames, Op, Sema, IdleOps
  <2>2. <<Frame("read_tid", t), Frame("write_tid", t)>> \in Seq(Plain)
    BY <2>1
  <2>3. lock_acquire(TidLock) \in Seq(Plain) /\ lock_release(TidLock) \in Seq(Plain)
    BY <1>1, KernelAssumption
  <2> QED BY <2>2, <2>3, Joined DEF allocate_tid
<1>3. ASSUME TypeOK, NEW c \in Condition, NEW l \in Lock PROVE cond_wait(c, l) \in Seq(Plain)
  <2>1. Frame("cond_enqueue", c) \in Plain /\ Frame("sema_down", current) \in Plain
    BY <1>3, ZenonT(30) DEF Plain, Frame, Frames, Op, Sema, IdleOps, TypeOK
  <2>2. <<Frame("cond_enqueue", c)>> \in Seq(Plain) /\ <<Frame("sema_down", current)>> \in Seq(Plain)
    BY <2>1
  <2>3. <<Frame("cond_enqueue", c)>> \o lock_release(l) \in Seq(Plain)
    BY <1>1, <2>2, Joined
  <2>4. <<Frame("cond_enqueue", c)>> \o lock_release(l) \o <<Frame("sema_down", current)>> \in Seq(Plain)
    BY <2>2, <2>3, Joined
  <2> QED BY <1>1, <2>4, Joined DEF cond_wait
<1> QED BY <1>1, <1>2, <1>3
-----------------------------------------------------------------------------
(* Steps of thread.c.                                                      *)

(* thread_create() finds a page: a new thread becomes nascent.             *)
LEMMA CreateStep ==
  ASSUME IInv, agenda[current] # <<>>, create
  PROVE  IInv'
<1> USE DEF IInv
<1>1. PICK i \in Thread : IsIdle(i)
  BY DEF IdleInv
<1>2. Top(current).op = "create" /\ current \in Thread /\ current # i
  BY <1>1, NotIdle DEF create, Frame, TypeOK
<1>3. UNCHANGED <<ready_list, current, thread_ticks, idle_thread, synch, next_tid>>
  BY DEF create
<1>4. CASE Continue(Under(current)) /\ UNCHANGED <<status, tid>>
  <2>1. AgendaKept
    BY <1>2, <1>4, PopStep
  <2> QED BY <1>1, <1>2, <1>3, <1>4, <2>1, QuietStep, ZenonT(30) DEF TypeOK, synch, sched
<1>5. ASSUME NEW t \in Thread, status[t] = "FREE",
             status' = [status EXCEPT ![t] = "BLOCKED"], tid' = [tid EXCEPT ![t] = 0],
             Continue(allocate_tid(t) \o <<Frame("unblock", t)>> \o Under(current))
      PROVE  IInv'
  <2> DEFINE old == agenda[current]
             P == allocate_tid(t)
             U == Frame("unblock", t)
             T == Tail(old)
             new == P \o <<U>> \o T
  <2>1. /\ status[current] = "RUNNING" /\ t # current /\ t # i /\ t # idle_thread
        /\ ~Nascent(t) /\ ~Occurs(t, ready_list) /\ \A s \in Sema : ~Waits(t, s)
    BY <1>1, <1>2, <1>5, ThreadAssumption DEF RunQueueInv, IsIdle, NascentBlocked, WaitListInv
  <2>2. /\ old \in Seq(Frames) /\ Len(old) \in Nat \ {0} /\ T \in Seq(Frames)
        /\ Len(T) = Len(old) - 1 /\ old[1].op = "create"
        /\ \A j \in 1 .. Len(old) - 1 : T[j] = old[j + 1]
    BY <1>2 DEF TypeOK, Top
  <2>3. P \in Seq(Frames) /\ Len(P) \in Nat
        /\ \A j \in 1 .. Len(P) : P[j].op \notin IdleOps \cup {"unblock"}
    BY PlainCalls, PlainSeq
  <2>4. U \in Frames /\ U.op = "unblock" /\ U.arg = t /\ <<U>> \in Seq(Frames) /\ Len(<<U>>) = 1 /\ <<U>>[1] = U
    BY DEF Frame, Frames, Op, Sema
  <2> HIDE DEF P, U, T, old
  <2>5. /\ P \o <<U>> \in Seq(Frames) /\ Len(P \o <<U>>) = Len(P) + 1
        /\ \A j \in 1 .. Len(P) + 1 : (P \o <<U>>)[j] = IF j <= Len(P) THEN P[j] ELSE <<U>>[j - Len(P)]
    BY <2>3, <2>4, Joined
  <2>6. /\ new \in Seq(Frames) /\ Len(new) = Len(P) + Len(old)
        /\ \A j \in 1 .. Len(P) + Len(old) :
              new[j] = IF j <= Len(P) + 1 THEN (P \o <<U>>)[j] ELSE T[j - (Len(P) + 1)]
    <3> DEFINE Q == P \o <<U>>
    <3>1. Q \in Seq(Frames) /\ Len(Q) = Len(P) + 1
      BY <2>5
    <3> HIDE DEF Q
    <3>2. /\ Q \o T \in Seq(Frames) /\ Len(Q \o T) = Len(Q) + Len(T)
          /\ \A j \in 1 .. Len(Q) + Len(T) : (Q \o T)[j] = IF j <= Len(Q) THEN Q[j] ELSE T[j - Len(Q)]
      <4>1. T \in Seq(Frames) /\ Q \in Seq(Frames)
        BY <2>2, <3>1
      <4> QED BY ONLY <4>1, Joined
    <3>3. Len(Q) + Len(T) = Len(P) + Len(old)
      BY <2>2, <2>3, <3>1
    <3>4. /\ Q \o T \in Seq(Frames) /\ Len(Q \o T) = Len(P) + Len(old)
          /\ \A j \in 1 .. Len(P) + Len(old) :
                (Q \o T)[j] = IF j <= Len(P) + 1 THEN Q[j] ELSE T[j - (Len(P) + 1)]
      BY <3>1, <3>2, <3>3
    <3> QED BY <3>4 DEF Q
  <2> DEFINE k == Len(P) + 1
             d == 1 - k
  <2> HIDE DEF new
  <2>7. /\ k \in Nat /\ d \in Int /\ k \in DOMAIN new /\ new[k] = U
        /\ DOMAIN new \subseteq Int /\ DOMAIN old = 1 .. Len(old)
        /\ \A j \in DOMAIN new : new[j].op \in IdleOps \cup {"unblock"} /\ j # k
              => j + d \in DOMAIN old /\ old[j + d] = new[j]
        /\ \A j \in DOMAIN old : old[j].op = "unblock" => j - d \in DOMAIN new /\ new[j - d] = old[j]
    <3>1. DOMAIN new = 1 .. Len(P) + Len(old) /\ DOMAIN old = 1 .. Len(old)
      BY <2>2, <2>6
    <3>2. k \in Nat /\ d \in Int /\ k \in DOMAIN new /\ new[k] = U
      <4>1. k \in Nat /\ d \in Int /\ k \in 1 .. Len(P) + Len(old) /\ k \in 1 .. Len(P) + 1
            /\ k <= Len(P) + 1 /\ ~(k <= Len(P)) /\ k - Len(P) = 1
        BY <2>2, <2>3
      <4>2. new[k] = (P \o <<U>>)[k]
        BY <2>6, <4>1
      <4>3. (P \o <<U>>)[k] = <<U>>[k - Len(P)]
        BY <2>5, <4>1
      <4> QED BY <2>4, <3>1, <4>1, <4>2, <4>3
    <3>3. ASSUME NEW j \in DOMAIN new, new[j].op \in IdleOps \cup {"unblock"}, j # k
          PROVE  j + d \in DOMAIN old /\ old[j + d] = new[j]
      <4>0. j \in 1 .. Len(P) + Len(old)
        BY <3>1
      <4>1. j > k
        <5>1. CASE j <= Len(P)
          <6>1. j <= Len(P) + 1 /\ j \in 1 .. Len(P) + 1 /\ j \in 1 .. Len(P)
            BY <2>3, <4>0, <5>1
          <6>2. new[j] = P[j]
            BY <2>5, <2>6, <4>0, <5>1, <6>1
          <6> QED BY <2>3, <3>3, <6>1, <6>2
        <5> QED BY <2>2, <2>3, <3>3, <4>0, <5>1
      <4>2. new[j] = T[j - k] /\ j - k \in 1 .. Len(old) - 1
        <5>1. ~(j <= Len(P) + 1) /\ j - k = j - (Len(P) + 1) /\ j - k \in 1 .. Len(old) - 1
          BY <2>2, <2>3, <4>0, <4>1
        <5>2. new[j] = T[j - (Len(P) + 1)]
          BY <2>6, <4>0, <5>1
        <5> QED BY <5>1, <5>2
      <4>3. new[j] = old[(j - k) + 1]
        BY <2>2, <4>2
      <4>4. (j - k) + 1 = j + d
        BY <2>3, <3>1
      <4> QED BY <2>2, <3>1, <4>2, <4>3, <4>4, SMTT(30)
    <3>4. ASSUME NEW j \in DOMAIN old, old[j].op = "unblock"
          PROVE  j - d \in DOMAIN new /\ new[j - d] = old[j]
      <4>0. j \in 1 .. Len(old) /\ j # 1
        BY <2>2, <3>1, <3>4
      <4>1. j - 1 \in 1 .. Len(old) - 1 /\ (j - 1) + 1 = j
        BY <2>2, <4>0
      <4>2. T[j - 1] = old[j]
        BY <2>2, <4>1
      <4>3. j - d = (j - 1) + k /\ j - d \in 1 .. Len(P) + Len(old) /\ ~(j - d <= k)
            /\ (j - d) - k = j - 1
        BY <2>2, <2>3, <4>0, <4>1, SMTT(30)
      <4>4. new[j - d] = T[(j - d) - k]
        BY <2>6, <4>3
      <4> QED BY <3>1, <4>2, <4>3, <4>4
    <3> QED BY <2>2, <2>3, <3>1, <3>2, <3>3, <3>4
  <2> HIDE DEF k, d
  <2>8. /\ agenda' \in [Thread -> Seq(Frames)] /\ agenda'[current] = new
        /\ \A u \in Thread : u # current => agenda'[u] = agenda[u]
    <3>1. agenda' = [agenda EXCEPT ![current] = new]
      BY <1>5 DEF new, P, U, T, old, Under, Continue
    <3> QED BY <1>2, <2>6, <3>1 DEF TypeOK
  <2>9. ASSUME NEW u \in Thread PROVE Nascent(u)' <=> Nascent(u) \/ u = t
    <3>1. Frame("unblock", u).op = "unblock" /\ Frame("unblock", u).arg = u
      BY DEF Frame
    <3>2. ASSUME Nascent(u)', u # t PROVE Nascent(u)
      <4>1. PICK v \in Thread : \E j \in DOMAIN agenda'[v] : agenda'[v][j] = Frame("unblock", u)
        BY <3>2 DEF Nascent
      <4>2. PICK j \in DOMAIN agenda'[v] : agenda'[v][j] = Frame("unblock", u)
        BY <4>1
      <4>3. CASE v = current
        <5>1. j # k
          BY <2>4, <2>7, <2>8, <3>1, <3>2, <4>2, <4>3, ZenonT(30)
        <5>2. j + d \in DOMAIN old /\ old[j + d] = Frame("unblock", u)
          BY <2>7, <2>8, <3>1, <4>2, <4>3, <5>1
        <5> QED BY <1>2, <5>2 DEF Nascent, old
      <4>4. CASE v # current
        BY <2>8, <4>2, <4>4, ZenonT(30) DEF Nascent
      <4> QED BY <4>3, <4>4
    <3>3. ASSUME Nascent(u) PROVE Nascent(u)'
      <4>1. PICK v \in Thread : \E j \in DOMAIN agenda[v] : agenda[v][j] = Frame("unblock", u)
        BY <3>3 DEF Nascent
      <4>2. PICK j \in DOMAIN agenda[v] : agenda[v][j] = Frame("unblock", u)
        BY <4>1
      <4>3. CASE v = current
        <5>1. j - d \in DOMAIN new /\ new[j - d] = Frame("unblock", u)
          BY <2>7, <3>1, <4>2, <4>3 DEF old
        <5> QED BY <1>2, <2>8, <5>1 DEF Nascent
      <4>4. CASE v # current
        BY <2>8, <4>2, <4>4 DEF Nascent
      <4> QED BY <4>3, <4>4
    <3>4. u = t => Nascent(u)'
      BY <1>2, <2>7, <2>8 DEF Nascent, U
    <3> QED BY <3>2, <3>3, <3>4
  <2>10. UniqueCreator'
    <3> SUFFICES ASSUME NEW u \in Thread, NEW v \in Thread,
                        NEW a \in DOMAIN agenda'[u], NEW b \in DOMAIN agenda'[v],
                        agenda'[u][a].op = "unblock", agenda'[v][b] = agenda'[u][a]
                 PROVE  u = v /\ a = b
      BY ZenonT(30) DEF UniqueCreator
    <3> DEFINE Fresh(x, y) == x = current /\ y = k
               y0(x, y) == IF x = current THEN y + d ELSE y
    <3>1. ASSUME NEW x \in Thread, NEW y \in DOMAIN agenda'[x],
                 agenda'[x][y].op = "unblock", ~Fresh(x, y)
          PROVE  /\ y0(x, y) \in DOMAIN agenda[x] /\ agenda[x][y0(x, y)] = agenda'[x][y]
                 /\ agenda'[x][y] # U
      <4>1. y0(x, y) \in DOMAIN agenda[x] /\ agenda[x][y0(x, y)] = agenda'[x][y]
        <5>1. CASE x = current
          BY <2>7, <2>8, <3>1, <5>1, SMTT(30) DEF old
        <5>2. CASE x # current
          BY <2>8, <3>1, <5>2
        <5> QED BY <5>1, <5>2, ZenonT(30)
      <4> QED BY <2>1, <4>1, ZenonT(30) DEF Nascent, U
    <3>2. ASSUME NEW x \in Thread, NEW y, Fresh(x, y) PROVE agenda'[x][y] = U
      BY <2>7, <2>8, <3>2
    <3>3. CASE Fresh(u, a) /\ Fresh(v, b)
      BY <3>3
    <3>4. CASE Fresh(u, a) /\ ~Fresh(v, b)
      BY <3>1, <3>2, <3>4
    <3>5. CASE ~Fresh(u, a) /\ Fresh(v, b)
      BY <3>1, <3>2, <3>5, ZenonT(30)
    <3>6. CASE ~Fresh(u, a) /\ ~Fresh(v, b)
      <4>1. u = v /\ y0(u, a) = y0(v, b)
        <5>1. /\ y0(u, a) \in DOMAIN agenda[u] /\ agenda[u][y0(u, a)] = agenda'[u][a]
              /\ y0(v, b) \in DOMAIN agenda[v] /\ agenda[v][y0(v, b)] = agenda'[v][b]
          BY <3>1, <3>6
        <5> HIDE DEF y0
        <5> QED BY <5>1 DEF UniqueCreator
      <4>2. CASE u = current
        BY <2>7, <2>8, <4>1, <4>2
      <4>3. CASE u # current
        BY <4>1, <4>3
      <4> QED BY <4>1, <4>2, <4>3, SMTT(30)
    <3> QED BY <3>3, <3>4, <3>5, <3>6
  <2>11. /\ status' \in [Thread -> Status]
         /\ \A u \in Thread : status'[u] = IF u = t THEN "BLOCKED" ELSE status[u]
    BY <1>5 DEF TypeOK, Status
  <2>12. TypeOK'
    BY <1>3, <1>5, <2>8, <2>11, SMTT(30) DEF TypeOK, synch
  <2>13. RunQueueInv'
    BY <1>3, <2>1, <2>11, SMTT(30) DEF RunQueueInv
  <2>14. WaitListInv'
    BY <1>3, <2>1, <2>9, <2>11, SMTT(30) DEF WaitListInv, Waits, synch
  <2>15. NascentBlocked'
    BY <1>3, <2>1, <2>9, <2>11, SMTT(30) DEF NascentBlocked
  <2>16. IdleInv'
    <3>1. agenda'[i] = agenda[i] /\ status'[i] = status[i]
      BY <1>2, <2>1, <2>8, <2>11
    <3>2. ASSUME NEW u \in Thread \ {i}, NEW j \in DOMAIN agenda'[u]
          PROVE  agenda'[u][j].op \notin IdleOps
      <4>1. CASE u = current
        <5>1. NoIdleOps(current)
          BY <1>1, <1>2 DEF IsIdle, NoIdleOps
        <5>2. j = k \/ (new[j].op \in IdleOps => \E m \in DOMAIN old : old[m].op \in IdleOps)
          BY <2>7, <2>8, <3>2, <4>1
        <5>3. new[k].op \notin IdleOps
          BY <2>4, <2>7 DEF IdleOps
        <5> QED BY <2>8, <4>1, <5>1, <5>2, <5>3, SMTT(30) DEF NoIdleOps, old
      <4>2. CASE u # current
        BY <1>1, <2>8, <3>2, <4>2, KernelAssumption, SMTT(30) DEF IsIdle
      <4> QED BY <4>1, <4>2
    <3>3. IsIdle(i)'
      BY <1>1, <1>3, <3>1, <3>2 DEF IsIdle, idle
    <3> QED BY <3>3, ZenonT(30) DEF IdleInv
  <2> QED BY <2>10, <2>12, <2>13, <2>14, <2>15, <2>16, ZenonT(30)
<1> QED BY <1>4, <1>5, ZenonT(30) DEF create

LEMMA UnblockAction ==
  ASSUME IInv, agenda[current] # <<>>, unblock
  PROVE  IInv'
<1>1. PICK i \in Thread : IsIdle(i)
  BY DEF IInv, IdleInv
<1>2. PICK t \in Thread : /\ Top(current) = Frame("unblock", t) /\ thread_unblock(t)
                          /\ Continue(Under(current)) /\ UNCHANGED <<idle_thread, synch, tids>>
  BY DEF unblock
<1> DEFINE old == agenda[current]
           new == Tail(old)
<1>3. /\ old \in Seq(Frames) /\ Len(old) \in Nat \ {0} /\ DOMAIN old = 1 .. Len(old)
      /\ old[1] = Frame("unblock", t) /\ current \in Thread
  BY <1>2 DEF IInv, TypeOK, Top
<1>4. /\ new \in Seq(Frames) /\ DOMAIN new = 1 .. Len(old) - 1
      /\ \A j \in 1 .. Len(old) - 1 : new[j] = old[j + 1]
  BY <1>3
<1>5. /\ agenda' \in [Thread -> Seq(Frames)] /\ agenda'[current] = new
      /\ \A u \in Thread : u # current => agenda'[u] = agenda[u]
  BY <1>2, <1>3, <1>4 DEF Continue, Under, IInv, TypeOK
<1> HIDE DEF new, old
<1>6. /\ 1 \in DOMAIN old /\ DOMAIN new \subseteq Int
      /\ \A j \in DOMAIN new : j + 1 \in DOMAIN old /\ new[j] = old[j + 1] /\ j + 1 # 1
      /\ \A j \in DOMAIN old : j # 1 => j - 1 \in DOMAIN new /\ new[j - 1] = old[j]
  BY <1>3, <1>4
<1>7. ASSUME NEW u \in Thread PROVE Nascent(u)' <=> Nascent(u) /\ u # t
  <2>1. Frame("unblock", u).op = "unblock" /\ (Frame("unblock", u) = Frame("unblock", t) => u = t)
    BY DEF Frame
  <2>2. ASSUME Nascent(u)' PROVE Nascent(u) /\ u # t
    <3>1. PICK v \in Thread : \E j \in DOMAIN agenda'[v] : agenda'[v][j] = Frame("unblock", u)
      BY <2>2 DEF Nascent
    <3>2. PICK j \in DOMAIN agenda'[v] : agenda'[v][j] = Frame("unblock", u)
      BY <3>1
    <3>3. CASE v = current
      <4>1. j + 1 \in DOMAIN agenda[v] /\ agenda[v][j + 1] = Frame("unblock", u) /\ j + 1 # 1
        BY <1>5, <1>6, <3>2, <3>3, SMTT(30) DEF old
      <4>2. u # t
        BY <1>3, <1>6, <2>1, <3>3, <4>1 DEF IInv, UniqueCreator, old
      <4> QED BY <4>1, <4>2 DEF Nascent
    <3>4. CASE v # current
      <4>1. j \in DOMAIN agenda[v] /\ agenda[v][j] = Frame("unblock", u)
        BY <1>5, <3>2, <3>4, SMTT(30)
      <4>2. u # t
        BY <1>3, <1>6, <2>1, <3>4, <4>1 DEF IInv, UniqueCreator, old
      <4> QED BY <4>1, <4>2 DEF Nascent
    <3> QED BY <3>3, <3>4
  <2>3. ASSUME Nascent(u), u # t PROVE Nascent(u)'
    <3>1. PICK v \in Thread : \E j \in DOMAIN agenda[v] : agenda[v][j] = Frame("unblock", u)
      BY <2>3 DEF Nascent
    <3>2. PICK j \in DOMAIN agenda[v] : agenda[v][j] = Frame("unblock", u)
      BY <3>1, SMTT(30)
    <3>3. CASE v = current
      <4>1. j # 1
        BY <1>3, <2>1, <2>3, <3>2, <3>3, SMTT(30) DEF old
      <4>2. j - 1 \in DOMAIN new /\ new[j - 1] = Frame("unblock", u)
        BY <1>6, <3>2, <3>3, <4>1 DEF old
      <4> QED BY <1>3, <1>5, <4>2 DEF Nascent
    <3>4. CASE v # current
      BY <1>5, <3>2, <3>4, ZenonT(30) DEF Nascent
    <3> QED BY <3>3, <3>4
  <2> QED BY <2>2, <2>3
<1>8. UniqueCreator'
  <2> SUFFICES ASSUME NEW u \in Thread, NEW v \in Thread,
                      NEW a \in DOMAIN agenda'[u], NEW b \in DOMAIN agenda'[v],
                      agenda'[u][a].op = "unblock", agenda'[v][b] = agenda'[u][a]
               PROVE  u = v /\ a = b
    BY DEF UniqueCreator
  <2> DEFINE a0 == IF u = current THEN a + 1 ELSE a
             b0 == IF v = current THEN b + 1 ELSE b
  <2>1. a0 \in DOMAIN agenda[u] /\ agenda[u][a0] = agenda'[u][a] /\ (u = current => a \in Int)
    <3>1. CASE u = current
      BY <1>5, <1>6, <3>1 DEF old
    <3>2. CASE u # current
      BY <1>5, <3>2
    <3> QED BY <3>1, <3>2, SMTT(30)
  <2>2. b0 \in DOMAIN agenda[v] /\ agenda[v][b0] = agenda'[v][b] /\ (v = current => b \in Int)
    <3>1. CASE v = current
      BY <1>5, <1>6, <3>1, SMTT(30) DEF old
    <3>2. CASE v # current
      BY <1>5, <3>2, SMTT(30)
    <3> QED BY <3>1, <3>2
  <2> HIDE DEF a0, b0
  <2>3. u = v /\ a0 = b0
    BY <2>1, <2>2, SMTT(30) DEF IInv, UniqueCreator
  <2> QED BY <2>1, <2>2, <2>3, SMTT(30) DEF a0, b0
<1>9. Nascent(t) /\ status[t] = "BLOCKED" /\ t # idle_thread /\ \A s \in Sema : ~Waits(t, s)
  <2>1. Nascent(t)
    BY <1>3, <1>6, SMTT(30) DEF Nascent, old
  <2> QED BY <2>1, SMTT(30) DEF IInv, NascentBlocked, WaitListInv
<1>10. /\ status' \in [Thread -> Status] /\ ready_list' \in Seq(Thread)
       /\ current' \in Thread /\ thread_ticks' \in 0 .. TIME_SLICE - 1
       /\ RunQueueInv'
       /\ \A u \in Thread : status'[u] = IF u = t THEN "READY" ELSE status[u]
  BY <1>2, <1>9, UnblockStep DEF IInv
<1>11. TypeOK'
  BY <1>2, <1>5, <1>10, ZenonT(30) DEF IInv, TypeOK, synch, tids
<1>12. WaitListInv'
  <2>1. \A s \in Sema, u \in Thread : Waits(u, s)' <=> Waits(u, s)
    BY <1>2, SMTT(30) DEF Waits, synch
  <2>2. \A u \in Thread : (\E s \in Sema : Waits(u, s)')
              <=> status'[u] = "BLOCKED" /\ u # idle_thread /\ ~(Nascent(u)')
    BY <1>7, <1>9, <1>10, <2>1, SMTT(30) DEF IInv, WaitListInv
  <2>3. \A s \in Sema : Once(sema_waiters'[s])
    BY <1>2, SMTT(30) DEF IInv, WaitListInv, synch
  <2>4. \A s, r \in Sema : \A u \in Thread : Waits(u, s)' /\ Waits(u, r)' => s = r
    BY <2>1, SMTT(30) DEF IInv, WaitListInv
  <2> QED BY <1>2, <2>2, <2>3, <2>4, SMTT(30) DEF WaitListInv
<1>13. NascentBlocked'
  BY <1>2, <1>7, <1>10 DEF IInv, NascentBlocked
<1>14. IdleInv'
  <2>1. Top(current).op = "unblock"
    BY <1>2, SMTT(30) DEF Frame
  <2>2. current # i /\ t # i
    BY <1>1, <1>9, <2>1, NotIdle, SMTT(30) DEF IsIdle
  <2>3. ASSUME NEW j \in DOMAIN agenda'[current] PROVE agenda'[current][j].op \notin IdleOps
    <3>1. \A k \in DOMAIN old : old[k].op \notin IdleOps
      BY <1>1, <1>3, <2>2, SMTT(30) DEF IsIdle, old
    <3> QED BY <1>5, <1>6, <3>1, SMTT(30)
  <2>4. IsIdle(i)'
    BY <1>1, <1>2, <1>5, <1>10, <2>2, <2>3, ZenonT(30) DEF IsIdle, idle
  <2> QED BY <2>4, ZenonT(30) DEF IdleInv
<1> QED BY <1>8, <1>10, <1>11, <1>12, <1>13, <1>14 DEF IInv
=============================================================================
