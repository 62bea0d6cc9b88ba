--------------------------- MODULE KernelSignals ----------------------------
(***************************************************************************)
(* Conditions of threads/synch.c: no signal is lost or sent twice, in every *)
(* interleaving, from the invariants of module KernelAgendas.              *)
(***************************************************************************)
EXTENDS KernelAgendas, FiniteSetTheorems
-----------------------------------------------------------------------------
(* Signals.                                                                *)

\* A step that concerns no condition's waiter.
SignalKept ==
  /\ UNCHANGED cond_waiters
  /\ \A t \in Thread : sema_value'[t] = sema_value[t]
  /\ \A u, t \in Thread : Raises(u, t)' <=> Raises(u, t)
  /\ \A t \in Thread : Awaits(t)' <=> Awaits(t)

\* A frame that concerns no signal.
Mute(f) == f.op # "cond_enqueue" /\ \A t \in Thread : f # Frame("sema_up", t)

LEMMA SignalQuiet ==
  ASSUME SignalInv, SignalKept
  PROVE  SignalInv'
<1> SUFFICES ASSUME NEW t \in Thread PROVE OneSignal(t)'
  BY DEF SignalInv
<1>1. \A c, i : Listed(t, c, i)' <=> Listed(t, c, i)
  BY DEF SignalKept, Listed
<1>2. /\ sema_value'[t] = sema_value[t] /\ (Awaits(t)' <=> Awaits(t))
      /\ \A u \in Thread : Raises(u, t)' <=> Raises(u, t)
  BY DEF SignalKept
<1>3. OneSignal(t)
  BY DEF SignalInv
<1> HIDE DEF Listed, Raises, Awaits
<1> QED BY <1>1, <1>2, <1>3, KernelAssumption, SMTT(30) DEF OneSignal

LEMMA MuteView ==
  ASSUME current \in Thread, NEW g, Moves(g), Mute(now[current]), Mute(g), InCondWait' = InCondWait
  PROVE  /\ \A u, t \in Thread : Raises(u, t)' <=> Raises(u, t)
         /\ \A t \in Thread : Awaits(t)' <=> Awaits(t)
<1>1. \A t \in Thread : now'[t] = now[t] \/ (t = current /\ now'[t] = g)
  BY DEF Moves
<1> QED BY <1>1 DEF Raises, Awaits, Mute

(* cond_wait() has its own semaphore to itself.                            *)
LEMMA OwnSema ==
  ASSUME NEW t \in Thread, NEW u \in Thread, NEW f \in SleepFrames(u), NEW g, Fits(t, f, g)
  PROVE  u = t
<1>1. f.op \in {"sema_down", "sema_loop"} /\ f.arg = u
  BY DEF SleepFrames, Frame
<1> QED BY <1>1, Disjoint DEF Fits, Frame

(* cond_signal() takes the first waiter off the list.                      *)
LEMMA SignalSent ==
  ASSUME TypeOK, AgendaInv, SignalInv, ThreadStep, cond_signal
  PROVE  SignalInv'
<1>0. /\ current \in Thread /\ agenda[current] # <<>> /\ now[current] = Top(current)
      /\ cond_waiters \in [Condition -> Seq(Thread)]
  BY DEF TypeOK, ThreadStep, now, Top, First
<1>1. PICK c \in Condition :
        /\ Top(current) = Frame("cond_signal", c)
        /\ IF cond_waiters[c] # <<>>
           THEN /\ cond_waiters' = [cond_waiters EXCEPT ![c] = Tail(@)]
                /\ Become("sema_up", Head(cond_waiters[c]))
           ELSE Continue(Under(current)) /\ UNCHANGED cond_waiters
        /\ UNCHANGED sema_value
  BY DEF cond_signal
<1>2. Mute(now[current]) /\ now[current] \notin SleepFrames(current)
  BY <1>0, <1>1 DEF Mute, Frame, SleepFrames
<1>3. CASE cond_waiters[c] = <<>>
  <2>1. PICK g : Moves(g) /\ Transit(now[current], g) /\ Fits(current, now[current], g)
    BY <1>0, <1>1, <1>3, PopTransit, ZenonT(30)
  <2>2. Mute(g)
    BY <1>0, <2>1, FitsFrames, UnderOnly, ZenonT(30) DEF Mute
  <2>3. InCondWait' = InCondWait
    BY <1>2, <2>1, ZenonT(30) DEF Transit
  <2>4. SignalKept
    BY <1>0, <1>1, <1>2, <1>3, <2>1, <2>2, <2>3, MuteView, ZenonT(30) DEF SignalKept
  <2> QED BY <2>4, SignalQuiet
<1>4. CASE cond_waiters[c] # <<>>
  <2> DEFINE q == cond_waiters[c]
  <2>0. PICK w \in Thread : w = Head(q)
    BY <1>0, <1>4, EmptyOrNot
  <2>1. /\ q \in Seq(Thread) /\ w = q[1] /\ Len(q) \in Nat \ {0}
        /\ Tail(q) \in Seq(Thread) /\ Len(Tail(q)) = Len(q) - 1
        /\ \A i \in 1 .. Len(q) - 1 : Tail(q)[i] = q[i + 1]
        /\ DOMAIN q = 1 .. Len(q) /\ DOMAIN Tail(q) = 1 .. Len(q) - 1
    BY <1>0, <1>4, <2>0, EmptyOrNot
  <2>2. Moves(Frame("sema_up", w)) /\ InCondWait' = InCondWait
    BY <1>0, <1>1, <1>4, <2>0, SignalView, MovesView, ZenonT(30)
  <2>3. cond_waiters' = [cond_waiters EXCEPT ![c] = Tail(q)]
    BY <1>1, <1>4
  <2>4. \A t \in Thread, d \in Condition, i \in Nat :
          Listed(t, d, i)' <=> IF d = c THEN i # 0 /\ Listed(t, c, i + 1) ELSE Listed(t, d, i)
    <3> TAKE t \in Thread, d \in Condition, i \in Nat
    <3>1. CASE d = c
      <4>1. cond_waiters'[d] = Tail(q)
        BY <1>0, <2>3, <3>1
      <4>2. i \in 1 .. Len(q) - 1 <=> i # 0 /\ i + 1 \in 1 .. Len(q)
        BY <2>1
      <4> QED BY <2>1, <3>1, <4>1, <4>2, ZenonT(30) DEF Listed
    <3>2. CASE d # c
      BY <1>0, <2>3, <3>2, ZenonT(30) DEF Listed
    <3> QED BY <3>1, <3>2
  <2>5. Listed(w, c, 1)
    BY <2>1 DEF Listed
  <2>6. \A u, t \in Thread : Raises(u, t)' <=> Raises(u, t) \/ (u = current /\ t = w)
    <3>1. \A u, t \in Thread : Raises(u, t) => u # current
      BY <1>2 DEF Raises, Mute
    <3>2. \A t \in Thread : Frame("sema_up", w) = Frame("sema_up", t) => t = w
      BY DEF Frame
    <3> QED BY <2>1, <2>2, <3>1, <3>2, ZenonT(30) DEF Raises, Moves
  <2>7. \A t \in Thread : Awaits(t)' <=> Awaits(t)
    <3>1. Frame("sema_up", w).op # "cond_enqueue" /\ now[current].op # "cond_enqueue"
      BY <1>2, ZenonT(30) DEF Frame, Mute
    <3> QED BY <1>0, <2>2, <3>1, ZenonT(30) DEF Awaits, Moves
  <2> HIDE DEF Listed, Raises, Awaits, q
  <2>8. ASSUME NEW t \in Thread, t # w PROVE OneSignal(t)'
    <3>1. OneSignal(t)
      BY DEF SignalInv
    <3>2. \A u \in Thread : Raises(u, t)' <=> Raises(u, t)
      BY <2>6, <2>8
    <3>3. sema_value'[t] = sema_value[t]
      BY <1>1
    <3>4. \A d \in Condition, i \in Nat : Listed(t, d, i)' => \E j \in Nat : Listed(t, d, j)
      BY <2>4
    <3>5. \A i \in Nat : ~Listed(t, c, 0) /\ (Listed(t, c, i) => i # 1)
      BY <1>0, <2>1, <2>8, SMTT(30) DEF Listed, q
    <3>6. \A d \in Condition, i \in Nat : Listed(t, d, i) => \E j \in Nat : Listed(t, d, j)'
      <4> SUFFICES ASSUME NEW d \in Condition, NEW i \in Nat, Listed(t, d, i)
                   PROVE  \E j \in Nat : Listed(t, d, j)'
        OBVIOUS
      <4>1. CASE d = c
        <5>1. i # 0 /\ i # 1
          BY <3>5, <4>1
        <5>2. i - 1 \in Nat /\ i - 1 # 0 /\ (i - 1) + 1 = i
          BY <5>1
        <5>3. Listed(t, d, i - 1)'
          BY <2>4, <4>1, <5>2
        <5> QED BY <5>2, <5>3
      <4>2. CASE d # c
        BY <2>4, <4>2
      <4> QED BY <4>1, <4>2
    <3>7. \A d, e \in Condition : \A i, j \in Nat :
            Listed(t, d, i)' /\ Listed(t, e, j)' => d = e /\ i = j
      <4> SUFFICES ASSUME NEW d \in Condition, NEW e \in Condition, NEW i \in Nat, NEW j \in Nat,
                          Listed(t, d, i)', Listed(t, e, j)'
                   PROVE  d = e /\ i = j
        OBVIOUS
      <4>1. d = e
        BY <3>1, <3>4 DEF OneSignal
      <4>2. CASE d = c
        <5>1. Listed(t, c, i + 1) /\ Listed(t, c, j + 1)
          BY <2>4, <4>1, <4>2, ZenonT(30)
        <5>2. i + 1 = j + 1
          BY <3>1, <5>1, SMTT(30) DEF OneSignal
        <5> QED BY <4>1, <5>2
      <4>3. CASE d # c
        BY <2>4, <3>1, <4>1, <4>3, SMTT(30) DEF OneSignal
      <4> QED BY <4>2, <4>3
    <3> QED BY <2>7, <3>1, <3>2, <3>3, <3>4, <3>6, <3>7, ZenonT(30) DEF OneSignal
  <2>9. OneSignal(w)'
    <3>1. OneSignal(w)
      BY DEF SignalInv
    <3>2. \A d \in Condition, i \in Nat : ~Listed(w, d, i)'
      <4> SUFFICES ASSUME NEW d \in Condition, NEW i \in Nat, Listed(w, d, i)' PROVE FALSE
        OBVIOUS
      <4>2. CASE d = c
        <5>1. i # 0 /\ Listed(w, c, i + 1)
          BY <2>4, <4>2, ZenonT(30)
        <5>2. i + 1 = 1
          BY <2>5, <3>1, <5>1, SMTT(30) DEF OneSignal
        <5> QED BY <5>1, <5>2
      <4>3. CASE d # c
        BY <2>4, <2>5, <3>1, <4>3, ZenonT(30) DEF OneSignal
      <4> QED BY <4>2, <4>3
    <3>3. /\ \A u \in Thread : ~Raises(u, w)
          /\ sema_value[w] = 0 /\ Awaits(w)
      BY <2>5, <3>1, ZenonT(30) DEF OneSignal
    <3>5. \A u \in Thread : Raises(u, w)' <=> u = current
      BY <2>6, <3>3, ZenonT(30)
    <3>6. sema_value'[w] = 0 /\ Awaits(w)'
      BY <1>1, <2>7, <3>3, ZenonT(30)
    <3> QED BY <1>0, <3>2, <3>5, <3>6, SMTT(30) DEF OneSignal
  <2> QED BY <2>8, <2>9 DEF SignalInv
<1> QED BY <1>3, <1>4

(* cond_wait() enqueues its waiter.                                        *)
LEMMA SignalAwaited ==
  ASSUME TypeOK, AgendaInv, SignalInv, ThreadStep, cond_enqueue
  PROVE  SignalInv'
<1>0. /\ current \in Thread /\ agenda[current] # <<>> /\ now[current] = Top(current)
      /\ cond_waiters \in [Condition -> Seq(Thread)] /\ sema_value \in [Sema -> Nat]
      /\ agenda[current] \in Seq(Frames)
  BY DEF TypeOK, ThreadStep, now, Top, First
<1>1. PICK c \in Condition :
        /\ Top(current) = Frame("cond_enqueue", c)
        /\ sema_value' = [sema_value EXCEPT ![current] = 0]
        /\ cond_waiters' = [cond_waiters EXCEPT ![c] = Append(@, current)]
        /\ Continue(Under(current))
  BY ZenonT(30) DEF cond_enqueue
<1>2. now[current].op = "cond_enqueue" /\ now[current] \notin SleepFrames(current)
  BY <1>0, <1>1 DEF Frame, SleepFrames
<1>3. PICK g : Moves(g) /\ Transit(now[current], g) /\ Fits(current, now[current], g)
  BY <1>0, <1>1, PopTransit
<1>4. InCondWait' = InCondWait /\ g.op # "cond_enqueue" /\ \A u \in Thread : g # Frame("sema_up", u)
  BY <1>0, <1>2, <1>3, UnderOnly DEF Transit
<1>5. current \in InCondWait
  <2>1. First(agenda[current]).op = "cond_enqueue" /\ WellFormed(current, agenda[current])
    BY <1>0, <1>2, ZenonT(30) DEF now, AgendaInv
  <2>2. \E i \in 1 .. Len(agenda[current]) : agenda[current][i] = Frame("sema_down", current)
    BY <2>1 DEF WellFormed
  <2> QED BY <1>0, <2>2, SMTT(30) DEF InCondWait, CondWaiting
<1>6. \A t \in Thread : Awaits(t)' <=> Awaits(t) \/ t = current
  BY <1>0, <1>2, <1>3, <1>4, <1>5, ZenonT(30) DEF Awaits, Moves
<1>7. \A u, t \in Thread : Raises(u, t)' <=> Raises(u, t)
  <2>1. \A t \in Thread : now[current] # Frame("sema_up", t)
    BY <1>2 DEF Frame
  <2> QED BY <1>0, <1>3, <1>4, <2>1, ZenonT(30) DEF Raises, Moves
<1> DEFINE q == cond_waiters[c]
<1>8. \A t \in Thread, d \in Condition, i \in Nat :
        Listed(t, d, i)' <=> Listed(t, d, i) \/ (t = current /\ d = c /\ i = Len(q) + 1)
  <2>1. /\ q \in Seq(Thread) /\ Len(q) \in Nat /\ DOMAIN q = 1 .. Len(q)
        /\ DOMAIN Append(q, current) = 1 .. Len(q) + 1
        /\ \A i \in 1 .. Len(q) : Append(q, current)[i] = q[i]
        /\ Append(q, current)[Len(q) + 1] = current
    BY <1>0
  <2> TAKE t \in Thread, d \in Condition, i \in Nat
  <2>2. CASE d = c
    <3>1. cond_waiters'[d] = Append(q, current)
      BY <1>0, <1>1, <2>2, ZenonT(30)
    <3>2. i \in 1 .. Len(q) + 1 <=> i \in 1 .. Len(q) \/ i = Len(q) + 1
      BY <2>1
    <3>3. Len(q) + 1 \notin 1 .. Len(q)
      BY <2>1, SMTT(30)
    <3> QED BY <2>1, <2>2, <3>1, <3>2, <3>3, ZenonT(30) DEF Listed
  <2>3. CASE d # c
    BY <1>0, <1>1, <2>3, ZenonT(30) DEF Listed
  <2> QED BY <2>2, <2>3, ZenonT(30)
<1>9. Len(q) + 1 \in Nat
  BY <1>0, SMTT(30)
<1>10. /\ \A t \in Thread : t # current => sema_value'[t] = sema_value[t]
       /\ sema_value'[current] = 0
  BY <1>0, <1>1, ZenonT(30) DEF Sema
<1> HIDE DEF Listed, Raises, Awaits, q
<1>11. PICK me \in Thread : me = current
  BY <1>0, ZenonT(30)
<1>12. ASSUME NEW t \in Thread, t # me PROVE OneSignal(t)'
  <2>1. OneSignal(t)
    BY DEF SignalInv
  <2>2. sema_value'[t] = sema_value[t] /\ (Awaits(t)' <=> Awaits(t))
    BY <1>6, <1>10, <1>11, <1>12, ZenonT(30)
  <2>3. \A d \in Condition, i \in Nat : Listed(t, d, i)' <=> Listed(t, d, i)
    BY <1>8, <1>11, <1>12, ZenonT(30)
  <2> QED BY <1>7, <2>1, <2>2, <2>3, ZenonT(30) DEF OneSignal
<1>13. OneSignal(me)'
  <2>1. OneSignal(me) /\ ~Awaits(me)
    BY <1>2, <1>11, ZenonT(30) DEF SignalInv, Awaits
  <2>2. /\ \A d \in Condition, i \in Nat : ~Listed(me, d, i)
        /\ \A u \in Thread : ~Raises(u, me)
    BY <2>1 DEF OneSignal
  <2>3. sema_value'[me] = 0 /\ Awaits(me)' /\ \A u \in Thread : ~Raises(u, me)'
    BY <1>6, <1>7, <1>10, <1>11, <2>2, ZenonT(30)
  <2>4. \A d \in Condition, i \in Nat : Listed(me, d, i)' <=> d = c /\ i = Len(q) + 1
    BY <1>8, <1>11, <2>2
  <2> QED BY <1>9, <2>3, <2>4, SMTT(30) DEF OneSignal
<1> QED BY <1>12, <1>13 DEF SignalInv

(* The signaller ups the waiter's semaphore.                               *)
LEMMA SignalRaised ==
  ASSUME TypeOK, AgendaInv, SignalInv, ThreadStep, sema_up
  PROVE  SignalInv'
<1>0. /\ current \in Thread /\ agenda[current] # <<>> /\ now[current] = Top(current)
      /\ sema_value \in [Sema -> Nat]
  BY DEF TypeOK, ThreadStep, now, Top, First
<1>1. PICK s \in Sema :
        /\ Top(current) = Frame("sema_up", s)
        /\ sema_value' = [sema_value EXCEPT ![s] = @ + 1]
        /\ Continue(Under(current))
        /\ UNCHANGED cond_waiters
  BY ZenonT(30) DEF sema_up, SemaUp
<1>2. /\ now[current].op = "sema_up" /\ now[current] \notin SleepFrames(current)
      /\ \A t \in Thread : now[current] = Frame("sema_up", t) <=> t = s
  BY <1>0, <1>1 DEF Frame, SleepFrames
<1>3. PICK g : Moves(g) /\ Transit(now[current], g) /\ Fits(current, now[current], g)
  BY <1>0, <1>1, PopTransit
<1>4. InCondWait' = InCondWait /\ g.op # "cond_enqueue" /\ \A u \in Thread : g # Frame("sema_up", u)
  BY <1>0, <1>2, <1>3, UnderOnly DEF Transit
<1>5. \A t \in Thread : Awaits(t)' <=> Awaits(t)
  BY <1>0, <1>2, <1>3, <1>4, ZenonT(30) DEF Awaits, Moves
<1>6. \A u, t \in Thread : Raises(u, t)' <=> Raises(u, t) /\ u # current
  BY <1>3, <1>4, ZenonT(30) DEF Raises, Moves
<1>7. \A t \in Thread : Raises(current, t) <=> t = s
  BY <1>2 DEF Raises
<1>8. \A t \in Thread : sema_value'[t] = IF t = s THEN sema_value[t] + 1 ELSE sema_value[t]
  BY <1>0, <1>1 DEF Sema
<1>9. \A t, c, i : Listed(t, c, i)' <=> Listed(t, c, i)
  BY <1>1, ZenonT(30) DEF Listed
<1> HIDE DEF Listed, Raises, Awaits
<1>10. ASSUME NEW t \in Thread, t # s PROVE OneSignal(t)'
  <2>1. OneSignal(t)
    BY DEF SignalInv
  <2>2. sema_value'[t] = sema_value[t] /\ (Awaits(t)' <=> Awaits(t))
    BY <1>5, <1>8, <1>10, ZenonT(30)
  <2>3. \A u \in Thread : Raises(u, t)' <=> Raises(u, t)
    BY <1>0, <1>6, <1>7, <1>10, ZenonT(30)
  <2> QED BY <1>9, <2>1, <2>2, <2>3, ZenonT(30) DEF OneSignal
<1>11. ASSUME s \in Thread PROVE OneSignal(s)'
  <2>1. OneSignal(s) /\ Raises(current, s)
    BY <1>7, <1>11, ZenonT(30) DEF SignalInv
  <2>2. /\ \A d \in Condition, i \in Nat : ~Listed(s, d, i)
        /\ \A u \in Thread : Raises(u, s) => u = current
        /\ sema_value[s] = 0 /\ Awaits(s)
    BY <1>0, <2>1, ZenonT(30) DEF OneSignal
  <2>3. /\ sema_value'[s] = 1 /\ Awaits(s)' /\ \A u \in Thread : ~Raises(u, s)'
        /\ \A d \in Condition, i \in Nat : ~Listed(s, d, i)'
    BY <1>5, <1>6, <1>8, <1>9, <1>11, <2>2, KernelAssumption, SMTT(30)
  <2> QED BY <2>3 DEF OneSignal
<1> QED BY <1>10, <1>11 DEF SignalInv

(* cond_wait()'s sema_down() returns.                                      *)
LEMMA SignalTaken ==
  ASSUME TypeOK, AgendaInv, SignalInv, ThreadStep, sema_down
  PROVE  SignalInv'
<1>0. /\ current \in Thread /\ agenda[current] # <<>> /\ now[current] = Top(current)
      /\ sema_value \in [Sema -> Nat]
  BY DEF TypeOK, ThreadStep, now, Top, First
<1>1. PICK s \in Sema : /\ Top(current) \in {Frame("sema_down", s), Frame("sema_loop", s)}
                        /\ SemaDown(s) /\ UNCHANGED cond_waiters
  BY DEF sema_down
<1>2. /\ Mute(now[current]) /\ now[current].op # "cond_enqueue"
      /\ now[current] \in SleepFrames(current) <=> s = current
  BY <1>0, <1>1 DEF Mute, Frame, SleepFrames
<1>3. CASE sema_value[s] = 0
  <2>1. Become("sema_loop", s) /\ UNCHANGED sema_value
    BY <1>1, <1>3, ZenonT(30) DEF SemaDown
  <2>2. Moves(Frame("sema_loop", s)) /\ InCondWait' = InCondWait
    BY <1>0, <1>1, <2>1, SleepView, MovesView, ZenonT(30)
  <2>3. Mute(Frame("sema_loop", s))
    BY ZenonT(30) DEF Mute, Frame
  <2>4. SignalKept
    BY <1>0, <1>1, <1>2, <2>1, <2>2, <2>3, MuteView, ZenonT(30) DEF SignalKept
  <2> QED BY <2>4, SignalQuiet
<1>4. CASE sema_value[s] # 0
  <2>1. Continue(Under(current)) /\ sema_value' = [sema_value EXCEPT ![s] = @ - 1]
    BY <1>1, <1>4, ZenonT(30) DEF SemaDown
  <2>2. PICK g : Moves(g) /\ Transit(now[current], g) /\ Fits(current, now[current], g)
    BY <1>0, <2>1, PopTransit, ZenonT(30)
  <2>3. Mute(g) /\ g.op # "sema_loop"
    BY <1>0, <2>2, FitsFrames, UnderOnly, ZenonT(30) DEF Mute
  <2>4. CASE s # current
    <3>1. InCondWait' = InCondWait
      BY <1>2, <2>2, <2>4, ZenonT(30) DEF Transit
    <3>2. s \notin Thread
      <4>1. s \in Thread => now[current] \in SleepFrames(s)
        BY <1>0, <1>1, ZenonT(30) DEF SleepFrames
      <4> QED BY <1>0, <2>2, <2>4, <4>1, OwnSema, ZenonT(30)
    <3>3. \A t \in Thread : sema_value'[t] = sema_value[t]
      BY <1>0, <2>1, <3>2, ZenonT(30) DEF Sema
    <3>4. SignalKept
      BY <1>0, <1>1, <1>2, <2>2, <2>3, <3>1, <3>3, MuteView, ZenonT(30) DEF SignalKept
    <3> QED BY <3>4, SignalQuiet
  <2>5. CASE s = current
    <3>1. InCondWait' = InCondWait \ {current}
      BY <1>2, <2>2, <2>3, <2>5, ZenonT(30) DEF Transit
    <3>2. \A t \in Thread : Awaits(t)' <=> Awaits(t) /\ t # current
      BY <1>0, <1>2, <2>2, <2>3, <3>1, ZenonT(30) DEF Awaits, Moves, Mute
    <3>3. \A u, t \in Thread : Raises(u, t)' <=> Raises(u, t)
      BY <1>0, <1>2, <2>2, <2>3, ZenonT(30) DEF Raises, Moves, Mute
    <3>4. \A t, c, i : Listed(t, c, i)' <=> Listed(t, c, i)
      BY <1>1 DEF Listed
    <3>5. \A t \in Thread : sema_value'[t] = IF t = s THEN sema_value[t] - 1 ELSE sema_value[t]
      BY <1>0, <2>1, ZenonT(30) DEF Sema
    <3> HIDE DEF Listed, Raises, Awaits
    <3>6. ASSUME NEW t \in Thread, t # s PROVE OneSignal(t)'
      <4>1. OneSignal(t)
        BY DEF SignalInv
      <4>2. sema_value'[t] = sema_value[t] /\ (Awaits(t)' <=> Awaits(t))
        BY <2>5, <3>2, <3>5, <3>6, ZenonT(30)
      <4> QED BY <3>3, <3>4, <4>1, <4>2, ZenonT(30) DEF OneSignal
    <3>7. OneSignal(s)'
      <4>1. OneSignal(s) /\ s \in Thread
        BY <1>0, <2>5, ZenonT(30) DEF SignalInv
      <4>2. /\ sema_value[s] = 1 /\ \A d \in Condition, i \in Nat : ~Listed(s, d, i)
            /\ \A u \in Thread : ~Raises(u, s)
        BY <1>4, <4>1, ZenonT(30) DEF OneSignal
      <4>3. /\ sema_value'[s] = 0 /\ ~Awaits(s)' /\ \A u \in Thread : ~Raises(u, s)'
            /\ \A d \in Condition, i \in Nat : ~Listed(s, d, i)'
        BY <2>5, <3>2, <3>3, <3>4, <3>5, <4>1, <4>2, SMTT(30)
      <4> QED BY <4>3 DEF OneSignal
    <3> QED BY <3>6, <3>7, ZenonT(30) DEF SignalInv
  <2> QED BY <2>4, <2>5, ZenonT(30)
<1> QED BY <1>3, <1>4

LEMMA SignalOther ==
  ASSUME TypeOK, AgendaInv, SignalInv, ThreadStep,
         ~(sema_down \/ sema_up \/ cond_enqueue \/ cond_signal)
  PROVE  SignalInv'
<1>0. current \in Thread /\ sema_value \in [Sema -> Nat]
  BY ZenonT(30) DEF TypeOK
<1>1. PICK g : Moves(g) /\ Transit(now[current], g)
  BY StepTransit
<1>2. now[current] = Top(current)
  BY StepTransit, ZenonT(30)
<1>3. Top(current).op \notin {"sema_down", "sema_loop", "sema_up", "cond_enqueue", "cond_signal"}
  <2>1. CASE sema_try_down \/ set_holder \/ clear_holder
    <3>1. \E s : Top(current) \in {Frame("sema_try_down", s), Frame("set_holder", s),
                                   Frame("clear_holder", s)}
      BY <2>1 DEF sema_try_down, set_holder, clear_holder, SetHolder
    <3> QED BY <3>1 DEF Frame
  <2>2. CASE cond_broadcast
    <3>1. \E c : Top(current) = Frame("cond_broadcast", c)
      BY <2>2 DEF cond_broadcast
    <3> QED BY <3>1 DEF Frame
  <2>3. CASE create \/ set_idle \/ idle_loop \/ timer_sleep
    BY <2>3 DEF create, set_idle, idle_loop, timer_sleep, Frame
  <2>4. CASE read_tid \/ write_tid \/ unblock
    <3>1. \E t : Top(current) \in {Frame("read_tid", t), Frame("write_tid", t), Frame("unblock", t)}
      BY <2>4 DEF read_tid, write_tid, unblock
    <3> QED BY <3>1 DEF Frame
  <2> QED BY <2>1, <2>2, <2>3, <2>4, ZenonT(30) DEF ThreadStep, SynchStep
<1>4. Mute(now[current]) /\ now[current] \notin SleepFrames(current)
  BY <1>2, <1>3 DEF Mute, SleepFrames, Frame
<1>5. Mute(g) /\ InCondWait' = InCondWait
  BY <1>1, <1>2, <1>3, <1>4, ZenonT(30) DEF Mute, Transit
<1>6. UNCHANGED cond_waiters /\ \A t \in Thread : sema_value'[t] = sema_value[t]
  <2>1. CASE sema_try_down
    <3>1. PICK s \in Lock \cup Semaphore :
            sema_value' \in {sema_value, [sema_value EXCEPT ![s] = @ - 1]} /\ UNCHANGED cond_waiters
      BY <2>1 DEF sema_try_down
    <3>2. s \notin Thread
      BY <3>1, Disjoint, ZenonT(30)
    <3> QED BY <1>0, <3>1, <3>2 DEF Sema
  <2>2. CASE set_holder \/ clear_holder \/ cond_broadcast
    BY <2>2, ZenonT(30) DEF set_holder, clear_holder, SetHolder, cond_broadcast, synch
  <2>3. CASE create \/ read_tid \/ write_tid \/ unblock \/ set_idle \/ idle_loop \/ timer_sleep
    BY <2>3 DEF create, read_tid, write_tid, unblock, set_idle, idle_loop, timer_sleep, synch
  <2> QED BY <2>1, <2>2, <2>3 DEF ThreadStep, SynchStep
<1>7. SignalKept
  BY <1>0, <1>1, <1>4, <1>5, <1>6, MuteView DEF SignalKept
<1> QED BY <1>7, SignalQuiet, ZenonT(30)

LEMMA SignalCalls ==
  ASSUME TypeOK, AgendaInv, SignalInv, Call
  PROVE  SignalInv'
<1>0. current \in Thread /\ agenda[current] = <<>>
  BY ZenonT(30) DEF TypeOK, Call
<1>1. PICK f : /\ CallFrame(f) /\ Moves(f)
               /\ InCondWait' = IF f.op = "cond_enqueue" THEN InCondWait \cup {current} ELSE InCondWait
  BY <1>0, CallView, MovesView, ZenonT(30)
<1>2. now[current] = End /\ current \notin InCondWait
  BY <1>0, CallView, SMTT(30) DEF InCondWait, CondWaiting
<1>3. \A t \in Thread : f # Frame("sema_up", t) /\ End # Frame("sema_up", t)
  <2>1. \A t \in Thread : f = Frame("sema_up", t) => f.op = "sema_up" /\ f.arg = t
    BY DEF Frame
  <2>2. f.op = "sema_up" => f.arg \in Semaphore
    BY <1>1, SMTT(30) DEF CallFrame, Frame
  <2> QED BY <2>1, <2>2, Disjoint, ZenonT(30) DEF End, Frame
<1>4. \A u, t \in Thread : Raises(u, t)' <=> Raises(u, t)
  BY <1>0, <1>1, <1>2, <1>3, ZenonT(30) DEF Raises, Moves
<1>5. \A t \in Thread : Awaits(t)' <=> Awaits(t)
  BY <1>0, <1>1, <1>2, ZenonT(30) DEF Awaits, Moves
<1>6. UNCHANGED <<cond_waiters, sema_value>>
  BY DEF Call, synch
<1>7. SignalKept
  BY <1>4, <1>5, <1>6 DEF SignalKept
<1> QED BY <1>7, SignalQuiet, ZenonT(30)

LEMMA SignalInterrupts ==
  ASSUME TypeOK, AgendaInv, SignalInv, TimerInterrupt \/ DeviceInterrupt
  PROVE  SignalInv'
<1>0. sema_value \in [Sema -> Nat]
  BY DEF TypeOK
<1>1. /\ \A t \in Thread : now'[t] = now[t] \/ {now'[t].op, now[t].op} \subseteq Polls
      /\ InCondWait' = InCondWait
  BY InterruptView, ZenonT(30)
<1>2. \A t \in Thread : \/ now'[t] = now[t]
                        \/ Mute(now[t]) /\ Mute(now'[t])
  BY <1>1 DEF Mute, Polls, Frame
<1>3. \A u, t \in Thread : Raises(u, t)' <=> Raises(u, t)
  BY <1>2, ZenonT(30) DEF Raises, Mute
<1>4. \A t \in Thread : Awaits(t)' <=> Awaits(t)
  BY <1>1, <1>2 DEF Awaits, Mute
<1>5. UNCHANGED cond_waiters /\ \A t \in Thread : sema_value'[t] = sema_value[t]
  <2>1. CASE TimerInterrupt
    BY <2>1 DEF TimerInterrupt, synch
  <2>2. CASE DeviceInterrupt
    <3>1. PICK s \in DeviceSema : sema_value' = [sema_value EXCEPT ![s] = @ + 1]
      BY <2>2, ZenonT(30) DEF DeviceInterrupt, SemaUp
    <3>2. s \notin Thread
      BY <3>1, Disjoint, KernelAssumption
    <3> QED BY <1>0, <2>2, <3>1, <3>2, ZenonT(30) DEF Sema, DeviceInterrupt
  <2> QED BY <2>1, <2>2, ZenonT(30)
<1>6. SignalKept
  BY <1>3, <1>4, <1>5 DEF SignalKept
<1> QED BY <1>6, SignalQuiet, ZenonT(30)

LEMMA SignalStep ==
  ASSUME TypeOK, AgendaInv, SignalInv, [Next]_vars
  PROVE  SignalInv'
<1>1. CASE ThreadStep
  BY <1>1, SignalTaken, SignalRaised, SignalAwaited, SignalSent, SignalOther, ZenonT(30)
<1>2. CASE Call
  BY <1>2, SignalCalls
<1>3. CASE TimerInterrupt \/ DeviceInterrupt
  BY <1>3, SignalInterrupts
<1>4. CASE Yield \/ Exit \/ UNCHANGED vars
  <2>1. UNCHANGED <<agenda, cond_waiters, sema_value>>
    BY <1>4 DEF Yield, Exit, vars, synch
  <2>2. now' = now /\ InCondWait' = InCondWait
    BY <2>1, StillView, ZenonT(30)
  <2>3. SignalKept
    BY <2>1, <2>2, ZenonT(30) DEF SignalKept, Raises, Awaits
  <2> QED BY <2>3, SignalQuiet, ZenonT(30)
<1> QED BY <1>1, <1>2, <1>3, <1>4, ZenonT(30) DEF Next

LEMMA SignalInit ==
  ASSUME Init
  PROVE  SignalInv
<1>1. PICK i \in Thread \ {Main} :
        /\ cond_waiters = [c \in Condition |-> <<>>]
        /\ sema_value = [s \in Sema |-> IF s \in Lock THEN 1 ELSE 0]
        /\ agenda = [t \in Thread |-> CASE t = Main -> <<Frame("sema_down", IdleStarted)>>
                                        [] t = i -> idle [] OTHER -> <<>>]
  BY DEF Init
<1>2. \A t \in Thread : sema_value[t] = 0
  BY <1>1, Disjoint DEF Sema
<1>3. \A t \in Thread, c \in Condition, j \in Nat : ~Listed(t, c, j)
  BY <1>1 DEF Listed
<1>4. \A t \in Thread : agenda[t] \in {<<>>, <<Frame("sema_down", IdleStarted)>>, idle}
  BY <1>1
<1>5. \A t \in Thread : now[t].op \in {"end", "sema_down", "set_idle"}
  BY <1>4 DEF now, First, End, Frame, idle
<1>6. \A u, t \in Thread : ~Raises(u, t)
  BY <1>5 DEF Raises, Frame
<1>7. \A t \in Thread : ~CondWaiting(t)
  <2>1. \A t \in Thread : t # IdleStarted
    BY Disjoint, KernelAssumption, ZenonT(30)
  <2>2. ASSUME NEW t \in Thread, NEW j \in DOMAIN agenda[t]
        PROVE  agenda[t][j].op \notin {"sema_down", "sema_loop"} \/ agenda[t][j].arg = IdleStarted
    BY <1>4 DEF Frame, idle
  <2> QED BY <2>1, <2>2 DEF CondWaiting, Frame
<1> QED BY <1>2, <1>3, <1>6, <1>7, SMTT(30) DEF SignalInv, OneSignal, Awaits, InCondWait
-----------------------------------------------------------------------------
(* The tokens, counted.                                                    *)

LEMMA RaisesView ==
  ASSUME TypeOK, NEW t \in Thread, NEW u \in Thread
  PROVE  Raises(u, t) <=> InKernel(u, "sema_up") /\ Top(u).arg = t
<1>1. agenda[u] \in Seq(Frames) /\ now[u] = First(agenda[u])
  BY ZenonT(30) DEF TypeOK, now
<1>2. CASE agenda[u] = <<>>
  BY <1>1, <1>2, SMTT(30) DEF First, End, Frame, Raises, InKernel
<1>3. CASE agenda[u] # <<>>
  <2>1. Top(u) \in Frames /\ now[u] = Top(u)
    BY <1>1, <1>3, EmptyOrNot, SMTT(30) DEF First, Top
  <2>2. \A f \in Frames : f = Frame(f.op, f.arg)
    BY DEF Frames, Frame
  <2>3. Frame("sema_up", t).op = "sema_up" /\ Frame("sema_up", t).arg = t
    BY ZenonT(30) DEF Frame
  <2> QED BY <1>3, <2>1, <2>2, <2>3, ZenonT(30) DEF Raises, InKernel
<1> QED BY <1>2, <1>3, ZenonT(30)

LEMMA CountSignals ==
  ASSUME TypeOK, SignalInv
  PROVE  SignalNotLost
<1> SUFFICES ASSUME NEW t \in Thread
             PROVE  LET listed    == UNION {{<<c, i>> : i \in {j \in DOMAIN cond_waiters[c] : cond_waiters[c][j] = t}} :
                                             c \in Condition}
                        signalled == {u \in Thread : InKernel(u, "sema_up") /\ Top(u).arg = t}
                        sent      == Cardinality(listed) + Cardinality(signalled) + sema_value[t]
                    IN  IF CondWaiting(t) /\ ~InKernel(t, "cond_enqueue") THEN sent = 1 ELSE sent = 0
  BY DEF SignalNotLost
<1> DEFINE listed    == UNION {{<<c, i>> : i \in {j \in DOMAIN cond_waiters[c] : cond_waiters[c][j] = t}} :
                                c \in Condition}
           signalled == {u \in Thread : InKernel(u, "sema_up") /\ Top(u).arg = t}
<1>1. OneSignal(t)
  BY DEF SignalInv
<1>2. \A c \in Condition : cond_waiters[c] \in Seq(Thread) /\ DOMAIN cond_waiters[c] \subseteq Nat
  BY SMTT(30) DEF TypeOK
<1>3. \A p : p \in listed <=> \E c \in Condition, i \in Nat : p = <<c, i>> /\ Listed(t, c, i)
  BY <1>2 DEF Listed
<1>4. signalled = {u \in Thread : Raises(u, t)}
  BY RaisesView
<1>5. CondWaiting(t) /\ ~InKernel(t, "cond_enqueue") <=> Awaits(t)
  <2>1. t \in InCondWait <=> CondWaiting(t)
    BY DEF InCondWait
  <2>2. CondWaiting(t) => agenda[t] # <<>>
    BY DEF CondWaiting
  <2>3. agenda[t] # <<>> => now[t] = Top(t)
    BY ZenonT(30) DEF now, First, Top
  <2> QED BY <2>1, <2>2, <2>3 DEF Awaits, InKernel
<1> HIDE DEF listed, signalled, Listed, Raises, Awaits
<1>6. CASE \E c \in Condition, i \in Nat : Listed(t, c, i)
  <2>1. PICK c \in Condition, i \in Nat : Listed(t, c, i)
    BY <1>6
  <2>2. listed = {<<c, i>>}
    <3>1. \A d \in Condition, j \in Nat : Listed(t, d, j) => d = c /\ j = i
      BY <1>1, <2>1, ZenonT(30) DEF OneSignal
    <3>2. \A p : p \in listed <=> p = <<c, i>>
      BY <1>3, <2>1, <3>1, SMTT(30)
    <3> QED BY <3>2, ZenonT(30)
  <2>3. signalled = {} /\ sema_value[t] = 0 /\ Awaits(t)
    BY <1>1, <1>4, <2>1, ZenonT(30) DEF OneSignal
  <2>4. Cardinality(listed) = 1 /\ Cardinality(signalled) = 0
    BY <2>2, <2>3, FS_EmptySet, FS_Singleton, ZenonT(30)
  <2> QED BY <1>5, <2>3, <2>4, KernelAssumption, SMTT(30) DEF listed, signalled
<1>7. CASE \A c \in Condition, i \in Nat : ~Listed(t, c, i)
  <2>1. listed = {}
    BY <1>3, <1>7, ZenonT(30)
  <2>2. CASE \E u \in Thread : Raises(u, t)
    <3>1. PICK u \in Thread : Raises(u, t)
      BY <2>2, ZenonT(30)
    <3>2. signalled = {u} /\ sema_value[t] = 0 /\ Awaits(t)
      BY <1>1, <1>4, <3>1, ZenonT(30) DEF OneSignal
    <3>3. Cardinality(listed) = 0 /\ Cardinality(signalled) = 1
      BY <2>1, <3>2, FS_EmptySet, FS_Singleton, ZenonT(30)
    <3> QED BY <1>5, <3>2, <3>3, KernelAssumption, SMTT(30) DEF listed, signalled
  <2>3. CASE \A u \in Thread : ~Raises(u, t)
    <3>1. signalled = {}
      BY <1>4, <2>3
    <3>2. Cardinality(listed) = 0 /\ Cardinality(signalled) = 0
      BY <2>1, <3>1, FS_EmptySet, ZenonT(30)
    <3>3. IF Awaits(t) THEN sema_value[t] = 1 ELSE sema_value[t] = 0
      BY <1>1, <1>7, <2>3, ZenonT(30) DEF OneSignal
    <3> QED BY <1>5, <3>2, <3>3, KernelAssumption, SMTT(30) DEF listed, signalled
  <2> QED BY <2>2, <2>3
<1> QED BY <1>6, <1>7, ZenonT(30)
=============================================================================
