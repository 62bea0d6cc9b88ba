------------------------------- MODULE Console -------------------------------
(***************************************************************************)
(* lib/kernel/console.c, debug_panic() of lib/kernel/debug.c and           *)
(* devices/shutdown.c: threads print messages of several characters, may   *)
(* print again while they print, and may panic at any point, also while    *)
(* the panic message is printed.                                           *)
(***************************************************************************)
EXTENDS Integers, Sequences

CONSTANTS
  Thread, NoThread,
  MaxLen,    \* longest message
  MaxNest,   \* deepest print within a print
  How        \* enum shutdown_type as configured: "none", "power_off" or "reboot"

VARIABLES
  use_console_lock, console_lock_depth,
  holder,      \* console_lock.holder
  call,        \* call[t]: prints thread t is in, the innermost last
  panic        \* the panic under way: who, static int level, what is left to print

vars == <<use_console_lock, console_lock_depth, holder, call, panic>>

Init ==
  /\ use_console_lock = FALSE /\ console_lock_depth = 0 /\ holder = NoThread
  /\ call = [t \in Thread |-> <<>>]
  /\ panic = [by |-> NoThread, level |-> 0, left |-> 0, at |-> "no"]

Running == panic.at = "no"   \* interrupts are off for good after a panic
inner(t) == call[t][Len(call[t])]
At(t, at) == Running /\ call[t] # <<>> /\ inner(t).at = at
Go(t, at) == call' = [call EXCEPT ![t][Len(call[t])].at = at]

console_init ==
  /\ ~use_console_lock /\ Running /\ \A t \in Thread : call[t] = <<>>
  /\ use_console_lock' = TRUE
  /\ UNCHANGED <<console_lock_depth, holder, call, panic>>

(* A thread starts to print: printf(), puts(), putbuf() or putchar(), also *)
(* while the drivers write a character of its.  During boot only one does. *)
StartPrint(t, len) ==
  /\ Running /\ Len(call[t]) < MaxNest /\ (call[t] # <<>> => At(t, "put") /\ inner(t).inside)
  /\ use_console_lock \/ \A u \in Thread \ {t} : call[u] = <<>>
  /\ call' = [call EXCEPT ![t] = Append([k \in 1 .. Len(@) |-> [@[k] EXCEPT !.inside = FALSE]],
                  [at |-> "acquire", left |-> len, len |-> len, cut |-> FALSE, inside |-> FALSE])]
  /\ UNCHANGED <<use_console_lock, console_lock_depth, holder, panic>>

acquire_console(t) ==
  /\ At(t, "acquire") /\ Go(t, "put")
  /\ IF ~use_console_lock THEN UNCHANGED <<console_lock_depth, holder>>
     ELSE IF holder = t THEN console_lock_depth' = console_lock_depth + 1 /\ UNCHANGED holder
     ELSE holder = NoThread /\ holder' = t /\ UNCHANGED console_lock_depth
  /\ UNCHANGED <<use_console_lock, panic>>

\* A character of t falls into the messages other threads have begun and not finished.
Cut(c) == [k \in 1 .. Len(c) |-> [c[k] EXCEPT !.cut = @ \/ c[k].left \in 1 .. c[k].len - 1]]

putchar_have_lock(t) ==
  /\ At(t, "put") /\ inner(t).left > 0
  /\ call' = [u \in Thread |-> IF u # t THEN Cut(call[u])
                               ELSE [call[t] EXCEPT ![Len(call[t])].left = @ - 1, ![Len(call[t])].inside = TRUE]]
  /\ UNCHANGED <<use_console_lock, console_lock_depth, holder, panic>>

\* Faulty: the lock is released whatever its depth.
ReleaseAnyDepth(t) ==
  /\ At(t, "put") /\ inner(t).left = 0
  /\ call' = [call EXCEPT ![t] = SubSeq(@, 1, Len(@) - 1)]
  /\ IF use_console_lock THEN holder' = NoThread ELSE UNCHANGED holder
  /\ console_lock_depth' = IF console_lock_depth > 0 THEN console_lock_depth - 1 ELSE 0
  /\ UNCHANGED <<use_console_lock, panic>>

release_console(t) ==
  /\ At(t, "put") /\ inner(t).left = 0
  /\ call' = [call EXCEPT ![t] = SubSeq(@, 1, Len(@) - 1)]
  /\ IF ~use_console_lock THEN UNCHANGED <<console_lock_depth, holder>>
     ELSE IF console_lock_depth > 0 THEN console_lock_depth' = console_lock_depth - 1 /\ UNCHANGED holder
     ELSE holder' = NoThread /\ UNCHANGED console_lock_depth
  /\ UNCHANGED <<use_console_lock, panic>>
-----------------------------------------------------------------------------
\* What debug_panic() prints at each level.
Message(level) == CASE level = 1 -> MaxLen [] level = 2 -> 1 [] OTHER -> 0

(* debug_panic(): a thread panics, and the one that panicked may panic     *)
(* again while it prints.                                                  *)
debug_panic(t) ==
  /\ \/ Running
     \/ panic.by = t /\ panic.at = "print" /\ panic.left > 0
  /\ panic' = [by |-> t, level |-> panic.level + 1, left |-> Message(panic.level + 1), at |-> "print"]
  /\ use_console_lock' = FALSE
  /\ UNCHANGED <<console_lock_depth, holder, call>>

\* Its printf(): acquire_console() and release_console() with no lock in use.
PanicPrint ==
  /\ panic.at = "print" /\ panic.left > 0
  /\ ~use_console_lock \/ holder = panic.by
  /\ panic' = [panic EXCEPT !.left = @ - 1]
  /\ UNCHANGED <<use_console_lock, console_lock_depth, holder, call>>

\* serial_flush(), shutdown() as configured, and the endless loop.
shutdown ==
  /\ panic.at = "print" /\ panic.left = 0
  /\ panic' = [panic EXCEPT !.at = CASE How = "power_off" -> "off" [] How = "reboot" -> "rebooting" [] OTHER -> "halted"]
  /\ UNCHANGED <<use_console_lock, console_lock_depth, holder, call>>

Stopped == panic.at \in {"off", "rebooting", "halted"}
Halted == Stopped /\ UNCHANGED vars

Step(t) == acquire_console(t) \/ putchar_have_lock(t) \/ release_console(t)
PanicStep == PanicPrint \/ shutdown

Next ==
  \/ console_init \/ PanicStep \/ Halted
  \/ \E t \in Thread : Step(t) \/ debug_panic(t) \/ (\E len \in 1 .. MaxLen : StartPrint(t, len))

Spec == Init /\ [][Next]_vars
-----------------------------------------------------------------------------
(* No message is cut by another thread's characters: the lock is held from *)
(* a message's first character to its last, at any depth.                  *)
NotMixed == Running => \A t \in Thread : \A k \in 1 .. Len(call[t]) : ~call[t][k].cut

(* console_lock_depth counts the prints its holder is in, less one, and    *)
(* nobody prints without the lock (the assertion of putchar_have_lock()).  *)
DepthExact ==
  Running /\ use_console_lock =>
    LET inside(t) == {k \in 1 .. Len(call[t]) : call[t][k].at = "put"} IN
    /\ \A t \in Thread : inside(t) # {} => holder = t
    /\ holder = NoThread => console_lock_depth = 0
    /\ holder # NoThread => inside(holder) = 1 .. console_lock_depth + 1
============================================================================
