------------------------------ MODULE MCProgress ------------------------------
(* What must eventually happen: small instances of the components that wait   *)
(* for each other or for hardware, with their fairness.  Each behaviour runs  *)
(* the one that `unit' names, from its initial states; the variables of the   *)
(* others are not in use.                                                     *)
EXTENDS Integers

CONSTANTS NULL, NoThread, NoAddr

VARIABLES unit, used_map, lock, call, held, dirty, fresh, panicked, arena, free_list, live,
                expecting_interrupt, completion_wait, is_ata, registered, boot, signature, capacity,
                disk, bsy, drq, regs, cmd, buffer, irq, spurious, cur, stack, dead, IF_,
                in_external_intr, yield_on_return, cr2, irr, isr0, isr1, use_console_lock,
                console_lock_depth, holder, panic, perTick, loops_per_tick, test_bit, high_bit,
                phase, part, sleeper, clock, shown, got, time, fb, cx, cy, inited, cursor, gate,
                counter, beeping, lines, written, queue, pc, byte, blocked, ier, rbr, thr, taken

vars == <<unit, used_map, lock, call, held, dirty, fresh, panicked, arena, free_list, live,
          expecting_interrupt, completion_wait, is_ata, registered, boot, signature, capacity, disk,
          bsy, drq, regs, cmd, buffer, irq, spurious, cur, stack, dead, IF_, in_external_intr,
          yield_on_return, cr2, irr, isr0, isr1, use_console_lock, console_lock_depth, holder,
          panic, perTick, loops_per_tick, test_bit, high_bit, phase, part, sleeper, clock, shown,
          got, time, fb, cx, cy, inited, cursor, gate, counter, beeping, lines, written, queue, pc,
          byte, blocked, ier, rbr, thr, taken>>

Threads == {"p", "q"}

Pages == INSTANCE Palloc WITH
  ELEM_BITS <- 2, Thread <- Threads, FreePages <- 5, UserPageLimit <- 1, PageBits <- 8, HeaderBits <- 2,
  MaxCnt <- 1, Flags <- {{}, {"USER", "ASSERT"}}

Blocks == INSTANCE Malloc WITH
  ELEM_BITS <- 2, Thread <- Threads, PageCnt <- 1, PGSIZE <- 10, ArenaBytes <- 2, MinBlock <- 4, SizeBits <- 6,
  Sizes <- {4}, Factors <- {}

\* A disk, a CD-ROM, nothing.
AllSignatures ==
  {[error |-> 1, drdy |-> TRUE, bsy |-> FALSE, lba |-> "pata"],
   [error |-> 1, drdy |-> FALSE, bsy |-> FALSE, lba |-> "other"],
   [error |-> 129, drdy |-> FALSE, bsy |-> TRUE, lba |-> "other"]}

Disk == INSTANCE Ide WITH
  Thread <- Threads, Main <- "p", Sector <- {1}, Data <- {"x"}, Signatures <- AllSignatures,
  Capacity <- {"small", "large", "abort"}, MaxSpurious <- 1, LateSpurious <- FALSE

Intr == INSTANCE Interrupts WITH
  Thread <- {"idle", "p"}, Idle <- "idle", Irq <- {0, 5, 14}, Vec <- {0, 14}, Addr <- {"x"}

Cons == INSTANCE Console WITH Thread <- Threads, MaxLen <- 2, MaxNest <- 2, How <- "none"

Delay == INSTANCE Timer WITH
  Thread <- Threads, Speeds <- {3}, First <- 2, Refine <- 2, Wrap <- 64, Freq <- 2, Thousand <- 1,
  Requests <- {<<1, 2>>, <<1, 4>>}

\* The last seconds of a minute, an hour, a day, a month, a year, a century and a leap day.
SmallStarts ==
  {<<58, m, 23, 31, 12, 99>> : m \in {8, 59}} \cup {<<57, 59, 23, d, 2, 4>> : d \in {28, 29}}
  \cup {<<59, 59, h, 30, 4, 6>> : h \in {9, 23}}

Clock == INSTANCE Rtc WITH Starts <- SmallStarts, MaxTicks <- 6

Display == INSTANCE Vga WITH
  COL_CNT <- 2, ROW_CNT <- 2, TabStop <- 2, Glyphs <- {"a"}, MaxGlyphs <- 2, MaxLines <- 3

Uart == INSTANCE Serial WITH
  INTQ_BUFSIZE <- 3, Byte <- {"a"}, Reader <- {"p"}, Writer <- {"q"}, LineByte <- {"a"}, KeyByte <- {"a"},
  OutByte <- {"a"}, OffByte <- {}
-----------------------------------------------------------------------------
\* What holds of, or happens to, variables that only these units use.
Unless(units, F) == IF unit \in units THEN TRUE ELSE F

Init ==
  /\ \/ unit = "pages" /\ Pages!Init
     \/ unit = "blocks" /\ Blocks!Init
     \/ unit = "disk" /\ Disk!Init
     \/ unit = "interrupts" /\ Intr!Init
     \/ unit = "console" /\ Cons!Init
     \/ unit = "timer" /\ Delay!Init
     \/ unit = "clock" /\ Clock!Init
     \/ unit = "display" /\ Display!Init
     \/ unit = "serial" /\ Uart!Init
  /\ Unless({"pages", "blocks"}, used_map = NULL)
  /\ Unless({"pages", "blocks", "disk"}, lock = NULL)
  /\ Unless({"pages", "blocks", "disk", "console"}, call = NULL)
  /\ Unless({"pages"}, held = NULL /\ dirty = NULL /\ fresh = NULL)
  /\ Unless({"pages", "disk", "serial"}, panicked = NULL)
  /\ Unless({"blocks"}, arena = NULL /\ free_list = NULL /\ live = NULL)
  /\ Unless({"disk"}, expecting_interrupt = NULL /\ completion_wait = NULL /\ is_ata = NULL
                      /\ registered = NULL /\ boot = NULL /\ signature = NULL /\ capacity = NULL
                      /\ disk = NULL /\ bsy = NULL /\ drq = NULL /\ regs = NULL /\ cmd = NULL /\ buffer = NULL
                      /\ irq = NULL /\ spurious = NULL)
  /\ Unless({"interrupts"}, cur = NULL /\ stack = NULL /\ dead = NULL /\ IF_ = NULL /\ in_external_intr = NULL
                            /\ yield_on_return = NULL /\ cr2 = NULL /\ irr = NULL /\ isr0 = NULL
                            /\ isr1 = NULL)
  /\ Unless({"console"}, use_console_lock = NULL /\ console_lock_depth = NULL /\ holder = NULL /\ panic = NULL)
  /\ Unless({"timer"}, perTick = NULL /\ loops_per_tick = NULL /\ test_bit = NULL /\ high_bit = NULL
                       /\ phase = NULL /\ part = NULL /\ sleeper = NULL)
  /\ Unless({"clock"}, clock = NULL /\ shown = NULL /\ got = NULL /\ time = NULL)
  /\ Unless({"display"}, fb = NULL /\ cx = NULL /\ cy = NULL /\ inited = NULL /\ cursor = NULL /\ gate = NULL
                         /\ counter = NULL /\ beeping = NULL /\ lines = NULL /\ written = NULL)
  /\ Unless({"serial"}, queue = NULL /\ pc = NULL /\ byte = NULL /\ blocked = NULL /\ ier = NULL /\ rbr = NULL
                        /\ thr = NULL /\ taken = NULL)

Frame ==
  /\ UNCHANGED unit
  /\ Unless({"pages", "blocks"}, UNCHANGED <<used_map>>)
  /\ Unless({"pages", "blocks", "disk"}, UNCHANGED <<lock>>)
  /\ Unless({"pages", "blocks", "disk", "console"}, UNCHANGED <<call>>)
  /\ Unless({"pages"}, UNCHANGED <<held, dirty, fresh>>)
  /\ Unless({"pages", "disk", "serial"}, UNCHANGED <<panicked>>)
  /\ Unless({"blocks"}, UNCHANGED <<arena, free_list, live>>)
  /\ Unless({"disk"}, UNCHANGED <<expecting_interrupt, completion_wait, is_ata, registered, boot, signature,
                                  capacity, disk, bsy, drq, regs, cmd, buffer, irq, spurious>>)
  /\ Unless({"interrupts"}, UNCHANGED <<cur, stack, dead, IF_, in_external_intr, yield_on_return, cr2, irr,
                                        isr0, isr1>>)
  /\ Unless({"console"}, UNCHANGED <<use_console_lock, console_lock_depth, holder, panic>>)
  /\ Unless({"timer"}, UNCHANGED <<perTick, loops_per_tick, test_bit, high_bit, phase, part, sleeper>>)
  /\ Unless({"clock"}, UNCHANGED <<clock, shown, got, time>>)
  /\ Unless({"display"}, UNCHANGED <<fb, cx, cy, inited, cursor, gate, counter, beeping, lines, written>>)
  /\ Unless({"serial"}, UNCHANGED <<queue, pc, byte, blocked, ier, rbr, thr, taken>>)

Next ==
  /\ \/ unit = "pages" /\ Pages!Next
     \/ unit = "blocks" /\ Blocks!Next
     \/ unit = "disk" /\ Disk!Next
     \/ unit = "interrupts" /\ Intr!Next
     \/ unit = "console" /\ Cons!Next
     \/ unit = "timer" /\ Delay!Next
     \/ unit = "clock" /\ Clock!Next
     \/ unit = "display" /\ Display!Next
     \/ unit = "serial" /\ Uart!Next
  /\ Frame

\* A panicked kernel stops; without a disk the driver has nothing more to do.
Stopped ==
  /\ \/ unit \in {"pages", "disk"} /\ panicked
     \/ unit = "disk" /\ Disk!Booted /\ registered = {}
  /\ UNCHANGED vars

(* A thread inside a function runs on: ReadyRuns of module Kernel, and no    *)
(* step waits but for a lock, which its guard says.                          *)
Runs(t) ==
  /\ \/ unit = "pages" /\ ~panicked /\ Pages!Step(t)
     \/ unit = "blocks" /\ Blocks!Step(t)
     \/ unit = "disk" /\ Disk!Step(t)
     \/ unit = "console" /\ holder = t /\ Cons!Step(t)
     \/ unit = "timer" /\ (Delay!timer_sleep(t) \/ Delay!Run(t))
     \/ unit = "serial" /\ ~panicked /\ Uart!Resume(t)
  /\ Frame

(* What goes on by itself: the boot, the CPU in a handler or in a panic, a   *)
(* read of the clock, the end of a beep, time.                               *)
GoesOn ==
  /\ \/ unit = "disk" /\ Disk!Boot
     \/ unit = "interrupts" /\ Intr!Step
     \/ unit = "console" /\ Cons!PanicStep
     \/ unit = "timer" /\ Delay!Loop({})
     \/ unit = "clock" /\ (Clock!Read \/ Clock!Check)
     \/ unit = "display" /\ Display!BeepEnd
  /\ Frame

\* The disk finishes what it is told, the serial line accepts bytes.
Answers ==
  /\ \/ unit = "disk" /\ Disk!Ready
     \/ unit = "serial" /\ ~panicked /\ Uart!uart_send
  /\ Frame

\* Interrupts are taken when they are raised.
Interrupted ==
  /\ \/ unit = "disk" /\ Disk!interrupt_handler
     \/ unit = "serial" /\ ~panicked /\ Uart!serial_interrupt
  /\ Frame

(* The timer interrupt is taken if the interrupt flag is set again and again, *)
(* though not all the time: at the next instruction with the flag set.        *)
TickTaken == unit = "interrupts" /\ Intr!Deliver(0) /\ Frame

Spec ==
  /\ Init /\ [][Next \/ Stopped]_vars
  /\ WF_vars(GoesOn) /\ WF_vars(Answers) /\ WF_vars(Interrupted) /\ SF_vars(TickTaken)
  /\ \A t \in Threads : WF_vars(Runs(t))
-----------------------------------------------------------------------------
\* A state of a unit's behaviours.
In(u, P) == unit = u /\ P

(* Locks are given back.  A page pool's: bitmap_scan() ends, however many  *)
(* bits change while it runs.  A descriptor's, by malloc() and free(), out *)
(* of memory too.  The IDE channel's, whatever devices there are, and      *)
(* ide_init() ends.  The console's, unless the kernel panics.              *)
LocksReleased ==
  /\ \A p \in {"kernel", "user"} : In("pages", lock[p] # NULL) ~> In("pages", lock[p] = NULL \/ panicked)
  /\ In("blocks", lock[4] # NULL) ~> In("blocks", lock[4] = NULL)
  /\ In("disk", lock # NULL) ~> In("disk", lock = NULL)
  /\ In("disk", TRUE) ~> In("disk", Disk!Booted)
  /\ In("console", holder # NoThread) ~> In("console", holder = NoThread \/ Cons!Stopped)

(* What waits for time or for hardware ends: sleeps and delays (timer.c),  *)
(* the read of a clock that counts (rtc.c), a beep (speaker.c), a tick     *)
(* that waits in the PIC, which intr_handler() acknowledges before it      *)
(* yields, input_getc() once there is a key and one thread reads, and      *)
(* serial_putc() when one thread writes.  A panic ends with the machine    *)
(* stopped, though printing its message may panic again (debug.c).         *)
WaitsEnd ==
  /\ \A t \in Threads : In("timer", sleeper[t] # Delay!Awake) ~> In("timer", sleeper[t] = Delay!Awake)
  /\ In("clock", TRUE) ~> In("clock", time # Clock!NotYet)
  /\ In("display", gate # {}) ~> In("display", gate = {})
  /\ In("interrupts", 0 \in irr) ~> In("interrupts", 0 \notin irr)
  /\ In("serial", pc["p"] # "own" /\ ~Uart!intq_empty(queue["buffer"])) ~> In("serial", pc["p"] = "own")
  /\ In("serial", pc["q"] # "own") ~> In("serial", pc["q"] = "own")
  /\ In("console", panic.level > 0) ~> In("console", Cons!Stopped)
==============================================================================
