------------------------------ MODULE MCMachine ------------------------------
(* Small instances of processes, the program loader, interrupts, the console, *)
(* delays, the clock, the keyboard and the display.  Each behaviour runs the  *)
(* one that `unit' names, from its initial states; the variables of the       *)
(* others are not in use.                                                     *)
EXTENDS Integers, TLC

CONSTANTS NULL, Base, NoThread, NoAddr

VARIABLES unit, cur, cr3, tlb, used, th, pd, length, phdrs, i, at, upage, ofs, read_bytes,
                zero_bytes, mem, stack, dead, IF_, in_external_intr, yield_on_return, cr2, irr,
                isr0, isr1, use_console_lock, console_lock_depth, holder, call, panic, perTick,
                loops_per_tick, test_bit, high_bit, phase, part, sleeper, clock, shown, got, time,
                held, capsOn, queue, down, caps_lock, buffered, last, rebooted, fb, cx, cy, inited, cursor, gate, counter,
                beeping, lines, written

vars == <<unit, cur, cr3, tlb, used, th, pd, length, phdrs, i, at, upage, ofs, read_bytes,
          zero_bytes, mem, stack, dead, IF_, in_external_intr, yield_on_return, cr2, irr, isr0,
          isr1, use_console_lock, console_lock_depth, holder, call, panic, perTick, loops_per_tick,
          test_bit, high_bit, phase, part, sleeper, clock, shown, got, time, held, capsOn,
          queue, down, caps_lock, buffered, last, rebooted, fb, cx, cy, inited, cursor, gate, counter, beeping, lines, written>>

(* In six pages one process runs while another loads until the pages run    *)
(* out, or takes the place of one that exited; in four pages the same       *)
(* happens to programs with a segment.  In seven pages a process can load   *)
(* a segment: a page beside its stack, with a page table of its own, or     *)
(* the stack's page.                                                        *)
Proc == INSTANCE Process WITH
  Thread <- {"main", "p", "q"}, Main <- "main", PageCnt <- 6, Upage <- {2}, StackPage <- 2, PtSize <- 2,
  Programs <- {{}}

Tight == INSTANCE Process WITH
  Thread <- {"main", "p", "q"}, Main <- "main", PageCnt <- 4, Upage <- {1, 2}, StackPage <- 2, PtSize <- 2,
  Programs <- {{1}, {2}}

Alone == INSTANCE Process WITH
  Thread <- {"main", "p"}, Main <- "main", PageCnt <- 7, Upage <- {1, 2}, StackPage <- 2, PtSize <- 2,
  Programs <- {{1}, {2}}

Load(o, v, f, m) == [type |-> "load", offset |-> o, vaddr |-> v, filesz |-> f, memsz |-> m]
Other(t) == [Load(0, 0, 0, 0) EXCEPT !.type = t]
Some == {Load(0, 4, 4, 5), Load(1, 9, 3, 3), Load(4, 8, 0, 2), Other("ignored"), Other("dynamic")}

\* Addresses of five bits and pages of four bytes: segments around a page, and some pairs.
SmallHeaders ==
  {<<Load(o, v, f, m)>> : o \in {0, 1, 5, 9}, v \in 0 .. 31, f \in {0, 1, 3, 4, 6}, m \in 0 .. 31} \cup (Some \X Some)

Loader == INSTANCE Elf WITH
  Word <- 32, PGSIZE <- 4, PHYS_BASE <- 20, Lengths <- {6, 8}, Headers <- SmallHeaders

(* The timer and a line of the slave PIC; a breakpoint, a page fault and a   *)
(* system call.                                                              *)
Intr == INSTANCE Interrupts WITH
  Thread <- {"idle", "p", "q"}, Idle <- "idle", Irq <- {0, 14}, Vec <- {3, 14, 48}, Addr <- {"x", "y"}

Cons == INSTANCE Console WITH
  Thread <- {"p", "q", "r"}, MaxLen <- 2, MaxNest <- 3, How <- "power_off"

(* A tick is one of several numbers of loops; sleeps of two ticks, of one    *)
(* and a half, and of parts of one.                                          *)
Delay == INSTANCE Timer WITH
  Thread <- {"p"}, Speeds <- {9, 16, 23}, First <- 8, Refine <- 8, Wrap <- 256,
  Freq <- 2, Thousand <- 1, Requests <- {<<1, 1>>, <<3, 4>>, <<1, 4>>, <<3, 8>>}

\* The last seconds of a minute, an hour, a day, a month, a year, a century and a leap day.
SmallStarts ==
  {<<58, m, 23, 31, 12, 99>> : m \in {8, 59}} \cup {<<57, 59, 23, d, 2, 4>> : d \in {28, 29}}
  \cup {<<59, 59, h, 30, 4, 6>> : h \in {9, 23}}

Clock == INSTANCE Rtc WITH Starts <- SmallStarts, MaxTicks <- 6

(* The letter A, Delete, Caps Lock, both Shift keys, Ctrl and right Alt.     *)
Keyboard == INSTANCE Kbd WITH
  Keys <- {30, 83, 42, 54, 29, 57400, 58}, QueueMax <- 2, BufSize <- 1

(* Two rows of four columns with a tab stop of two.                          *)
Display == INSTANCE Vga WITH
  COL_CNT <- 4, ROW_CNT <- 2, TabStop <- 2, Glyphs <- {"a", "b"}, MaxGlyphs <- 3, MaxLines <- 3
-----------------------------------------------------------------------------
\* What holds of, or happens to, variables that only these units use.
Unless(units, F) == IF unit \in units THEN TRUE ELSE F

Init ==
  /\ \/ unit = "process" /\ Proc!Init
     \/ unit = "tight" /\ Tight!Init
     \/ unit = "alone" /\ Alone!Init
     \/ unit = "elf" /\ Loader!Init
     \/ unit = "interrupts" /\ Intr!Init
     \/ unit = "console" /\ Cons!Init
     \/ unit = "timer" /\ Delay!Init
     \/ unit = "clock" /\ Clock!Init
     \/ unit = "keyboard" /\ Keyboard!Init
     \/ unit = "display" /\ Display!Init
  /\ Unless({"process", "tight", "alone", "interrupts"}, cur = NULL)
  /\ Unless({"process", "tight", "alone"}, cr3 = NULL /\ tlb = NULL /\ used = NULL /\ th = NULL /\ pd = NULL)
  /\ Unless({"elf"}, length = NULL /\ phdrs = NULL /\ i = NULL /\ at = NULL /\ upage = NULL /\ ofs = NULL
                     /\ read_bytes = NULL /\ zero_bytes = NULL /\ mem = NULL)
  /\ Unless({"interrupts"}, stack = NULL /\ dead = NULL /\ IF_ = NULL /\ in_external_intr = NULL
                            /\ yield_on_return = NULL /\ cr2 = NULL /\ irr = NULL /\ isr0 = NULL
                            /\ isr1 = NULL)
  /\ Unless({"console"}, use_console_lock = NULL /\ console_lock_depth = NULL /\ holder = NULL /\ call = NULL
                         /\ panic = NULL)
  /\ Unless({"timer"}, perTick = NULL /\ loops_per_tick = NULL /\ test_bit = NULL /\ high_bit = NULL
                       /\ phase = NULL /\ part = NULL /\ sleeper = NULL)
  /\ Unless({"clock"}, clock = NULL /\ shown = NULL /\ got = NULL /\ time = NULL)
  /\ Unless({"keyboard"}, held = NULL /\ capsOn = NULL /\ queue = NULL /\ down = NULL /\ caps_lock = NULL
                          /\ buffered = NULL /\ last = NULL /\ rebooted = NULL)
  /\ Unless({"display"}, fb = NULL /\ cx = NULL /\ cy = NULL /\ inited = NULL /\ cursor = NULL /\ gate = NULL
                         /\ counter = NULL /\ beeping = NULL /\ lines = NULL /\ written = NULL)

Next ==
  /\ \/ unit = "process" /\ Proc!Next
     \/ unit = "tight" /\ Tight!Next
     \/ unit = "alone" /\ Alone!Next
     \/ unit = "elf" /\ Loader!Next
     \/ unit = "interrupts" /\ Intr!Next
     \/ unit = "console" /\ Cons!Next
     \/ unit = "timer" /\ Delay!Next
     \/ unit = "clock" /\ Clock!Next
     \/ unit = "keyboard" /\ Keyboard!Next
     \/ unit = "display" /\ Display!Next
  /\ UNCHANGED unit
  /\ Unless({"process", "tight", "alone", "interrupts"}, UNCHANGED <<cur>>)
  /\ Unless({"process", "tight", "alone"}, UNCHANGED <<cr3, tlb, used, th, pd>>)
  /\ Unless({"elf"}, UNCHANGED <<length, phdrs, i, at, upage, ofs, read_bytes, zero_bytes, mem>>)
  /\ Unless({"interrupts"}, UNCHANGED <<stack, dead, IF_, in_external_intr, yield_on_return, cr2, irr, isr0,
                                        isr1>>)
  /\ Unless({"console"}, UNCHANGED <<use_console_lock, console_lock_depth, holder, call, panic>>)
  /\ Unless({"timer"}, UNCHANGED <<perTick, loops_per_tick, test_bit, high_bit, phase, part, sleeper>>)
  /\ Unless({"clock"}, UNCHANGED <<clock, shown, got, time>>)
  /\ Unless({"keyboard"}, UNCHANGED <<held, capsOn, queue, down, caps_lock, buffered, last, rebooted>>)
  /\ Unless({"display"}, UNCHANGED <<fb, cx, cy, inited, cursor, gate, counter, beeping, lines, written>>)

Spec == Init /\ [][Next]_vars
-----------------------------------------------------------------------------
(* Every page in use has exactly one owner, however far load() got when it *)
(* failed and however processes exit.                                      *)
PagesExact ==
  /\ unit = "process" => Proc!PagesExact
  /\ unit = "tight" => Tight!PagesExact
  /\ unit = "alone" => Alone!PagesExact

(* The active page directory is never one that is being destroyed or has   *)
(* been freed (process_exit(), "Correct ordering here is crucial"), and    *)
(* while a program runs the CPU translates its addresses by its own page   *)
(* directory and by no stale entry of the TLB.                             *)
AddressesRight ==
  /\ unit = "process" => Proc!ActiveLive /\ Proc!TranslatesRight
  /\ unit = "tight" => Tight!ActiveLive /\ Tight!TranslatesRight
  /\ unit = "alone" => Alone!ActiveLive /\ Alone!TranslatesRight

(* A program that load() accepts sees its segments as the ELF format       *)
(* defines them, nothing of it in page 0 or in the kernel's half; and      *)
(* load() fails only for a header it must refuse, a file that ends too     *)
(* early, or a page wanted twice.                                          *)
LoadRight == unit = "elf" => Loader!ImageRight /\ Loader!FailsForReason

(* External interrupts do not nest, and intr_context() holds exactly in    *)
(* one (the assertions of intr_handler()); the address page_fault()        *)
(* reports is the one this thread faulted at, although other threads fault *)
(* in between.                                                             *)
InterruptsExact == unit = "interrupts" => Intr!ContextExact /\ Intr!FaultAddrRight

(* No message is cut by another thread's characters; console_lock_depth    *)
(* counts the prints its holder is in, less one, and nobody prints without *)
(* the lock (console.c).                                                   *)
ConsoleExclusive == unit = "console" => Cons!NotMixed /\ Cons!DepthExact

(* A sleep or delay is not shorter than asked, but for the tick it starts  *)
(* in and the rounding of timer_calibrate() and busy_wait()'s count; what  *)
(* rtc_get_time() returns was on the clock together, at some moment of the *)
(* read, although it is read piece by piece while the clock counts.        *)
TimeRight == (unit = "timer" => Delay!NotShort) /\ (unit = "clock" => Clock!ReadWhole)

(* A character is what the user meant by the key when it went down,        *)
(* although the handler sees the code later, and once all codes are read   *)
(* the state variables are the state of the keys (kbd.c).                  *)
KeyboardRight == unit = "keyboard" => Keyboard!CharMeant /\ Keyboard!ShiftStateExact

(* The display shows the end of the text, older lines scrolled out at the  *)
(* top; the cursor is a cell of it and the hardware's cursor is there too, *)
(* also when a handler writes in the middle of a beep (vga.c).             *)
DisplayRight == unit = "display" => Display!ShowsTheEnd /\ Display!CursorExact
==============================================================================
