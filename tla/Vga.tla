-------------------------------- MODULE Vga --------------------------------
(* devices/vga.c and the beep of devices/speaker.c.  A thread writes          *)
(* characters to the display, holding the console lock; interrupt handlers    *)
(* write without it whenever interrupts are on, which they are in the middle  *)
(* of vga_putc() while it beeps.  A cell holds a glyph; all are gray.         *)
EXTENDS Integers, Sequences, FiniteSetsExt

CONSTANTS
  COL_CNT, ROW_CNT,
  TabStop,       \* 8
  Glyphs,        \* printable characters
  MaxGlyphs,     \* bound on the printable characters written
  MaxLines       \* bound on the lines of text since the screen was cleared

VARIABLES
  fb,            \* the frame buffer
  cx, cy,        \* vga.c's cursor
  inited,
  cursor,        \* the hardware's cursor
  gate,          \* the speaker's gate bits
  counter,       \* what channel 2 of the timer chip counts from
  beeping,       \* the thread is in speaker_beep()
  lines,         \* the text: the lines written since the screen was cleared
  written        \* printable characters so far

screen == <<fb, cx, cy, inited, cursor, lines, written>>
speaker == <<gate, counter, beeping>>
vars == <<screen, speaker>>

Col == 0 .. COL_CNT - 1
Row == 0 .. ROW_CNT - 1
Blank == " "
BlankRow == [x \in Col |-> Blank]
-----------------------------------------------------------------------------
\* The firmware has left some text, and the cursor behind it.
Init ==
  /\ cursor \in 0 .. COL_CNT * ROW_CNT - 1
  /\ \E g \in Glyphs : fb = [y \in Row |-> [x \in Col |-> IF y * COL_CNT + x < cursor THEN g ELSE Blank]]
  /\ lines = [y \in 1 .. cursor \div COL_CNT + 1 |-> fb[y - 1]]
  /\ cx = 0 /\ cy = 0
  /\ inited = FALSE
  /\ gate = {}
  /\ counter = 0
  /\ beeping = FALSE
  /\ written = 0

\* The display as a record, so that the functions that change it compose.
Display == [fb |-> fb, cx |-> cx, cy |-> cy, lines |-> lines]

find_cursor(d) == [d EXCEPT !.cx = cursor % COL_CNT, !.cy = cursor \div COL_CNT]
init == IF inited THEN Display ELSE find_cursor(Display)

\* Faulty: the last row keeps what it showed.
newline_keeps(d) ==
  LET t == [d EXCEPT !.cx = 0, !.lines = Append(@, BlankRow)]
  IN  IF d.cy + 1 < ROW_CNT THEN [t EXCEPT !.cy = @ + 1]
      ELSE [t EXCEPT !.cy = ROW_CNT - 1, !.fb = [y \in Row |-> IF y + 1 \in Row THEN d.fb[y + 1] ELSE d.fb[y]]]

\* Scrolls from the last row.
newline(d) ==
  LET t == [d EXCEPT !.cx = 0, !.lines = Append(@, BlankRow)]
  IN  IF d.cy + 1 < ROW_CNT THEN [t EXCEPT !.cy = @ + 1]
      ELSE [t EXCEPT !.cy = ROW_CNT - 1, !.fb = [y \in Row |-> IF y + 1 \in Row THEN d.fb[y + 1] ELSE BlankRow]]

cls(d) == [fb |-> [y \in Row |-> BlankRow], cx |-> 0, cy |-> 0, lines |-> <<BlankRow>>]

\* newline() when the cursor has left the row.
Wrapped(d) == IF d.cx >= COL_CNT THEN newline(d) ELSE d

ROUND_UP(n, step) == ((n + step - 1) \div step) * step

Glyph(d, c) ==
  Wrapped([d EXCEPT !.fb[d.cy][d.cx] = c, !.cx = @ + 1, !.lines[Len(d.lines)][d.cx] = c])

Control(d, c) ==
  CASE c = "newline" -> newline(d)
    [] c = "form feed" -> cls(d)
    [] c = "backspace" -> IF d.cx > 0 THEN [d EXCEPT !.cx = @ - 1] ELSE d
    [] c = "return" -> [d EXCEPT !.cx = 0]
    [] c = "tab" -> Wrapped([d EXCEPT !.cx = ROUND_UP(@ + 1, TabStop)])
Controls == {"newline", "form feed", "backspace", "return", "tab"}

\* The end of vga_putc(): the new display, and the hardware's cursor moved.
move_cursor(d) ==
  /\ fb' = d.fb /\ cx' = d.cx /\ cy' = d.cy /\ lines' = d.lines
  /\ inited' = TRUE
  /\ cursor' = d.cx + COL_CNT * d.cy

\* A character but '\a', from a thread or a handler: interrupts are off throughout.
vga_putc(c) ==
  /\ written' = IF c \in Glyphs THEN written + 1 ELSE written
  /\ written' <= MaxGlyphs
  /\ move_cursor(IF c \in Glyphs THEN Glyph(init, c) ELSE Control(init, c))
  /\ Len(lines') <= MaxLines
  /\ UNCHANGED speaker

\* '\a' from a handler: interrupts were off, so there is no beep.
HandlerAlert ==
  /\ move_cursor(init)
  /\ UNCHANGED <<written, speaker>>
-----------------------------------------------------------------------------
PIT_HZ == 1193180

pit_count(frequency) ==
  IF frequency < 19 THEN 0
  ELSE IF frequency > PIT_HZ THEN 2
  ELSE (PIT_HZ + frequency \div 2) \div frequency

\* The gate's two bits, other bits of the port untouched.
speaker_on(frequency) ==
  IF frequency \in 20 .. 20000
  THEN counter' = pit_count(frequency) /\ gate' = gate \cup {0, 1}
  ELSE gate' = gate \ {0, 1} /\ UNCHANGED counter

speaker_off == gate' = gate \ {0, 1} /\ UNCHANGED counter

\* '\a' from a thread: init() and, with interrupts on again, speaker_beep().
Beep ==
  /\ ~beeping
  /\ LET d == init IN cx' = d.cx /\ cy' = d.cy /\ inited' = TRUE
  /\ beeping' = TRUE
  /\ speaker_on(440)
  /\ UNCHANGED <<fb, cursor, lines, written>>

\* timer_msleep() has returned: the speaker goes off, interrupts too, and the
\* cursor moves to where the display's cursor is by now.
BeepEnd ==
  /\ beeping
  /\ beeping' = FALSE
  /\ speaker_off
  /\ move_cursor(Display)
  /\ UNCHANGED written

Thread == ~beeping /\ \E c \in Glyphs \cup Controls : vga_putc(c)
Handler == beeping /\ ((\E c \in Glyphs \cup Controls : vga_putc(c)) \/ HandlerAlert)

Next == Thread \/ Handler \/ Beep \/ BeepEnd
Spec == Init /\ [][Next]_vars
-----------------------------------------------------------------------------
\* The display shows the end of the text, whatever was written from where: the
\* last line is the cursor's, older lines scroll out at the top, and rows below
\* the text are blank: vga.c:134-145.
ShowsTheEnd ==
  LET top == Max({0, Len(lines) - ROW_CNT})
  IN  /\ \A y \in Row : fb[y] = IF top + y + 1 <= Len(lines) THEN lines[top + y + 1] ELSE BlankRow
      /\ inited => top + cy + 1 = Len(lines)

\* Once the display is in use the cursor is a cell of it and the hardware's
\* cursor is there too, also when a handler writes in the middle of a beep:
\* vga.c:85-102.
CursorExact == inited => cx \in Col /\ cy \in Row /\ cursor = cx + COL_CNT * cy
=============================================================================
