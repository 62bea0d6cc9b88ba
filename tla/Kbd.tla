-------------------------------- MODULE Kbd --------------------------------
(* devices/kbd.c: keys are pressed and released, the controller queues their  *)
(* scancodes, and the interrupt handler translates them some time later into  *)
(* characters, keeping track of the shift keys.  The prefix 0xe0 and the byte *)
(* behind it are one code.  Characters are their ASCII codes.                 *)
EXTENDS Integers, Sequences, FiniteSets, TLC

CONSTANTS
  Keys,          \* scancodes of the keys in use
  QueueMax,      \* scancodes the controller holds
  BufSize        \* characters the input buffer holds

VARIABLES
  held,          \* the keys that are down
  capsOn,        \* what the user has switched Caps Lock to
  queue,         \* scancodes on their way, with what the user meant by them
  down,          \* the shift state variables: left_shift, right_alt...
  caps_lock,
  buffered,      \* characters in the input buffer
  last,          \* the last character put into the buffer, and the one that was meant
  rebooted

vars == <<held, capsOn, queue, down, caps_lock, buffered, last, rebooted>>

None == -1
Release == 128   \* 0x80
-----------------------------------------------------------------------------
\* Runs of scancodes: the first one and the characters.
invariant_keymap == <<<<1, <<27>>>>, <<14, <<8>>>>, <<15, <<9, 81, 87, 69, 82, 84, 89, 85, 73, 79, 80>>>>, <<28, <<13>>>>,
                      <<30, <<65, 83, 68, 70, 71, 72, 74, 75, 76>>>>, <<44, <<90, 88, 67, 86, 66, 78, 77>>>>,
                      <<55, <<42>>>>, <<57, <<32>>>>, <<83, <<127>>>>>>
unshifted_keymap == <<<<2, <<49, 50, 51, 52, 53, 54, 55, 56, 57, 48, 45, 61>>>>, <<26, <<91, 93>>>>,
                      <<39, <<59, 39, 96>>>>, <<43, <<92>>>>, <<51, <<44, 46, 47>>>>>>
shifted_keymap == <<<<2, <<33, 64, 35, 36, 37, 94, 38, 42, 40, 41, 95, 43>>>>, <<26, <<123, 125>>>>,
                    <<39, <<58, 34, 126>>>>, <<43, <<124>>>>, <<51, <<60, 62, 63>>>>>>

\* Whether the keymap has the scancode, and its character.
Maps(k, scancode) == \E i \in DOMAIN k : scancode \in k[i][1] .. k[i][1] + Len(k[i][2]) - 1
map_key(k, scancode) ==
  LET i == CHOOSE j \in DOMAIN k : scancode \in k[j][1] .. k[j][1] + Len(k[j][2]) - 1
  IN  k[i][2][scancode - k[i][1] + 1]

CapsKey == 58
shift_keys == 42 :> "left_shift" @@ 54 :> "right_shift" @@ 56 :> "left_alt" @@ 57400 :> "right_alt"
              @@ 29 :> "left_ctrl" @@ 57373 :> "right_ctrl"

tolower(c) == IF c \in 65 .. 90 THEN c + 32 ELSE c
-----------------------------------------------------------------------------
\* What a press of key k means with the keys in h down: letters follow Shift or
\* Caps Lock but not both, Ctrl turns a letter or '[' into a control character,
\* Shift '[' into '{', and Alt sets the high bit.
Meant(k, h, caps) ==
  LET shift == h \cap {42, 54} # {}
      ctrl == h \cap {29, 57373} # {}
      alt == h \cap {56, 57400} # {}
      plain == CASE k = 30 -> IF ctrl THEN 1 ELSE IF shift # caps THEN 65 ELSE 97
                 [] k = 26 -> IF shift THEN 123 ELSE IF ctrl THEN 27 ELSE 91
                 [] k = 83 -> 127
  IN  IF alt THEN plain + 128 ELSE plain

Typing == {30, 26, 83}

Init ==
  /\ held = {} /\ capsOn = FALSE
  /\ queue = <<>>
  /\ down = [v \in {shift_keys[k] : k \in DOMAIN shift_keys} |-> FALSE]
  /\ caps_lock = FALSE
  /\ buffered = 0
  /\ last = [got |-> None, meant |-> None]
  /\ rebooted = FALSE

\* A key goes down, or repeats while it is down.
Press(k) ==
  /\ ~rebooted /\ Len(queue) < QueueMax
  /\ held' = held \cup {k}
  /\ capsOn' = IF k = CapsKey THEN ~capsOn ELSE capsOn
  /\ queue' = Append(queue, [code |-> k, meant |-> IF k \in Typing THEN Meant(k, held, capsOn) ELSE None])
  /\ UNCHANGED <<down, caps_lock, buffered, last, rebooted>>

Lift(k) ==
  /\ ~rebooted /\ Len(queue) < QueueMax
  /\ k \in held
  /\ held' = held \ {k}
  /\ queue' = Append(queue, [code |-> k + Release, meant |-> None])
  /\ UNCHANGED <<capsOn, down, caps_lock, buffered, last, rebooted>>

\* input_getc() takes a character.
Getc ==
  /\ ~rebooted
  /\ buffered > 0
  /\ buffered' = buffered - 1
  /\ UNCHANGED <<held, capsOn, queue, down, caps_lock, last, rebooted>>

\* Faulty: Shift does not undo Caps Lock.
TranslateEither(c, shift, ctrl, alt) ==
  LET b == IF ctrl /\ c \in 64 .. 95 THEN c - 64 ELSE IF ~shift /\ ~caps_lock THEN tolower(c) ELSE c
  IN  IF alt THEN b + 128 ELSE b

\* Ctrl overrides Shift; without it letters become small when Shift and Caps
\* Lock are both on or both off; Alt sets the high bit.
Translate(c, shift, ctrl, alt) ==
  LET b == IF ctrl /\ c \in 64 .. 95 THEN c - 64 ELSE IF shift = caps_lock THEN tolower(c) ELSE c
  IN  IF alt THEN b + 128 ELSE b

ShiftKey(code, release) ==
  IF code \in DOMAIN shift_keys THEN [down EXCEPT ![shift_keys[code]] = ~release] ELSE down

\* The handler's three cases, for one code.  Bit 0x80 of the code's last byte
\* tells a release from a press.
Interpret(code, release, shift, ctrl, alt, meant) ==
  LET c == IF Maps(invariant_keymap, code) THEN map_key(invariant_keymap, code)
           ELSE IF ~shift /\ Maps(unshifted_keymap, code) THEN map_key(unshifted_keymap, code)
           ELSE IF shift /\ Maps(shifted_keymap, code) THEN map_key(shifted_keymap, code)
           ELSE None
      accepted == c # None /\ ~release /\ buffered < BufSize
  IN  IF code = CapsKey
      THEN /\ caps_lock' = IF release THEN caps_lock ELSE ~caps_lock
           /\ UNCHANGED <<down, buffered, last, rebooted>>
      ELSE IF c # None
      THEN /\ rebooted' = (~release /\ c = 127 /\ ctrl /\ alt)
           /\ buffered' = IF accepted /\ ~rebooted' THEN buffered + 1 ELSE buffered
           /\ last' = IF accepted /\ ~rebooted'
                      THEN [got |-> Translate(c, shift, ctrl, alt), meant |-> meant] ELSE last
           /\ UNCHANGED <<caps_lock, down>>
      ELSE /\ down' = ShiftKey(code, release)
           /\ UNCHANGED <<caps_lock, buffered, last, rebooted>>

keyboard_interrupt ==
  /\ ~rebooted /\ queue # <<>>
  /\ LET e == Head(queue)
         release == (e.code % 256) >= Release
     IN  Interpret(IF release THEN e.code - Release ELSE e.code, release,
                   down["left_shift"] \/ down["right_shift"], down["left_ctrl"] \/ down["right_ctrl"],
                   down["left_alt"] \/ down["right_alt"], e.meant)
  /\ queue' = Tail(queue)
  /\ UNCHANGED <<held, capsOn>>

Rebooted == rebooted /\ UNCHANGED vars

Next == (\E k \in Keys : Press(k) \/ Lift(k)) \/ Getc \/ keyboard_interrupt \/ Rebooted
Spec == Init /\ [][Next]_vars
-----------------------------------------------------------------------------
\* A character is what the user meant by the key when it went down, although
\* the handler sees the code later and knows the shift keys from earlier codes
\* only, with keys of a pair pressed and released in any order: kbd.c:95-195.
CharMeant == last.got = last.meant

\* Once all codes are read, the state variables are the state of the keys.
ShiftStateExact ==
  queue = <<>> => /\ caps_lock = capsOn
                  /\ \A k \in DOMAIN shift_keys : down[shift_keys[k]] = (k \in held)
=============================================================================
