------------------------------- MODULE Stdio -------------------------------
(* lib/stdio.c: formatted output.  A character is a string of length one,     *)
(* text a sequence of characters.  C's types are scaled: Bits gives the       *)
(* number of bits of each.  A call is one step, from arguments to output.     *)
EXTENDS Integers, Sequences, FiniteSetsExt, SequencesExt

CONSTANTS
  Bits,       \* the bits of each type of integer argument
  Plans,      \* for calls of snprintf() with an integer: the flags, widths,
              \* precisions, types, conversions and values to combine
  Texts,      \* calls of snprintf() with characters and strings
  Dumps,      \* calls of hex_dump(): an offset and a size
  Sizes,      \* arguments of print_human_readable_size()
  BufMax,     \* format_integer(): sizeof buf
  PerLine,    \* hex_dump(): bytes per line
  Kilo        \* print_human_readable_size(): 1024

VARIABLES call, out

vars == <<call, out>>

Digits == <<"0", "1", "2", "3", "4", "5", "6", "7", "8", "9", "a", "b", "c", "d", "e", "f">>
DigitsX == SubSeq(Digits, 1, 10) \o <<"A", "B", "C", "D", "E", "F">>

\* struct integer_base.
base_d == [base |-> 10, digits |-> Digits, x |-> <<>>, group |-> 3]
base_o == [base |-> 8, digits |-> Digits, x |-> <<>>, group |-> 3]
base_x == [base |-> 16, digits |-> Digits, x |-> <<"0", "x">>, group |-> 4]
base_X == [base |-> 16, digits |-> DigitsX, x |-> <<"0", "X">>, group |-> 4]
-----------------------------------------------------------------------------
output_dup(ch, cnt) == [i \in 1 .. cnt |-> ch]

isdigit == {Digits[i] : i \in 1 .. 10}
DigitValue(ch) == (CHOOSE i \in 1 .. 16 : ch \in {Digits[i], DigitsX[i]}) - 1

\* The first place from i on with a character outside class, to which the null
\* byte behind the format never belongs.
RunEnd(s, i, class) == CHOOSE j \in i .. Len(s) + 1 :
  (\A k \in i .. j - 1 : s[k] \in class) /\ (j > Len(s) \/ s[j] \notin class)

\* A width or precision: digits, or `*' for the next argument.
Number(s, i, end, args) ==
  [value |-> FoldLeft(LAMBDA n, ch : n * 10 + DigitValue(ch), 0, SubSeq(s, i, end - 1)), at |-> end, args |-> args]
Amount(s, i, args) ==
  IF s[i] = "*" THEN [value |-> args[1], at |-> i + 1, args |-> Tail(args)]
  ELSE Number(s, i, RunEnd(s, i, isdigit), args)

\* The length modifiers, the longer of two that start alike first.
Types == <<[name |-> "CHAR", text |-> <<"h", "h">>], [name |-> "SHORT", text |-> <<"h">>],
           [name |-> "LONGLONG", text |-> <<"l", "l">>], [name |-> "LONG", text |-> <<"l">>],
           [name |-> "INTMAX", text |-> <<"j">>], [name |-> "PTRDIFFT", text |-> <<"t">>],
           [name |-> "SIZET", text |-> <<"z">>], [name |-> "INT", text |-> <<>>]>>

Flags(set) ==
  set \ ((IF "-" \in set THEN {"0"} ELSE {}) \cup (IF "+" \in set THEN {" "} ELSE {}))

\* A conversion: its flags, width w, precision p and type.  A negative width
\* sets '-' after the flags were reconciled; a negative precision is none.
Conversion(flags, w, p, type) ==
  [flags |-> (flags \cup (IF w.value < 0 THEN {"-"} ELSE {})) \ (IF p.value >= 0 THEN {"0"} ELSE {}),
   width |-> IF w.value < 0 THEN -w.value ELSE w.value,
   precision |-> IF p.value < 0 THEN -1 ELSE p.value,
   type |-> type.name, at |-> p.at + Len(type.text), args |-> p.args]

\* Parses the conversion at i: flags, width, precision and type, in this order.
TypeAt(s, i) == Types[Min({k \in DOMAIN Types : IsPrefix(Types[k].text, SubSeq(s, i, Len(s)))})]
FromType(s, flags, w, p) == Conversion(flags, w, p, TypeAt(s, p.at))
FromPrecision(s, flags, w) ==
  FromType(s, flags, w, IF s[w.at] = "." THEN Amount(s, w.at + 1, w.args) ELSE [w EXCEPT !.value = -1])
FromWidth(s, i, first, args) ==
  FromPrecision(s, Flags({s[k] : k \in i .. first - 1}), Amount(s, first, args))
parse_conversion(s, i, args) ==
  FromWidth(s, i, RunEnd(s, i, {"-", "+", " ", "#", "0", "'"}), args)
-----------------------------------------------------------------------------
RECURSIVE Accumulate(_, _, _, _)
\* The digits, least significant first, with a comma between groups.
Accumulate(value, cnt, b, grouped) ==
  IF value = 0 THEN <<>>
  ELSE (IF grouped /\ cnt > 0 /\ cnt % b.group = 0 THEN <<",">> ELSE <<>>)
       \o <<b.digits[(value % b.base) + 1]>>
       \o Accumulate(value \div b.base, cnt + 1, b, grouped)

Sign(negative, flags) ==
  IF negative THEN <<"-">> ELSE IF "+" \in flags THEN <<"+">> ELSE IF " " \in flags THEN <<" ">> ELSE <<>>

\* The field: sign, prefix and digits, least significant first, with padding.
Padded(sign, x, buf, flags, pad_cnt) ==
  (IF flags \cap {"-", "0"} = {} THEN output_dup(" ", pad_cnt) ELSE <<>>)
  \o sign \o x
  \o (IF "0" \in flags THEN output_dup("0", pad_cnt) ELSE <<>>)
  \o Reverse(buf)
  \o (IF "-" \in flags THEN output_dup(" ", pad_cnt) ELSE <<>>)
Fitted(sign, x, buf, c) == Padded(sign, x, buf, c.flags, Max({0, c.width - Len(buf) - Len(x) - Len(sign)}))

\* The digits, with as many zeros as the precision asks for and the buffer holds.
Exact(digits, precision) ==
  digits \o output_dup("0", Max({0, Min({IF precision < 0 THEN 1 ELSE precision, BufMax - 1}) - Len(digits)}))
Octal(exact, b, flags) ==
  IF "#" \in flags /\ b.base = 8 /\ (exact = <<>> \/ exact[Len(exact)] # "0") THEN Append(exact, "0") ELSE exact

format_integer(value, is_signed, negative, b, c) ==
  Fitted(IF is_signed THEN Sign(negative, c.flags) ELSE <<>>,
         IF "#" \in c.flags /\ value # 0 THEN b.x ELSE <<>>,
         Octal(Exact(Accumulate(value, 0, b, "'" \in c.flags), c.precision), b, c.flags), c)

format_string(string, length, c) ==
  LET pad == output_dup(" ", Max({0, c.width - length}))
  IN  (IF "-" \notin c.flags THEN pad ELSE <<>>)
      \o SubSeq(string, 1, length)
      \o (IF "-" \in c.flags THEN pad ELSE <<>>)

\* The conversions of an argument to its type.
Unsigned(value, type) == value % 2^Bits[type]
Signed(value, type) ==
  LET u == Unsigned(value, type) IN IF u >= 2^(Bits[type] - 1) THEN u - 2^Bits[type] ELSE u

BaseOf(ch) == CASE ch = "o" -> base_o [] ch = "u" -> base_d [] ch = "x" -> base_x [] ch = "X" -> base_X

\* One conversion; a kind that is not supported takes no argument.
Convert(ch, c) ==
  CASE ch \in {"d", "i"} ->
         LET value == Signed(c.args[1], c.type)
         IN  format_integer(IF value < 0 THEN -value ELSE value, TRUE, value < 0, base_d, c)
    [] ch \in {"o", "u", "x", "X"} ->
         format_integer(Unsigned(c.args[1], c.type), FALSE, FALSE, BaseOf(ch), c)
    [] ch = "c" -> format_string(c.args[1], 1, c)
    [] ch = "s" ->
         LET s == c.args[1]
         IN  format_string(s, IF c.precision < 0 THEN Len(s) ELSE Min({c.precision, Len(s)}), c)
    [] ch = "p" ->
         format_integer(Unsigned(c.args[1], "SIZET"), FALSE, FALSE, base_x, [c EXCEPT !.flags = {"#"}])
    [] OTHER -> <<"no conversion">>

RECURSIVE vprintf(_, _, _)
Converted(s, c, text) ==
  text \o vprintf(s, c.at + 1, IF text = <<"no conversion">> THEN c.args ELSE Tail(c.args))
ConversionOf(s, c) == Converted(s, c, Convert(s[c.at], c))
vprintf(s, i, args) ==
  IF i > Len(s) THEN <<>>
  ELSE IF s[i] # "%" THEN <<s[i]>> \o vprintf(s, i + 1, args)
  ELSE IF s[i + 1] = "%" THEN <<"%">> \o vprintf(s, i + 2, args)
  ELSE ConversionOf(s, parse_conversion(s, i + 1, args))

vsnprintf_helper(aux, ch, max_length) ==
  [p |-> IF aux.length < max_length THEN Append(aux.p, ch) ELSE aux.p, length |-> aux.length + 1]

\* The bytes written to the buffer and the value returned.
Stored(buf_size, aux) ==
  [buffer |-> IF buf_size > 0 THEN Append(aux.p, "NUL") ELSE aux.p, ret |-> aux.length]
vsnprintf(buf_size, format, args) ==
  LET max_length == IF buf_size > 0 THEN buf_size - 1 ELSE 0
  IN  Stored(buf_size, FoldLeft(LAMBDA a, ch : vsnprintf_helper(a, ch, max_length), [p |-> <<>>, length |-> 0],
                                vprintf(format, 1, args)))
-----------------------------------------------------------------------------
RECURSIVE hex_dump(_, _, _)
\* The lines: the offset each is labelled with and the byte in each column
\* that is not blank, in hexadecimal and as characters.
hex_dump(ofs, buf, size) ==
  IF size = 0 THEN <<>>
  ELSE LET start == ofs % PerLine
           end == IF PerLine - start > size THEN start + size ELSE PerLine
           n == end - start
       IN  <<[label |-> ofs - start, column |-> [i \in start .. end - 1 |-> buf + i - start]]>>
           \o hex_dump(ofs + n, buf + n, size - n)

Factors == <<"bytes", "kB", "MB", "GB", "TB">>

RECURSIVE Scale(_, _)
Scale(size, fp) ==
  IF size >= Kilo /\ fp < Len(Factors) THEN Scale(size \div Kilo, fp + 1) ELSE <<size, Factors[fp]>>

print_human_readable_size(size) == IF size = 1 THEN <<1, "byte">> ELSE Scale(size, 1)
-----------------------------------------------------------------------------
None == [kind |-> "none"]

Init == call = None /\ out = None

\* A call with one integer conversion between two literal characters.  A width
\* or precision has its text, the argument it takes and its value.
IntegerCall(flags, w, p, type, conv, value) ==
  [kind |-> IF conv = "p" THEN "pointer" ELSE "integer", flags |-> flags, width |-> w.value, precision |-> p.value,
   type |-> type.name, conv |-> conv, value |-> value, args |-> w.args \o p.args \o <<value>>, buf_size |-> 30,
   format |-> <<"%", "%", "%">> \o SelectSeq(<<"'", "0", "-", "+", " ", "#">>, LAMBDA ch : ch \in flags)
              \o w.text \o p.text \o type.text \o <<conv, "!">>]

snprintf(c) ==
  /\ call = None
  /\ call' = c
  /\ out' = vsnprintf(c.buf_size, c.format, c.args)

Dump(d) ==
  /\ call = None
  /\ call' = d
  /\ out' = [lines |-> hex_dump(d.ofs, 0, d.size)]

HumanReadable(size) ==
  /\ call = None
  /\ call' = [kind |-> "size", size |-> size]
  /\ out' = [text |-> print_human_readable_size(size)]

Done == call # None /\ UNCHANGED vars

FormatInteger ==
  /\ call = None
  /\ \E plan \in Plans : \E flags \in plan.flags, w \in plan.widths, p \in plan.precisions, t \in plan.types,
                            conv \in plan.convs, value \in plan.values :
       snprintf(IntegerCall(flags, w, p, Types[t], conv, value))

Next ==
  \/ FormatInteger
  \/ \E c \in Texts : snprintf(c)
  \/ \E d \in Dumps : Dump(d)
  \/ \E size \in Sizes : HumanReadable(size)
  \/ Done

Spec == Init /\ [][Next]_vars
-----------------------------------------------------------------------------
\* Calls of kind "integer" or "pointer" format call.value as their fields flags,
\* width, precision, type and conv say, between a '%' and a '!'; Field is the
\* text of the value.
IsNumber == call.kind \in {"integer", "pointer"}
Field == SubSeq(out.buffer, 2, out.ret - 1)
Body == SelectSeq(Field, LAMBDA ch : ch \notin {" ", "-", "+", "x", "X"})
Base == IF call.conv \in {"d", "i", "u"} THEN 10 ELSE IF call.conv = "o" THEN 8 ELSE 16
ReadBack ==
  LET abs == FoldLeft(LAMBDA n, ch : IF ch = "," THEN n ELSE n * Base + DigitValue(ch), 0, Body)
  IN  IF \E k \in DOMAIN Field : Field[k] = "-" THEN -abs ELSE abs

\* Read back, the text of an integer is the argument's value in its type; a
\* comma stands before full groups only; and the precision is the least number
\* of digits, commas included: stdio.c:470-547.
IntegerRight ==
  IsNumber =>
    LET bits == Bits[call.type]
        group == IF Base = 16 THEN 4 ELSE 3
        digitsFrom(k) == Len(SelectSeq(SubSeq(Body, k, Len(Body)), LAMBDA ch : ch # ","))
    IN  /\ (ReadBack - call.value) % 2^bits = 0
        /\ ReadBack \in IF call.conv \in {"d", "i"} THEN -2^(bits - 1) .. 2^(bits - 1) - 1 ELSE 0 .. 2^bits - 1
        /\ \A k \in DOMAIN Body : Body[k] = "," => k > 1 /\ digitsFrom(k) % group = 0
        /\ Len(Body) >= call.precision

\* The text fills its field exactly, on the side the '-' flag or a negative
\* width asks for, and is longer only where the number itself is: stdio.c:526,
\* "Calculate number of pad characters to fill field width."
Fills(bare, left) ==
  /\ Len(Field) = Max({call.width, -call.width, Len(bare)})
  /\ left => IsPrefix(bare, Field)
  /\ ~left /\ "0" \notin call.flags => IsSuffix(bare, Field)
FieldExact ==
  call.kind = "integer" =>
    Fills(Convert(call.conv, [parse_conversion(call.format, 4, call.args) EXCEPT !.width = 0]),
          "-" \in call.flags \/ call.width < 0)

\* FieldExact for all formats but those with both a '0' flag and a negative
\* `*' width, which sets '-' behind the check that lets '-' override '0'.
FieldFilled == (call.kind = "integer" /\ ~(call.width < 0 /\ "0" \in call.flags)) => FieldExact

\* snprintf() stores as much of the text as leaves room for the terminator, and
\* returns the length of all of it, whatever the buffer's size: stdio.c:18-24.
Bounded(text) ==
  /\ Len(out.buffer) <= call.buf_size
  /\ out.ret = Len(text)
  /\ call.buf_size > 0 =>
       out.buffer = Append(SubSeq(text, 1, Min({call.buf_size - 1, Len(text)})), "NUL")
BufferBounded == IsNumber \/ call.kind = "text" => Bounded(vprintf(call.format, 1, call.args))

\* hex_dump() shows each byte once, in the line and the column of its offset,
\* however the block lies in the lines: stdio.c:587-591.
DumpRight ==
  call.kind = "dump" =>
    /\ \A k \in 0 .. call.size - 1 :
         LET places == {<<l, i>> \in (DOMAIN out.lines) \X (0 .. PerLine - 1) :
                          i \in DOMAIN out.lines[l].column /\ out.lines[l].column[i] = k}
         IN  /\ Cardinality(places) = 1
             /\ \A pl \in places : out.lines[pl[1]].label + pl[2] = call.ofs + k
    /\ \A l \in DOMAIN out.lines : \A i \in DOMAIN out.lines[l].column :
         out.lines[l].column[i] < call.size

\* A size is shown in the largest unit of which it has at least one, rounded
\* down: stdio.c:639-640.
SizeRight ==
  call.kind = "size" =>
    LET k == (CHOOSE j \in DOMAIN Factors : Factors[j] = out.text[2]) - 1
    IN  \/ out.text = <<1, "byte">> /\ call.size = 1
        \/ /\ out.text[1] * Kilo^k <= call.size /\ call.size < (out.text[1] + 1) * Kilo^k
           /\ out.text[1] >= Kilo => k = Len(Factors) - 1
           /\ k > 0 => out.text[1] > 0
=============================================================================
