----------------------------- MODULE Arithmetic -----------------------------
(***************************************************************************)
(* lib/arithmetic.c: 64-bit division from 32-bit instructions, at any      *)
(* width: a word has Half = 32 bits, a double word twice as many.          *)
(***************************************************************************)
EXTENDS Integers, SequencesExt

CONSTANTS Half, Steps   \* Steps: Half/2, Half/4, ..., 1, as in nlz()
b == 2 ^ Half           \* 1ULL << 32
Double == b * b         \* double words are 0 .. Double - 1

VARIABLES n, d, res     \* operands and results
vars == <<n, d, res>>

\* The DIVL instruction; it traps if the quotient is not a word.
divl(x, y) == x \div y
Traps(x, y) == divl(x, y) >= b

\* Each step looks at the top k bits, and shifts them out if they are zero.
nlz(x) ==
  FoldLeft(LAMBDA acc, k : IF acc.x < 2 ^ (Half - k) THEN [n |-> acc.n + k, x |-> (acc.x * 2 ^ k) % b] ELSE acc,
           [n |-> 0, x |-> x], Steps).n

\* The divisor's top word and the dividend of the long division in udiv64().
Normal(y) == (((y * 2 ^ nlz(y \div b)) % Double) \div b)

\* Faulty: the estimate is taken as it is.
udiv64_estimate(x, y) ==
  IF y \div b = 0
  THEN divl(b * ((x \div b) % y) + (x % b), y) + b * ((x \div b) \div y)
  ELSE IF x < y THEN 0
  ELSE divl(x \div 2, Normal(y)) \div 2 ^ (Half - 1 - nlz(y \div b))

udiv64(x, y) ==
  IF y \div b = 0
  THEN divl(b * ((x \div b) % y) + (x % b), y) + b * ((x \div b) \div y)
  ELSE IF x < y THEN 0
  ELSE LET e == divl(x \div 2, Normal(y)) \div 2 ^ (Half - 1 - nlz(y \div b))
       IN  IF (x - (e - 1) * y) % Double < y THEN e - 1 ELSE e

\* Whether one of the divisions above traps.
udiv64_traps(x, y) ==
  IF y \div b = 0 THEN Traps(b * ((x \div b) % y) + (x % b), y)
  ELSE x >= y /\ Traps(x \div 2, Normal(y))

\* uint32_t umod64().
umod64(x, y) == (x - y * udiv64(x, y)) % b

Negative(x) == x >= Double \div 2
Signed(x) == IF Negative(x) THEN x - Double ELSE x
Neg(x) == (-x) % Double
Abs(x) == IF Negative(x) THEN Neg(x) ELSE x

sdiv64(x, y) ==
  LET q_abs == udiv64(Abs(x), Abs(y))
  IN  IF Negative(x) = Negative(y) THEN q_abs ELSE Neg(q_abs)

\* int32_t smod64(), sign-extended by its caller.
smod64(x, y) ==
  LET r == (x - y * sdiv64(x, y)) % b
  IN  IF r >= b \div 2 THEN (r - b) % Double ELSE r

None == [done |-> FALSE, udiv |-> 0, umod |-> 0, sdiv |-> 0, smod |-> 0, traps |-> FALSE]

Init == n \in 0 .. Double - 1 /\ d \in 1 .. Double - 1 /\ res = None

\* __udivdi3(), __umoddi3(), __divdi3() and __moddi3() of n and d.
Divide ==
  /\ ~res.done
  /\ res' = [done |-> TRUE, udiv |-> udiv64(n, d), umod |-> umod64(n, d),
             sdiv |-> sdiv64(n, d), smod |-> smod64(n, d),
             traps |-> udiv64_traps(n, d) \/ udiv64_traps(Abs(n), Abs(d))]
  /\ UNCHANGED <<n, d>>

Done == res.done /\ UNCHANGED vars

Next == Divide \/ Done
Spec == Init /\ [][Next]_vars
-----------------------------------------------------------------------------
\* Division that truncates towards zero, of the numbers the words stand for.
Truncated(x, y) ==
  LET m(v) == IF v < 0 THEN -v ELSE v
  IN  IF (x < 0) = (y < 0) THEN m(x) \div m(y) ELSE -(m(x) \div m(y))

(* No 32-bit division traps, and the quotients are right for every pair of *)
(* operands, with and without sign.                                        *)
QuotientRight ==
  res.done => /\ ~res.traps
              /\ res.udiv = n \div d
              /\ res.sdiv = Truncated(Signed(n), Signed(d)) % Double

(* The remainders are right where they fit in a word, as they do for every *)
(* divisor that is a word: umod64() and smod64() return 32 bits.           *)
RemainderOfWord ==
  res.done => /\ d < b => res.umod = n % d
              /\ Abs(d) <= b \div 2 =>
                   res.smod = (Signed(n) - Signed(d) * Truncated(Signed(n), Signed(d))) % Double
=============================================================================
