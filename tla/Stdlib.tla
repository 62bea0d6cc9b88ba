------------------------------- MODULE Stdlib -------------------------------
(***************************************************************************)
(* lib/stdlib.c: heap sort, binary search and atoi(), over every array of  *)
(* a few values and every string of a few characters.  Arrays have indices *)
(* from 1, as in the code's helpers.                                       *)
(***************************************************************************)
EXTENDS Integers, SequencesExt

CONSTANTS
  Values, MaxCnt,   \* values of array elements, longest array
  Chars, MaxChars,  \* characters of strings (ASCII codes), longest string
  IntMax            \* int is -IntMax - 1 .. IntMax

VARIABLES array, str, res
vars == <<array, str, res>>

do_compare(a, i, j) == a[i] - a[j]
do_swap(a, i, j) == [a EXCEPT ![i] = a[j], ![j] = a[i]]

RECURSIVE heapify(_, _, _)

heapify(a, i, cnt) ==
  LET left == 2 * i
      right == 2 * i + 1
      m1 == IF left <= cnt /\ do_compare(a, left, i) > 0 THEN left ELSE i
      max == IF right <= cnt /\ do_compare(a, right, m1) > 0 THEN right ELSE m1
  IN  IF max = i THEN a ELSE heapify(do_swap(a, i, max), max, cnt)

Down(from, to) == [k \in 1 .. from - to + 1 |-> from - k + 1]

sort(a) ==
  LET cnt == Len(a)
      heap == FoldLeft(LAMBDA x, i : heapify(x, i, cnt), a, Down(cnt \div 2, 1))
  IN  FoldLeft(LAMBDA x, i : heapify(do_swap(x, 1, i), 1, i - 1), heap, Down(cnt, 2))

\* The loop of binary_search() on elements first to last - 1; 0 is the null pointer.
RECURSIVE SearchIn(_, _, _, _)

SearchIn(key, a, first, last) ==
  LET middle == first + ((last - first) \div 2)
  IN  IF first >= last THEN 0
      ELSE IF key < a[middle] THEN SearchIn(key, a, first, middle)
      ELSE IF key > a[middle] THEN SearchIn(key, a, middle + 1, last)
      ELSE middle

binary_search(key, a) == SearchIn(key, a, 1, Len(a) + 1)
-----------------------------------------------------------------------------
Plus == 43
Minus == 45
isdigit == 48 .. 57
isspace == {32}

\* Where the longest run from i on of characters in class ends.
RunEnd(s, i, class) == CHOOSE j \in i .. Len(s) + 1 :
  (\A k \in i .. j - 1 : s[k] \in class) /\ (j > Len(s) \/ s[j] \notin class)

\* The values atoi() computes, digit by digit, counting downwards.
Accumulate(digits) ==
  FoldLeft(LAMBDA acc, c : Append(acc, acc[Len(acc)] * 10 - (c - 48)), <<0>>, digits)

atoi(s) ==
  LET start == RunEnd(s, 1, isspace)
      signed == start <= Len(s) /\ s[start] \in {Plus, Minus}
      first == IF signed THEN start + 1 ELSE start
      steps == Accumulate(SubSeq(s, first, RunEnd(s, first, isdigit) - 1))
      value == steps[Len(steps)]
      negative == signed /\ s[start] = Minus
  IN  [value |-> IF negative THEN value ELSE -value, steps |-> steps]
-----------------------------------------------------------------------------
None == [done |-> FALSE]

Init ==
  /\ res = None
  /\ \/ array \in BoundedSeq(Values, MaxCnt) /\ str = <<>>
     \/ array = <<>> /\ str \in BoundedSeq(Chars, MaxChars)

Run ==
  /\ ~res.done
  /\ res' = [done |-> TRUE, sorted |-> sort(array), found |-> [v \in Values |-> binary_search(v, sort(array))],
             number |-> atoi(str)]
  /\ UNCHANGED <<array, str>>

Done == res.done /\ UNCHANGED vars
Next == Run \/ Done
Spec == Init /\ [][Next]_vars
-----------------------------------------------------------------------------
Count(a, v) == Cardinality({i \in 1 .. Len(a) : a[i] = v})

(* Heap sort puts any array in order, with every element it had.           *)
SortRight ==
  res.done => /\ \A i \in 1 .. Len(array) - 1 : res.sorted[i] <= res.sorted[i + 1]
              /\ Len(res.sorted) = Len(array)
              /\ \A v \in Values : Count(res.sorted, v) = Count(array, v)

(* Binary search finds a key if and only if the sorted array has it.       *)
SearchRight ==
  res.done => \A v \in Values :
    IF v \in Range(array) THEN res.found[v] \in DOMAIN array /\ res.sorted[res.found[v]] = v ELSE res.found[v] = 0

\* The number at the start of a string: spaces, a sign, digits.
Number(s) ==
  LET k == SelectInSeq(s, LAMBDA c : c # 32)
      sign == IF k # 0 /\ s[k] = Minus THEN -1 ELSE 1
      digits == IF k = 0 THEN <<>> ELSE SubSeq(s, IF s[k] \in {Plus, Minus} THEN k + 1 ELSE k, Len(s))
      m == SelectInSeq(digits, LAMBDA c : c \notin 48 .. 57)
      run == IF m = 0 THEN digits ELSE SubSeq(digits, 1, m - 1)
  IN  sign * FoldLeft(LAMBDA v, c : v * 10 + (c - 48), 0, run)

(* atoi() gives the number its string starts with, for every number an int *)
(* can hold, and none of its steps overflows on the way, the smallest int  *)
(* included ("the negative range of an int is bigger").                    *)
AtoiRight ==
  res.done /\ Number(str) \in -IntMax - 1 .. IntMax =>
    /\ res.number.value = Number(str)
    /\ \A i \in 1 .. Len(res.number.steps) : res.number.steps[i] \in -IntMax - 1 .. IntMax
=============================================================================
