------------------------------- MODULE Bitmap -------------------------------
(***************************************************************************)
(* lib/kernel/bitmap.c.  A bitmap is a function from 0 .. bit_cnt - 1 to   *)
(* BOOLEAN.  The operators give the bitmap, or the value, that a function  *)
(* returns when nobody interferes; code that shares a bitmap takes their   *)
(* loops apart (module Palloc).  Elements matter only in files, where a    *)
(* bitmap occupies whole elements.                                         *)
(***************************************************************************)
EXTENDS Integers, FiniteSets

CONSTANT ELEM_BITS  \* bits per element

BITMAP_ERROR == -1

bitmap_create(bit_cnt) == [i \in 0 .. bit_cnt - 1 |-> FALSE]
bitmap_size(b)         == Cardinality(DOMAIN b)
elem_cnt(bit_cnt)      == (bit_cnt + ELEM_BITS - 1) \div ELEM_BITS

bitmap_set(b, idx, value) == [b EXCEPT ![idx] = value]
bitmap_mark(b, idx)       == bitmap_set(b, idx, TRUE)
bitmap_reset(b, idx)      == bitmap_set(b, idx, FALSE)
bitmap_flip(b, idx)       == [b EXCEPT ![idx] = ~@]
bitmap_test(b, idx)       == b[idx]

\* The bits start .. start + cnt - 1.
Group(start, cnt) == start .. start + cnt - 1

bitmap_set_multiple(b, start, cnt, value) ==
  [i \in DOMAIN b |-> IF i \in Group(start, cnt) THEN value ELSE b[i]]

bitmap_set_all(b, value) == bitmap_set_multiple(b, 0, bitmap_size(b), value)

bitmap_count(b, start, cnt, value) ==
  Cardinality({i \in Group(start, cnt) : bitmap_test(b, i) = value})

bitmap_contains(b, start, cnt, value) ==
  \E i \in Group(start, cnt) : bitmap_test(b, i) = value

bitmap_any(b, start, cnt)  == bitmap_contains(b, start, cnt, TRUE)
bitmap_none(b, start, cnt) == ~bitmap_contains(b, start, cnt, TRUE)
bitmap_all(b, start, cnt)  == ~bitmap_contains(b, start, cnt, FALSE)

\* Faulty: the last position at which a group fits is never tried.
bitmap_scan_short(b, start, cnt, value) ==
  LET found == {i \in start .. bitmap_size(b) - cnt - 1 : ~bitmap_contains(b, i, cnt, ~value)}
  IN  IF found = {} THEN BITMAP_ERROR ELSE CHOOSE i \in found : \A j \in found : i <= j

(* The loop returns the first position that passes its test; when cnt      *)
(* exceeds the size there is none.                                         *)
bitmap_scan(b, start, cnt, value) ==
  LET found == {i \in start .. bitmap_size(b) - cnt : ~bitmap_contains(b, i, cnt, ~value)}
  IN  IF found = {} THEN BITMAP_ERROR ELSE CHOOSE i \in found : \A j \in found : i <= j

\* The bitmap bitmap_scan_and_flip() leaves; it returns bitmap_scan()'s result.
bitmap_scan_and_flip(b, start, cnt, value) ==
  LET idx == bitmap_scan(b, start, cnt, value)
  IN  IF idx = BITMAP_ERROR THEN b ELSE bitmap_set_multiple(b, idx, cnt, ~value)

\* What bitmap_write() puts into a file: elem_cnt() elements, the rest clear.
bitmap_write(b) ==
  [i \in 0 .. elem_cnt(bitmap_size(b)) * ELEM_BITS - 1 |-> i \in DOMAIN b /\ b[i]]

(* The bitmap bitmap_read() leaves; last_mask() drops what lies beyond it. *)
bitmap_read(b, file) == [i \in DOMAIN b |-> file[i]]
=============================================================================
