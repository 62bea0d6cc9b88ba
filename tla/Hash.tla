-------------------------------- MODULE Hash --------------------------------
(***************************************************************************)
(* lib/kernel/hash.c: buckets of elements, a count, and rehashing, which   *)
(* may fail for want of memory.  A bucket is the sequence its list is.     *)
(***************************************************************************)
EXTENDS Integers, SequencesExt

CONSTANTS
  Elem, NULL,
  Key, HashOf,            \* what LESS compares and what HASH returns
  MinBuckets,             \* 4 in the code
  BEST_ELEMS_PER_BUCKET   \* 2 in the code

VARIABLES
  buckets,    \* buckets[i]: bucket i, counted from 1
  elem_cnt,
  ret         \* what the last operation returned
vars == <<buckets, elem_cnt, ret>>

Elems(b) == UNION {Range(b[i]) : i \in 1 .. Len(b)}
Empty(n) == [i \in 1 .. n |-> <<>>]

\* The bucket count is a power of two, so masking the hash is the remainder.
find_bucket(cnt, e) == (HashOf[e] % cnt) + 1

find_elem(b, e) ==
  LET i == SelectInSeq(b, LAMBDA x : Key[x] = Key[e]) IN IF i = 0 THEN NULL ELSE b[i]

\* hash_init().
Init == buckets = Empty(MinBuckets) /\ elem_cnt = 0 /\ ret = NULL

turn_off_least_1bit(x) == x - Max({p \in {2 ^ k : k \in 0 .. x} : x % p = 0})
is_power_of_2(x) == x # 0 /\ turn_off_least_1bit(x) = 0

RECURSIVE TurnOff(_)
TurnOff(x) == IF is_power_of_2(x) THEN x ELSE TurnOff(turn_off_least_1bit(x))

new_bucket_cnt(cnt) ==
  LET n == cnt \div BEST_ELEMS_PER_BUCKET IN TurnOff(IF n < MinBuckets THEN MinBuckets ELSE n)

\* Faulty: buckets are chosen with the mask of the old table.
MoveOldMask(old, new) ==
  FoldLeft(LAMBDA b, e : [b EXCEPT ![find_bucket(IF Len(old) < Len(b) THEN Len(old) ELSE Len(b), e)] = <<e>> \o @],
           new, FlattenSeq(old))

\* The elements of old, bucket by bucket, each put in front of its new bucket.
Move(old, new) ==
  FoldLeft(LAMBDA b, e : [b EXCEPT ![find_bucket(Len(b), e)] = <<e>> \o @], new, FlattenSeq(old))

(* rehash() of buckets b with cnt elements; the allocation may fail.       *)
rehash(b, cnt) ==
  \/ buckets' = b
  \/ new_bucket_cnt(cnt) # Len(b) /\ buckets' = Move(b, Empty(new_bucket_cnt(cnt)))
-----------------------------------------------------------------------------
bucket(e) == find_bucket(Len(buckets), e)
old(e) == find_elem(buckets[bucket(e)], e)
insert_elem(b, e) == [b EXCEPT ![bucket(e)] = <<e>> \o @]
remove_elem(b, e) == [b EXCEPT ![bucket(e)] = Remove(@, e)]

\* Faulty: an equal element in the table is not looked for.
InsertTwice(new) ==
  /\ new \notin Elems(buckets) /\ elem_cnt' = elem_cnt + 1
  /\ rehash(insert_elem(buckets, new), elem_cnt + 1) /\ ret' = NULL

hash_insert(new) ==
  LET cnt == IF old(new) = NULL THEN elem_cnt + 1 ELSE elem_cnt
      b == IF old(new) = NULL THEN insert_elem(buckets, new) ELSE buckets
  IN  new \notin Elems(buckets) /\ elem_cnt' = cnt /\ rehash(b, cnt) /\ ret' = old(new)

hash_replace(new) ==
  LET cnt == IF old(new) = NULL THEN elem_cnt + 1 ELSE elem_cnt
      b == IF old(new) # NULL THEN remove_elem(buckets, old(new)) ELSE buckets
  IN  new \notin Elems(buckets) /\ elem_cnt' = cnt /\ rehash(insert_elem(b, new), cnt) /\ ret' = old(new)

hash_find(e) == ret' = old(e) /\ UNCHANGED <<buckets, elem_cnt>>

hash_delete(e) ==
  /\ ret' = old(e)
  /\ IF old(e) = NULL THEN UNCHANGED <<buckets, elem_cnt>>
     ELSE elem_cnt' = elem_cnt - 1 /\ rehash(remove_elem(buckets, old(e)), elem_cnt - 1)

\* The table keeps its size.
hash_clear == buckets' = Empty(Len(buckets)) /\ elem_cnt' = 0 /\ ret' = NULL

Next == hash_clear \/ \E e \in Elem : hash_insert(e) \/ hash_replace(e) \/ hash_find(e) \/ hash_delete(e)
Spec == Init /\ [][Next]_vars
-----------------------------------------------------------------------------
(* The iterator <<bucket, position>>: hash_first() is before the first     *)
(* element of the first bucket.  hash_next() skips empty buckets.          *)
hash_first == <<1, 0>>

RECURSIVE hash_next(_)
hash_next(i) ==
  IF i[2] < Len(buckets[i[1]]) THEN <<i[1], i[2] + 1>>
  ELSE IF i[1] = Len(buckets) THEN NULL
  ELSE hash_next(<<i[1] + 1, 0>>)

RECURSIVE VisitedFrom(_)
VisitedFrom(i) == IF hash_next(i) = NULL THEN <<>>
                  ELSE LET n == hash_next(i) IN <<buckets[n[1]][n[2]]>> \o VisitedFrom(n)

Dictionary == INSTANCE Dict WITH d <- Elems(buckets)

(* Every operation, with a table resized or left too small or too large by *)
(* a failed allocation, does to the elements and returns what the same     *)
(* operation of a dictionary does.                                         *)
HashRefines == Dictionary!Spec

(* Every element is in the bucket its hash selects, once, and counted: an  *)
(* element elsewhere would be lost to hash_find().                         *)
BucketsRight ==
  /\ \A i \in 1 .. Len(buckets) : \A k \in 1 .. Len(buckets[i]) : bucket(buckets[i][k]) = i
  /\ Len(FlattenSeq(buckets)) = Cardinality(Elems(buckets))
  /\ elem_cnt = Cardinality(Elems(buckets))
  /\ is_power_of_2(Len(buckets))

(* Iterating with hash_first() and hash_next() visits each element once.   *)
IterationComplete == LET v == VisitedFrom(hash_first) IN Range(v) = Elems(buckets) /\ Len(v) = elem_cnt
=============================================================================
