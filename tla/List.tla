-------------------------------- MODULE List --------------------------------
(***************************************************************************)
(* lib/kernel/list.c on two lists: the heap of prev and next pointers and  *)
(* every operation store by store.  An operator takes a heap and gives the *)
(* heap after it.                                                          *)
(***************************************************************************)
EXTENDS Integers, Sequences, FiniteSets, Functions

CONSTANTS Elem, Key   \* elements, positive numbers, and what LESS compares
VARIABLE heap

Lists == {1, 2}
NULL == 0
list_head(l) == -l
list_end(l) == -l - 2
Node == Elem \cup {list_head(l) : l \in Lists} \cup {list_end(l) : l \in Lists}
less(a, b) == Key[a] < Key[b]

list_init(h, l) == [h EXCEPT ![list_head(l)] = [prev |-> NULL, next |-> list_end(l)],
                             ![list_end(l)] = [prev |-> list_head(l), next |-> NULL]]
list_begin(h, l) == h[list_head(l)].next
list_rbegin(h, l) == h[list_end(l)].prev
list_next(h, e) == h[e].next
list_prev(h, e) == h[e].prev
list_empty(h, l) == list_begin(h, l) = list_end(l)

\* The elements from a to b (exclusive), as far as they are elements.
RECURSIVE Walk(_, _, _, _)
Walk(h, a, b, fuel) == IF a = b \/ a \notin Elem \/ fuel = 0 THEN <<>> ELSE <<a>> \o Walk(h, h[a].next, b, fuel - 1)
Contents(h, l) == Walk(h, list_begin(h, l), list_end(l), Cardinality(Elem) + 1)
In(l) == Range(Contents(heap, l))
-----------------------------------------------------------------------------
list_insert(h, before, elem) ==
  LET h1 == [h EXCEPT ![elem] = [prev |-> h[before].prev, next |-> before]]
      h2 == [h1 EXCEPT ![h1[before].prev].next = elem]
  IN  [h2 EXCEPT ![before].prev = elem]

list_remove(h, elem) ==
  LET h1 == [h EXCEPT ![h[elem].prev].next = h[elem].next]
  IN  [h1 EXCEPT ![h1[elem].next].prev = h1[elem].prev]

list_splice(h, before, first, end) ==
  IF first = end THEN h
  ELSE LET last == list_prev(h, end)
           h1 == [h EXCEPT ![h[first].prev].next = h[last].next]
           h2 == [h1 EXCEPT ![h1[last].next].prev = h1[first].prev]
           h3 == [h2 EXCEPT ![first].prev = h2[before].prev]
           h4 == [h3 EXCEPT ![last].next = before]
           h5 == [h4 EXCEPT ![h4[before].prev].next = first]
       IN  [h5 EXCEPT ![before].prev = last]

list_push_front(h, l, e) == list_insert(h, list_begin(h, l), e)
list_push_back(h, l, e) == list_insert(h, list_end(l), e)
list_pop_front(h, l) == list_remove(h, list_begin(h, l))
list_pop_back(h, l) == list_remove(h, list_rbegin(h, l))

\* The loop of list_reverse(): each element's pointers are swapped.
RECURSIVE SwapFrom(_, _, _)
SwapFrom(h, e, end) ==
  IF e = end THEN h
  ELSE LET h1 == [h EXCEPT ![e] = [prev |-> h[e].next, next |-> h[e].prev]]
       IN  SwapFrom(h1, h1[e].prev, end)

list_reverse(h, l) ==
  IF list_empty(h, l) THEN h
  ELSE LET hd == list_head(l)
           tl == list_end(l)
           h1 == SwapFrom(h, list_begin(h, l), tl)
           h2 == [h1 EXCEPT ![hd].next = h1[tl].prev, ![tl].prev = h1[hd].next]
           f == h2[hd].next
           b == h2[tl].prev
       IN  [h2 EXCEPT ![f].prev = h2[b].next, ![b].next = h2[f].prev]
-----------------------------------------------------------------------------
RECURSIVE is_sorted(_, _, _)
is_sorted(h, a, b) ==
  IF a = b \/ list_next(h, a) = b THEN TRUE
  ELSE ~less(list_next(h, a), a) /\ is_sorted(h, list_next(h, a), b)

RECURSIVE find_end_of_run(_, _, _)
find_end_of_run(h, a, b) ==
  LET n == list_next(h, a) IN IF n # b /\ ~less(n, a) THEN find_end_of_run(h, n, b) ELSE n

RECURSIVE inplace_merge(_, _, _, _)

\* Faulty: of equal elements the later goes first.
MergeUnstable(h, a0, a1b0, b1) ==
  IF a0 = a1b0 \/ a1b0 = b1 THEN h
  ELSE IF less(a0, a1b0) THEN inplace_merge(h, list_next(h, a0), a1b0, b1)
  ELSE LET n == list_next(h, a1b0) IN inplace_merge(list_splice(h, a0, list_prev(h, n), n), a0, n, b1)

inplace_merge(h, a0, a1b0, b1) ==
  IF a0 = a1b0 \/ a1b0 = b1 THEN h
  ELSE IF ~less(a1b0, a0) THEN inplace_merge(h, list_next(h, a0), a1b0, b1)
  ELSE LET n == list_next(h, a1b0) IN inplace_merge(list_splice(h, a0, list_prev(h, n), n), a0, n, b1)

\* One pass of list_sort() from a0 on, and how many runs it put out.
RECURSIVE SortPass(_, _, _, _)
SortPass(h, l, a0, output_run_cnt) ==
  LET end == list_end(l)
      a1b0 == find_end_of_run(h, a0, end)
      b1 == find_end_of_run(h, a1b0, end)
  IN  IF a0 = end THEN <<h, output_run_cnt>>
      ELSE IF a1b0 = end THEN <<h, output_run_cnt + 1>>
      ELSE SortPass(inplace_merge(h, a0, a1b0, b1), l, b1, output_run_cnt + 1)

RECURSIVE list_sort(_, _)
list_sort(h, l) ==
  LET pass == SortPass(h, l, list_begin(h, l), 0)
  IN  IF pass[2] > 1 THEN list_sort(pass[1], l) ELSE pass[1]

\* Where list_insert_ordered() stops.
RECURSIVE FirstGreater(_, _, _, _)
FirstGreater(h, e, end, elem) ==
  IF e = end \/ less(elem, e) THEN e ELSE FirstGreater(h, list_next(h, e), end, elem)

list_insert_ordered(h, l, elem) == list_insert(h, FirstGreater(h, list_begin(h, l), list_end(l), elem), elem)

\* The loop of list_unique(), for elements after elem.
RECURSIVE UniqueFrom(_, _, _, _)
UniqueFrom(h, l, elem, duplicates) ==
  LET next == list_next(h, elem)
      h1 == list_remove(h, next)
  IN  IF next = list_end(l) THEN h
      ELSE IF ~less(elem, next) /\ ~less(next, elem)
      THEN UniqueFrom(IF duplicates # NULL THEN list_push_back(h1, duplicates, next) ELSE h1, l, elem, duplicates)
      ELSE UniqueFrom(h, l, next, duplicates)

list_unique(h, l, duplicates) ==
  IF list_empty(h, l) THEN h ELSE UniqueFrom(h, l, list_begin(h, l), duplicates)

RECURSIVE list_size_from(_, _, _)
list_size_from(h, e, end) == IF e = end THEN 0 ELSE 1 + list_size_from(h, list_next(h, e), end)
list_size(h, l) == list_size_from(h, list_begin(h, l), list_end(l))

\* The loops of list_max() and list_min(), with the best element so far.
RECURSIVE MaxFrom(_, _, _, _)
MaxFrom(h, e, end, best) == IF e = end THEN best ELSE MaxFrom(h, list_next(h, e), end, IF less(best, e) THEN e ELSE best)
RECURSIVE MinFrom(_, _, _, _)

MinFrom(h, e, end, best) == IF e = end THEN best ELSE MinFrom(h, list_next(h, e), end, IF less(e, best) THEN e ELSE best)

list_max(h, l) == IF list_empty(h, l) THEN list_end(l) ELSE MaxFrom(h, list_next(h, list_begin(h, l)), list_end(l), list_begin(h, l))
list_min(h, l) == IF list_empty(h, l) THEN list_end(l) ELSE MinFrom(h, list_next(h, list_begin(h, l)), list_end(l), list_begin(h, l))
-----------------------------------------------------------------------------
Init == heap = list_init(list_init([n \in Node |-> [prev |-> NULL, next |-> NULL]], 1), 2)

Free == Elem \ (In(1) \cup In(2))

\* The positions an element may be inserted before: interior or tail.
Before(l) == In(l) \cup {list_end(l)}

Next ==
  \E l \in Lists :
    \/ \E e \in Free, b \in Before(l) : heap' = list_insert(heap, b, e)
    \/ \E e \in Free : heap' = list_push_front(heap, l, e)
    \/ \E e \in Free : heap' = list_push_back(heap, l, e)
    \/ \E e \in In(l) : heap' = list_remove(heap, e)
    \/ ~list_empty(heap, l) /\ heap' = list_pop_front(heap, l)
    \/ ~list_empty(heap, l) /\ heap' = list_pop_back(heap, l)
    \/ \E first \in In(l), end \in Before(l), m \in Lists : \E b \in Before(m) :
         LET moved == Walk(heap, first, end, Cardinality(Elem) + 1) IN
         /\ end \in Range(<<first>> \o [i \in 1 .. Len(moved) |-> list_next(heap, moved[i])])
         /\ b \notin Range(moved)
         /\ heap' = list_splice(heap, b, first, end)
    \/ heap' = list_reverse(heap, l)
    \/ heap' = list_sort(heap, l)
    \/ \E e \in Free : /\ is_sorted(heap, list_begin(heap, l), list_end(l))
                       /\ heap' = list_insert_ordered(heap, l, e)
    \/ \E d \in {NULL, 3 - l} : heap' = list_unique(heap, l, d)

Spec == Init /\ [][Next]_heap
-----------------------------------------------------------------------------
Abs == INSTANCE ListSeq WITH s <- [l \in Lists |-> Contents(heap, l)]

(* Followed forwards, the pointers are the sequences list.h promises: each *)
(* operation does to them what it does to sequences, sorting is stable and *)
(* no element is lost or duplicated.                                       *)
ListRefines == Abs!Spec

(* Followed backwards, the pointers are the same sequences.                *)
PrevInverse ==
  \A l \in Lists : /\ \A n \in In(l) \cup {list_head(l)} : heap[heap[n].next].prev = n
                   /\ heap[list_head(l)].prev = NULL /\ heap[list_end(l)].next = NULL

(* list_size(), list_max() and list_min(): the count, and of several       *)
(* extreme elements the earliest; the tail if there is none.               *)
QueriesRight ==
  \A l \in Lists :
    LET q == Contents(heap, l)
        earliest(e, better(_, _)) ==
          IF q = <<>> THEN e = list_end(l)
          ELSE \E i \in 1 .. Len(q) : /\ e = q[i]
                                      /\ \A j \in 1 .. i - 1 : better(q[i], q[j])
                                      /\ \A j \in i .. Len(q) : ~better(q[j], q[i])
        greater(a, b) == less(b, a)
    IN  list_size(heap, l) = Len(q) /\ earliest(list_max(heap, l), greater) /\ earliest(list_min(heap, l), less)
==============================================================================
