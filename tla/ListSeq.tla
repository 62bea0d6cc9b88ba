------------------------------- MODULE ListSeq -------------------------------
(***************************************************************************)
(* What lib/kernel/list.h promises: two lists are two sequences of         *)
(* distinct elements, ordered by Key where the operation takes a LESS.     *)
(***************************************************************************)
EXTENDS Integers, SequencesExt

CONSTANTS Elem, Key
VARIABLE s   \* s[l]: the elements of list l

Lists == {1, 2}
Free == Elem \ (Range(s[1]) \cup Range(s[2]))
less(a, b) == Key[a] < Key[b]
Sorted(q) == \A i, j \in 1 .. Len(q) : i < j => ~less(q[j], q[i])

Init == s = [l \in Lists |-> <<>>]

Insert(l, i, e) == s' = [s EXCEPT ![l] = InsertAt(@, i, e)]
Removed(l, i) == s' = [s EXCEPT ![l] = RemoveAt(@, i)]
Reversed(l) == s' = [s EXCEPT ![l] = Reverse(@)]

\* Elements i to j-1 of list l go before element k of list m.
Splice(l, i, j, m, k) ==
  LET cut(q, a, b) == SubSeq(q, a, b - 1)
      q == s[l]
      moved == cut(q, i, j)
  IN  IF l # m
      THEN s' = [s EXCEPT ![l] = cut(q, 1, i) \o cut(q, j, Len(q) + 1),
                          ![m] = cut(@, 1, k) \o moved \o cut(@, k, Len(@) + 1)]
      ELSE IF k <= i
      THEN s' = [s EXCEPT ![l] = cut(q, 1, k) \o moved \o cut(q, k, i) \o cut(q, j, Len(q) + 1)]
      ELSE s' = [s EXCEPT ![l] = cut(q, 1, i) \o cut(q, j, k) \o moved \o cut(q, k, Len(q) + 1)]

\* A stable sort.
Sort(l) ==
  LET q == s[l] IN
  \E p \in {f \in [1 .. Len(q) -> 1 .. Len(q)] : \A i, j \in 1 .. Len(q) : i # j => f[i] # f[j]} :
    /\ \A i, j \in 1 .. Len(q) : i < j =>
         \/ less(q[p[i]], q[p[j]])
         \/ ~less(q[p[j]], q[p[i]]) /\ p[i] < p[j]
    /\ s' = [s EXCEPT ![l] = [i \in 1 .. Len(q) |-> q[p[i]]]]

\* After its equals.
InsertOrdered(l, e) ==
  /\ Sorted(s[l])
  /\ \E i \in 1 .. Len(s[l]) + 1 :
       /\ \A k \in 1 .. i - 1 : ~less(e, s[l][k])
       /\ \A k \in i .. Len(s[l]) : less(e, s[l][k])
       /\ Insert(l, i, e)

\* The elements of q at indices ix, in order.
Picked(q, ix) == LET o == SetToSortSeq(ix, <) IN [k \in 1 .. Len(o) |-> q[o[k]]]

\* Of adjacent equals only the first stays; the others go to the end of list d, if any.
Unique(l, d) ==
  LET q == s[l]
      same(a, b) == ~less(a, b) /\ ~less(b, a)
      dups == {i \in 2 .. Len(q) : same(q[i - 1], q[i])}
  IN  s' = [k \in Lists |-> CASE k = l -> Picked(q, (1 .. Len(q)) \ dups)
                              [] k # l /\ k = d -> s[k] \o Picked(q, dups)
                              [] OTHER -> s[k]]

Next ==
  \E l \in Lists :
    \/ \E e \in Free : InsertOrdered(l, e) \/ \E i \in 1 .. Len(s[l]) + 1 : Insert(l, i, e)
    \/ \E i \in 1 .. Len(s[l]) : Removed(l, i)
    \/ Reversed(l) \/ Sort(l)
    \/ \E d \in {0, 3 - l} : Unique(l, d)
    \/ \E m \in Lists, i \in 1 .. Len(s[l]), j \in 1 .. Len(s[l]) + 1 : \E k \in 1 .. Len(s[m]) + 1 :
         i < j /\ (l = m => k \notin i .. j - 1) /\ Splice(l, i, j, m, k)

Spec == Init /\ [][Next]_s
==============================================================================
