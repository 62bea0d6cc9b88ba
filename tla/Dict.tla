-------------------------------- MODULE Dict --------------------------------
(***************************************************************************)
(* What lib/kernel/hash.h promises: a set of elements with distinct keys,  *)
(* and what each operation returns.                                        *)
(***************************************************************************)
CONSTANTS Elem, Key, NULL
VARIABLES d, ret

Equal(e) == {x \in d : Key[x] = Key[e]}
Found(e) == IF Equal(e) = {} THEN NULL ELSE CHOOSE x \in Equal(e) : TRUE

Init == d = {} /\ ret = NULL
Insert(e)  == e \notin d /\ d' = (IF Equal(e) = {} THEN d \cup {e} ELSE d) /\ ret' = Found(e)
Replace(e) == e \notin d /\ d' = (d \ Equal(e)) \cup {e} /\ ret' = Found(e)
Find(e)    == d' = d /\ ret' = Found(e)
Delete(e)  == d' = d \ Equal(e) /\ ret' = Found(e)
Clear      == d' = {} /\ ret' = NULL

Next == Clear \/ \E e \in Elem : Insert(e) \/ Replace(e) \/ Find(e) \/ Delete(e)
Spec == Init /\ [][Next]_<<d, ret>>
=============================================================================
