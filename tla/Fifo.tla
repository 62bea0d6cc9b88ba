-------------------------------- MODULE Fifo --------------------------------
(***************************************************************************)
(* What an interrupt queue promises: a bounded first-in first-out buffer.  *)
(* out is the last byte taken out.                                         *)
(***************************************************************************)
EXTENDS Integers, Sequences

CONSTANTS Byte, Capacity

VARIABLES q, out

Init == q = <<>> /\ out \notin Byte

Put(b) == Len(q) < Capacity /\ q' = Append(q, b) /\ UNCHANGED out

Get == q # <<>> /\ out' = Head(q) /\ q' = Tail(q)

\* A full buffer makes room for b by giving up its oldest byte.
Exchange(b) == Len(q) = Capacity /\ out' = Head(q) /\ q' = Append(Tail(q), b)

\* All bytes are taken, in order.
Drain == q # <<>> /\ out' = q[Len(q)] /\ q' = <<>>

Next == (\E b \in Byte : Put(b) \/ Exchange(b)) \/ Get \/ Drain

Spec == Init /\ [][Next]_<<q, out>>
=============================================================================
