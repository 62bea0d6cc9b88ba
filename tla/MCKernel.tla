------------------------------ MODULE MCKernel ------------------------------
(* Small instances of the kernel for model checking.                        *)
EXTENDS Kernel, TLC

CONSTANTS L, C

MCLockOf == [c \in Condition |-> L]

\* timer_sleep() is called with zero and negative arguments too.
MCSleeps == {-1, 0, 3}

\* Pages other than the initial thread's are interchangeable.
PageSymmetry == Permutations(Thread \ {Main})
=============================================================================
