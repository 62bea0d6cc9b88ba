------------------------------- MODULE Random -------------------------------
(* lib/random.c: the generator's box s[] and its two indices.  Bytes have     *)
(* Size values instead of 256, and a seed is a sequence of such bytes.        *)
EXTENDS Integers, Sequences, SequencesExt

CONSTANTS Size, Seeds, MaxBytes, MaxInits

VARIABLES
  s, s_i, s_j, inited,
  seed,          \* the seed of the last initialisation
  drawn,         \* the bytes returned since
  inits

vars == <<s, s_i, s_j, inited, seed, drawn, inits>>

Byte == 0 .. Size - 1

swap_byte(f, a, b) == [f EXCEPT ![a] = f[b], ![b] = f[a]]

\* The box after the key's bytes have stirred it.
Stirred(key) ==
  LET Stir(st, i) == LET j == (st.j + st.f[i] + key[(i % Len(key)) + 1]) % Size
                     IN  [f |-> swap_byte(st.f, i, j), j |-> j]
  IN  FoldLeft(Stir, [f |-> [i \in Byte |-> i], j |-> 0], [i \in 1 .. Size |-> i - 1]).f

\* One byte: the state and the value after it.
Advance(st) ==
  LET i == (st.i + 1) % Size
      j == (st.j + st.f[i]) % Size
      f == swap_byte(st.f, i, j)
  IN  [f |-> f, i |-> i, j |-> j, out |-> Append(st.out, f[(f[i] + f[j]) % Size])]

Zero == CHOOSE key \in Seeds : \A i \in DOMAIN key : key[i] = 0

\* Before the first use, and after the BSS is cleared.
Init ==
  /\ s = [i \in Byte |-> 0] /\ s_i = 0 /\ s_j = 0 /\ inited = FALSE
  /\ seed = Zero /\ drawn = <<>> /\ inits = 0

random_init(key) ==
  /\ inits < MaxInits /\ inits' = inits + 1
  /\ s' = Stirred(key)
  /\ s_i' = 0 /\ s_j' = 0
  /\ inited' = TRUE
  /\ seed' = key /\ drawn' = <<>>

\* Draws n bytes; the first use seeds with zero.
random_bytes(n) ==
  /\ Len(drawn) + n <= MaxBytes
  /\ LET start == IF inited THEN [f |-> s, i |-> s_i, j |-> s_j, out |-> drawn]
                  ELSE [f |-> Stirred(Zero), i |-> 0, j |-> 0, out |-> <<>>]
         st == FoldLeft(LAMBDA a, k : Advance(a), start, [k \in 1 .. n |-> k])
     IN  s' = st.f /\ s_i' = st.i /\ s_j' = st.j /\ drawn' = st.out
  /\ inited' = TRUE
  /\ UNCHANGED <<seed, inits>>

Next == (\E key \in Seeds : random_init(key)) \/ (\E n \in 0 .. MaxBytes : random_bytes(n))

Spec == Init /\ [][Next]_vars
-----------------------------------------------------------------------------
\* Stirring and drawing only ever permute the box, so that every byte value stays
\* in it: random.c:42-46, 67.
BoxIsPermutation == inited => \A b \in Byte : \E i \in Byte : s[i] = b

\* What is drawn after an initialisation is what a fresh generator with that
\* seed returns, in however many calls it is drawn and whatever came before:
\* random.c:32, "Initializes or reinitializes the PRNG with the given SEED".
SeedDecides ==
  drawn = FoldLeft(LAMBDA a, k : Advance(a), [f |-> Stirred(seed), i |-> 0, j |-> 0, out |-> <<>>],
                   [k \in DOMAIN drawn |-> k]).out
=============================================================================
