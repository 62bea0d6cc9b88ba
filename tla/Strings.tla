------------------------------ MODULE Strings ------------------------------
(* lib/string.c: blocks and null-terminated strings in one small memory.      *)
(* Addresses are 0 .. Top, a byte is 0 (the null byte) or a member of Chars.  *)
(* A `while' loop that only moves a pointer is the first address at which its *)
(* condition fails; a loop that stores is a fold over its stores, in order.   *)
(* The last byte of memory is always null, so every string ends.              *)
EXTENDS Integers, Sequences, FiniteSetsExt, SequencesExt

CONSTANTS Top, Chars

VARIABLES
  mem,      \* the memory
  old,      \* the memory when the operation began
  op,       \* the operation and its arguments
  ret,      \* what it returned
  tokens,   \* strtok_r(): the tokens returned: their address, text and delimiters
  save      \* strtok_r(): *save_ptr

vars == <<mem, old, op, ret, tokens, save>>

Address == 0 .. Top
Null == 0
NULL == -1

\* The first address from p on that is not in set.
Skip(p, set) == Min((p .. Top) \ set)
-----------------------------------------------------------------------------
strlen(m, s) == Skip(s, {q \in Address : m[q] # Null}) - s
strnlen(m, s, maxlen) == Skip(s, {q \in Address : m[q] # Null /\ q - s < maxlen}) - s

\* The characters of the string at s.
Text(m, s) == [i \in 1 .. strlen(m, s) |-> m[s + i - 1]]

Compare(a, b) == IF a < b THEN -1 ELSE IF a > b THEN 1 ELSE 0

memcmp(m, a, b, size) ==
  LET differ == {i \in 0 .. size - 1 : m[a + i] # m[b + i]}
  IN  IF differ = {} THEN 0 ELSE Compare(m[a + Min(differ)], m[b + Min(differ)])

strcmp(m, a, b) ==
  LET n == Min({i \in 0 .. Top - Max({a, b}) : m[a + i] = Null \/ m[a + i] # m[b + i]})
  IN  Compare(m[a + n], m[b + n])

memchr(m, block, ch, size) ==
  LET found == {q \in block .. block + size - 1 : m[q] = ch}
  IN  IF found = {} THEN NULL ELSE Min(found)

\* strchr() finds the null byte too.
strchr(m, string, c) ==
  LET q == Skip(string, {r \in Address : m[r] \notin {c, Null}})
  IN  IF m[q] = c THEN q ELSE NULL

\* Whether strchr() finds c in a string with the characters in set.
In(c, set) == c = Null \/ c \in set

strcspn(m, string, stop) == Skip(string, {q \in Address : m[q] # Null /\ ~In(m[q], stop)}) - string
strspn(m, string, skip) == Skip(string, {q \in Address : m[q] # Null /\ In(m[q], skip)}) - string

strpbrk(m, string, stop) ==
  LET q == Skip(string, {r \in Address : m[r] # Null /\ ~In(m[r], stop)})
  IN  IF m[q] = Null THEN NULL ELSE q

strrchr(m, string, c) ==
  LET found == {q \in string .. string + strlen(m, string) - 1 : m[q] = c}
  IN  IF found = {} THEN NULL ELSE Max(found)

strstr(m, haystack, needle) ==
  LET spare == strlen(m, haystack) - strlen(m, needle)
      found == {i \in 0 .. spare : memcmp(m, haystack + i, needle, strlen(m, needle)) = 0}
  IN  IF spare >= 0 /\ found # {} THEN haystack + Min(found) ELSE NULL
-----------------------------------------------------------------------------
\* Copies byte by byte, at the offsets of order.
CopyBytes(m, dst, src, order) ==
  FoldLeft(LAMBDA acc, i : [acc EXCEPT ![dst + i] = acc[src + i]], m, order)
Upwards(size) == [i \in 1 .. size |-> i - 1]
Downwards(size) == [i \in 1 .. size |-> size - i]

memcpy(m, dst, src, size) == CopyBytes(m, dst, src, Upwards(size))
memset(m, dst, value, size) == [q \in Address |-> IF q \in dst .. dst + size - 1 THEN value ELSE m[q]]

\* Faulty: upwards in every case, as memcpy() does.
memmove_up(m, dst, src, size) == [mem |-> CopyBytes(m, dst, src, Upwards(size)), ret |-> dst]

\* Each loop moves dst: upwards it ends behind the block, downwards at its start.
memmove(m, dst, src, size) ==
  IF dst < src THEN [mem |-> CopyBytes(m, dst, src, Upwards(size)), ret |-> dst + size]
  ELSE [mem |-> CopyBytes(m, dst, src, Downwards(size)), ret |-> dst]

strlcpy(m, dst, src, size) ==
  LET dst_len == Min({size - 1, strlen(m, src)})
  IN  [mem |-> IF size > 0 THEN [memcpy(m, dst, src, dst_len) EXCEPT ![dst + dst_len] = Null] ELSE m,
       ret |-> strlen(m, src)]

strlcat(m, dst, src, size) ==
  LET dst_len == strlen(m, dst)
      copy_cnt == Min({size - dst_len - 1, strlen(m, src)})
  IN  [mem |-> IF size > 0 /\ dst_len < size
               THEN [memcpy(m, dst + dst_len, src, copy_cnt) EXCEPT ![dst + dst_len + copy_cnt] = Null] ELSE m,
       ret |-> strlen(m, src) + dst_len]

\* s is the string, or *save_ptr where the caller passed a null pointer.
strtok_r(m, s, delimiters) ==
  LET token == Skip(s, {q \in Address : m[q] # Null /\ m[q] \in delimiters})
      end == Skip(token, {q \in Address : ~In(m[q], delimiters)})
  IN  IF m[token] = Null THEN [mem |-> m, save |-> token, ret |-> NULL]
      ELSE [mem |-> [m EXCEPT ![end] = Null],
            save |-> IF m[end] # Null THEN end + 1 ELSE end, ret |-> token]
-----------------------------------------------------------------------------
Idle == [name |-> "idle"]

Init ==
  /\ mem \in [Address -> Chars \cup {Null}]
  /\ mem[Top] = Null
  /\ old = mem
  /\ op = Idle
  /\ ret = NULL
  /\ tokens = <<>>
  /\ save = NULL

\* dst and the size bytes there are not part of the string at src.
Apart(dst, size, src) == dst + size <= src \/ src + strlen(mem, src) < dst

Stores(o, r) ==
  /\ op' = o
  /\ mem' = r.mem
  /\ ret' = r.ret
  /\ UNCHANGED <<old, tokens, save>>

Move(dst, src, size) ==
  /\ op = Idle
  /\ dst + size <= Top /\ src + size <= Top
  /\ Stores([name |-> "memmove", dst |-> dst, src |-> src, size |-> size], memmove(mem, dst, src, size))

Copy(dst, src, size) ==
  /\ op = Idle
  /\ dst + size <= Top + 1
  /\ Apart(dst, size, src)
  /\ \/ Stores([name |-> "strlcpy", dst |-> dst, src |-> src, size |-> size], strlcpy(mem, dst, src, size))
     \/ /\ Apart(dst, strlen(mem, dst) + 1, src)
        /\ Stores([name |-> "strlcat", dst |-> dst, src |-> src, size |-> size], strlcat(mem, dst, src, size))

Fill(dst, c, size) ==
  /\ op = Idle
  /\ dst + size <= Top
  /\ Stores([name |-> "memset"], [mem |-> memset(mem, dst, c, size), ret |-> dst])

\* Everything that is looked up in two strings.
Look(a, b) ==
  /\ op = Idle
  /\ op' = [name |-> "look", a |-> a, b |-> b]
  /\ LET set == {mem[q] : q \in b .. b + strlen(mem, b) - 1}
         c == mem[b]
     IN  ret' = [strstr |-> strstr(mem, a, b), strcmp |-> strcmp(mem, a, b), strchr |-> strchr(mem, a, c),
                 strrchr |-> strrchr(mem, a, c), strspn |-> strspn(mem, a, set), strcspn |-> strcspn(mem, a, set),
                 strpbrk |-> strpbrk(mem, a, set), strnlen |-> strnlen(mem, a, b),
                 memchr |-> memchr(mem, a, c, strlen(mem, a))]
  /\ UNCHANGED <<mem, old, tokens, save>>

\* The first call passes the string, the others a null pointer; the delimiters
\* may change from call to call.
Tokenize(delimiters) ==
  /\ op.name \in {"idle", "strtok_r"}
  /\ op = Idle \/ ret # NULL
  /\ LET r == strtok_r(mem, IF op = Idle THEN 0 ELSE save, delimiters)
     IN  /\ mem' = r.mem
         /\ save' = r.save
         /\ ret' = r.ret
         /\ tokens' = Append(tokens, [at |-> r.ret, delimiters |-> delimiters,
                                      text |-> IF r.ret = NULL THEN <<>> ELSE Text(r.mem, r.ret)])
  /\ op' = [name |-> "strtok_r"]
  /\ UNCHANGED old

Done == op # Idle /\ ~(op.name = "strtok_r" /\ ret # NULL) /\ UNCHANGED vars

Next ==
  \/ \E dst, src, size \in Address : Move(dst, src, size) \/ Copy(dst, src, size)
  \/ \E dst, size \in Address, c \in Chars : Fill(dst, c, size)
  \/ \E a, b \in Address : Look(a, b)
  \/ \E delimiters \in SUBSET Chars : Tokenize(delimiters)
  \/ Done

Spec == Init /\ [][Next]_vars
-----------------------------------------------------------------------------
\* A block that is moved arrives as it was, however the two places overlap,
\* and no other byte changes: string.c:21, "which are allowed to overlap".
MoveRight ==
  op.name = "memmove" =>
    \A q \in Address : mem[q] = IF q \in op.dst .. op.dst + op.size - 1 THEN old[q - op.dst + op.src] ELSE old[q]

\* strlcpy() and strlcat() leave a terminated string that is as much of the
\* wanted text as fits in size bytes, touch nothing outside those bytes, and
\* return the length the text would have had: string.c:316-324, 345-354.
CopyBounded ==
  op.name \in {"strlcpy", "strlcat"} =>
    LET before == IF op.name = "strlcat" THEN Text(old, op.dst) ELSE <<>>
        wanted == before \o Text(old, op.src)
    IN  /\ \A q \in Address \ (op.dst .. op.dst + op.size - 1) : mem[q] = old[q]
        /\ ret = Len(wanted)
        /\ op.size > Len(before) =>
             Text(mem, op.dst) = SubSeq(wanted, 1, Min({op.size - 1, Len(wanted)}))

\* What the lookups return is what their comments define, among them strstr()
\* at the last place where the needle fits, and empty strings.
LooksRight ==
  op.name = "look" =>
    LET hay == Text(mem, op.a)
        needle == Text(mem, op.b)
        at(n) == op.a + n - 1
        Same(n) == SubSeq(hay, n, n + Len(needle) - 1) = needle
        Places(S) == {n \in DOMAIN hay : hay[n] \in S}
        inSet == Places(Range(needle))
        outSet == DOMAIN hay \ inSet
        First(S) == IF S = {} THEN NULL ELSE at(Min(S))
        c == mem[op.b]
    IN  /\ ret.strstr = First({n \in 1 .. Len(hay) - Len(needle) + 1 : Same(n)})
        /\ (ret.strcmp = 0) <=> (hay = needle)
        /\ ret.strchr = IF c = Null THEN op.a + Len(hay) ELSE First(Places({c}))
        /\ ret.memchr = First(Places({c}))
        /\ ret.strrchr = IF Places({c}) = {} THEN NULL ELSE at(Max(Places({c})))
        /\ ret.strpbrk = First(inSet)
        /\ ret.strcspn = (IF inSet = {} THEN Len(hay) ELSE Min(inSet) - 1)
        /\ ret.strspn = (IF outSet = {} THEN Len(hay) ELSE Min(outSet) - 1)
        /\ ret.strnlen = Min({op.b, Len(hay)})

\* The string's pieces between delimiters of one set, empty ones left out.
Pieces(text, delimiters) ==
  LET free == {i \in DOMAIN text : text[i] \notin delimiters}
      runs == {<<i, j>> \in free \X free :
                 i .. j \subseteq free /\ i - 1 \notin free /\ j + 1 \notin free /\ i <= j}
      ordered == SetToSortSeq(runs, LAMBDA x, y : x[1] < y[1])
  IN  [k \in DOMAIN ordered |-> SubSeq(text, ordered[k][1], ordered[k][2])]

\* strtok_r(): the tokens come in order, are never empty, keep their text while
\* later calls write into the string, whatever delimiters those use, and are
\* all the pieces when the delimiters did not change: string.c:202-232.
TokensRight ==
  LET got == SelectSeq(tokens, LAMBDA t : t.at # NULL)
      sets == {tokens[i].delimiters : i \in DOMAIN tokens}
  IN  /\ \A i \in DOMAIN got :
           /\ got[i].text # <<>> /\ Text(mem, got[i].at) = got[i].text
           /\ Range(got[i].text) \cap got[i].delimiters = {}
           /\ i > 1 => got[i].at > got[i - 1].at
      /\ \A d \in sets : sets = {d} /\ ret = NULL =>
           [i \in DOMAIN got |-> got[i].text] = Pieces(Text(old, 0), d)
=============================================================================
