------------------------------- MODULE Malloc -------------------------------
(***************************************************************************)
(* threads/malloc.c.  Memory is an array of bytes cut into pages of PGSIZE *)
(* bytes; a block is the address of its first byte.  A page in use starts  *)
(* with a struct arena.  A descriptor is named by its block size and has a *)
(* lock and a list of free blocks.  The page allocator is what module      *)
(* Palloc shows it to be for one caller: a call takes effect at once.      *)
(***************************************************************************)
EXTENDS Bitmap, Sequences, SequencesExt

CONSTANTS
  Thread, NULL,
  PageCnt,      \* pages of the kernel pool
  PGSIZE,
  ArenaBytes,   \* sizeof (struct arena)
  MinBlock,     \* the smallest block size, 16 in malloc_init()
  SizeBits,     \* width of size_t
  Sizes,        \* sizes asked for
  Factors       \* arguments of calloc()

BIG == 0  \* the descriptor of an arena that is one big block

(* malloc_init(): one descriptor per power of two times MinBlock, below    *)
(* half a page.                                                            *)
descs == {MinBlock * 2 ^ k : k \in 0 .. 9} \cap 1 .. (PGSIZE \div 2) - 1
blocks_per_arena(d) == (PGSIZE - ArenaBytes) \div d

SizeT(n) == n % 2 ^ SizeBits
DIV_ROUND_UP(n, step) == SizeT(n + step - 1) \div step

\* The descriptor malloc() picks for size, or BIG.
DescFor(size) ==
  IF \E d \in descs : d >= size
  THEN CHOOSE d \in descs : d >= size /\ \A e \in descs : e >= size => d <= e
  ELSE BIG

page_cnt(size) == DIV_ROUND_UP(SizeT(size + ArenaBytes), PGSIZE)

\* calloc()'s a * b, or 0 when it finds that the product does not fit.
calloc_size(a, b) == LET size == SizeT(a * b) IN IF size < a \/ size < b THEN 0 ELSE size

VARIABLES
  used_map,   \* the pages in use
  arena,      \* arena[p]: the struct arena at the start of page p
  free_list,  \* free_list[d]: descriptor d's free blocks
  lock,       \* who holds descriptor d's lock
  call,       \* what each thread is doing here, or NULL
  live        \* the blocks the program holds: [ptr, size, owner]

vars == <<used_map, arena, free_list, lock, call, live>>

Init ==
  /\ used_map = bitmap_create(PageCnt)
  /\ arena = [p \in 0 .. PageCnt - 1 |-> NULL]
  /\ free_list = [d \in descs |-> <<>>]
  /\ lock = [d \in descs |-> NULL]
  /\ call = [t \in Thread |-> NULL]
  /\ live = {}

block_to_arena(b) == b \div PGSIZE
arena_to_block(p, d, idx) == p * PGSIZE + ArenaBytes + idx * d
Blocks(p, d) == [i \in 1 .. blocks_per_arena(d) |-> arena_to_block(p, d, i - 1)]

\* block_size().
block_size(b) ==
  LET a == arena[block_to_arena(b)]
  IN  IF a.desc # BIG THEN a.desc ELSE PGSIZE * a.free_cnt - (b % PGSIZE)

At(t, at) == call[t] # NULL /\ call[t].at = at
Go(t, at) == call' = [call EXCEPT ![t].at = at]
\* size is what malloc() is asked for, want what its caller is asked for.
Call(at, d, size, want, block, old) ==
  [at |-> at, desc |-> d, size |-> size, want |-> want, block |-> block, old |-> old]
Owns(t, b) == \E r \in live : r.ptr = b /\ r.owner = t
-----------------------------------------------------------------------------
\* free() of block b, up to where it waits for the descriptor's lock.
FreeCall(t, b) ==
  LET p == block_to_arena(b)
      a == arena[p]
  IN  /\ live' = {r \in live : r.ptr # b}
      /\ IF a.desc # BIG
         THEN /\ call' = [call EXCEPT ![t] = Call("free_lock", a.desc, 0, 0, b, NULL)]
              /\ UNCHANGED <<used_map, arena>>
         ELSE /\ used_map' = bitmap_set_multiple(used_map, p, a.free_cnt, FALSE)
              /\ arena' = [arena EXCEPT ![p] = NULL]
              /\ call' = [call EXCEPT ![t] = NULL]

free(t, b) ==
  /\ call[t] = NULL /\ Owns(t, b)
  /\ FreeCall(t, b)
  /\ UNCHANGED <<free_list, lock>>

\* malloc() up to where it waits for a lock, on behalf of a caller.
MallocCall(t, size, want, old) ==
  /\ call[t] = NULL /\ size > 0
  /\ LET d == DescFor(size)
     IN  call' = [call EXCEPT ![t] =
                    Call(IF d = BIG THEN "big" ELSE "lock", d, size, want, NULL, old)]
  /\ UNCHANGED <<used_map, arena, free_list, lock, live>>

\* Requests that return NULL at once, for no bytes or for a product that does
\* not fit, change nothing; realloc() to no bytes is free().
malloc(t, size)           == MallocCall(t, size, size, NULL)
calloc(t, a, b)           == MallocCall(t, calloc_size(a, b), a * b, NULL)
realloc(t, old, new_size) == Owns(t, old) /\ MallocCall(t, new_size, new_size, old)

BigBlock(t) ==
  LET c == call[t]
      p == bitmap_scan(used_map, 0, page_cnt(c.size), FALSE)
  IN  /\ At(t, "big")
      /\ IF p = BITMAP_ERROR
         THEN Go(t, "fail") /\ UNCHANGED <<used_map, arena>>
         ELSE /\ used_map' = bitmap_set_multiple(used_map, p, page_cnt(c.size), TRUE)
              /\ arena' = [arena EXCEPT ![p] = [desc |-> BIG, free_cnt |-> page_cnt(c.size)]]
              /\ call' = [call EXCEPT ![t] = [c EXCEPT !.at = "done", !.block = p * PGSIZE + ArenaBytes]]
      /\ UNCHANGED <<free_list, lock, live>>

Lock(t) ==
  /\ At(t, "lock") \/ At(t, "free_lock")
  /\ lock[call[t].desc] = NULL
  /\ lock' = [lock EXCEPT ![call[t].desc] = t]
  /\ Go(t, IF call[t].at = "lock" THEN "refill" ELSE "push")
  /\ UNCHANGED <<used_map, arena, free_list, live>>

(* If the free list is empty, a new arena; without a page, failure.        *)
Refill(t) ==
  LET d == call[t].desc
      p == bitmap_scan(used_map, 0, 1, FALSE)
  IN  /\ At(t, "refill")
      /\ \/ /\ free_list[d] # <<>>
            /\ Go(t, "pop") /\ UNCHANGED <<used_map, arena, free_list, lock>>
         \/ /\ free_list[d] = <<>> /\ p = BITMAP_ERROR
            /\ lock' = [lock EXCEPT ![d] = NULL]
            /\ Go(t, "fail") /\ UNCHANGED <<used_map, arena, free_list>>
         \/ /\ free_list[d] = <<>> /\ p # BITMAP_ERROR
            /\ used_map' = bitmap_mark(used_map, p)
            /\ arena' = [arena EXCEPT ![p] = [desc |-> d, free_cnt |-> blocks_per_arena(d)]]
            /\ free_list' = [free_list EXCEPT ![d] = @ \o Blocks(p, d)]
            /\ Go(t, "pop") /\ UNCHANGED lock
      /\ UNCHANGED live

Pop(t) ==
  LET d == call[t].desc
      b == Head(free_list[d])
  IN  /\ At(t, "pop")
      /\ free_list' = [free_list EXCEPT ![d] = Tail(@)]
      /\ arena' = [arena EXCEPT ![block_to_arena(b)].free_cnt = @ - 1]
      /\ call' = [call EXCEPT ![t] = [@ EXCEPT !.at = "unlock", !.block = b]]
      /\ UNCHANGED <<used_map, lock, live>>

\* Faulty: the arena's last free block is not counted.
PushEarly(t) ==
  LET c == call[t]
      p == block_to_arena(c.block)
  IN  /\ At(t, "push")
      /\ free_list' = [free_list EXCEPT ![c.desc] = <<c.block>> \o @]
      /\ arena' = [arena EXCEPT ![p].free_cnt = @ + 1]
      /\ Go(t, IF arena[p].free_cnt + 2 >= blocks_per_arena(c.desc) THEN "return_arena" ELSE "free_unlock")
      /\ UNCHANGED <<used_map, lock, live>>

\* free(): the block goes to the front of the free list.
Push(t) ==
  LET c == call[t]
      p == block_to_arena(c.block)
  IN  /\ At(t, "push")
      /\ free_list' = [free_list EXCEPT ![c.desc] = <<c.block>> \o @]
      /\ arena' = [arena EXCEPT ![p].free_cnt = @ + 1]
      /\ Go(t, IF arena[p].free_cnt + 1 >= blocks_per_arena(c.desc) THEN "return_arena" ELSE "free_unlock")
      /\ UNCHANGED <<used_map, lock, live>>

\* free(): an arena with no block in use goes back to the page allocator.
ReturnArena(t) ==
  LET c == call[t]
      p == block_to_arena(c.block)
      gone == ToSet(Blocks(p, c.desc))
  IN  /\ At(t, "return_arena")
      /\ free_list' = [free_list EXCEPT ![c.desc] = SelectSeq(@, LAMBDA b : b \notin gone)]
      /\ used_map' = bitmap_reset(used_map, p)
      /\ arena' = [arena EXCEPT ![p] = NULL]
      /\ Go(t, "free_unlock")
      /\ UNCHANGED <<lock, live>>

Unlock(t) ==
  /\ At(t, "unlock") \/ At(t, "free_unlock")
  /\ lock' = [lock EXCEPT ![call[t].desc] = NULL]
  /\ IF call[t].at = "unlock" THEN Go(t, "done") ELSE call' = [call EXCEPT ![t] = NULL]
  /\ UNCHANGED <<used_map, arena, free_list, live>>

\* malloc() or realloc() returns NULL; realloc()'s old block stays valid.
Fail(t) ==
  /\ At(t, "fail")
  /\ call' = [call EXCEPT ![t] = NULL]
  /\ UNCHANGED <<used_map, arena, free_list, lock, live>>

(* malloc() returns its block.  realloc() first copies the old block's     *)
(* contents, then frees it.                                                *)
Done(t) ==
  LET c == call[t]
      new == [ptr |-> c.block, size |-> c.want, owner |-> t]
  IN  /\ At(t, "done")
      /\ live' = live \cup {new}
      /\ call' = [call EXCEPT ![t] = IF c.old = NULL THEN NULL ELSE [c EXCEPT !.at = "free_old"]]
      /\ UNCHANGED <<used_map, arena, free_list, lock>>

FreeOld(t) == At(t, "free_old") /\ FreeCall(t, call[t].old) /\ UNCHANGED <<free_list, lock>>

Step(t) ==
  \/ BigBlock(t) \/ Lock(t) \/ Refill(t) \/ Pop(t) \/ Push(t) \/ ReturnArena(t) \/ Unlock(t)
  \/ Fail(t) \/ Done(t) \/ FreeOld(t)

Next ==
  \E t \in Thread :
    \/ \E size \in Sizes : malloc(t, size)
    \/ \E a, b \in Factors : calloc(t, a, b)
    \/ \E size \in Sizes, r \in live : realloc(t, r.ptr, size)
    \/ \E r \in live : free(t, r.ptr)
    \/ Step(t)

Spec == Init /\ [][Next]_vars
-----------------------------------------------------------------------------
\* Bytes first .. first + cnt - 1.
Bytes(first, cnt) == first .. first + cnt - 1

InUse == {p \in DOMAIN arena : arena[p] # NULL}

(* Blocks handed out never overlap, keep clear of every struct arena,      *)
(* and lie in pages that are in use.                                       *)
BlocksSound ==
  /\ \A r, s \in live : r # s => Bytes(r.ptr, r.size) \cap Bytes(s.ptr, s.size) = {}
  /\ \A r \in live : \A x \in Bytes(r.ptr, r.size) :
       /\ bitmap_test(used_map, x \div PGSIZE)
       /\ \A p \in InUse : x \notin Bytes(p * PGSIZE, ArenaBytes)

(* "Obtains and returns a new block of at least SIZE bytes", "Allocates    *)
(* and return A times B bytes": a block is as large as its owner asked.    *)
AtLeastSize == \A r \in live : block_size(r.ptr) >= r.size

(* A free list holds blocks of arenas of its own descriptor only, each     *)
(* once, none of them in the program's hands: an arena that went back to   *)
(* the page allocator has left nothing behind.                             *)
FreeListsSound ==
  \A d \in descs :
    /\ IsInjective(free_list[d])
    /\ \A i \in DOMAIN free_list[d] :
         LET p == block_to_arena(free_list[d][i])
         IN  /\ arena[p] # NULL /\ arena[p].desc = d /\ bitmap_test(used_map, p)
             /\ \A r \in live : r.ptr # free_list[d][i]

(* Outside of critical sections an arena's free_cnt is the number of its   *)
(* blocks on the free list, and an arena without a used block is gone.     *)
FreeCntExact ==
  \A p \in InUse : LET a == arena[p] IN
    a.desc # BIG /\ lock[a.desc] = NULL =>
      /\ a.free_cnt = Cardinality({i \in DOMAIN free_list[a.desc] :
                                     block_to_arena(free_list[a.desc][i]) = p})
      /\ a.free_cnt < blocks_per_arena(a.desc)
=============================================================================
