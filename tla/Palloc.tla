------------------------------- MODULE Palloc -------------------------------
(***************************************************************************)
(* threads/palloc.c: two pools of pages, each with a bitmap and a lock.    *)
(* palloc_get_multiple() scans and marks the bitmap under the lock;        *)
(* palloc_free_multiple() takes no lock.  All of it runs with interrupts   *)
(* on, so the loops of lib/kernel/bitmap.c are taken apart: a step tests,  *)
(* marks or resets one bit.                                                *)
(***************************************************************************)
EXTENDS Bitmap

CONSTANTS
  Thread,           \* callers
  FreePages,        \* pages of memory above 1 MB
  UserPageLimit,    \* argument of palloc_init()
  PageBits,         \* bits of a page
  HeaderBits,       \* bits of a struct bitmap
  MaxCnt,           \* largest PAGE_CNT asked for
  Flags,            \* the sets of palloc_flags asked for
  NULL

Min2(a, b) == IF a < b THEN a ELSE b

(* palloc_init(): up to half of the pages are for users.                   *)
UserPages   == Min2(FreePages \div 2, UserPageLimit)
KernelPages == FreePages - UserPages

(* init_pool(): the bitmap lives in the pool's first pages, and room is    *)
(* made for a bit for each of them too.                                    *)
bitmap_buf_size(bit_cnt) == HeaderBits + elem_cnt(bit_cnt) * ELEM_BITS
bm_pages(page_cnt) == (bitmap_buf_size(page_cnt) + PageBits - 1) \div PageBits
init_pool(start, page_cnt) ==
  [base |-> start + bm_pages(page_cnt), size |-> page_cnt - bm_pages(page_cnt)]

pool == [kernel |-> init_pool(0, KernelPages), user |-> init_pool(KernelPages, UserPages)]

PoolPages(p) == pool[p].base .. pool[p].base + pool[p].size - 1
Page         == PoolPages("kernel") \cup PoolPages("user")

(* page_from_pool(), tried on the kernel pool and then on the user pool.   *)
PoolOf(page) == IF page \in PoolPages("kernel") THEN "kernel" ELSE "user"

VARIABLES
  used_map,  \* the bitmap of each pool
  lock,      \* who holds each pool's lock
  call,      \* what each thread is doing in this module, or NULL
  held,      \* the page groups <<first page, count>> each thread owns
  dirty,     \* pages that are not all zeros
  fresh,     \* groups handed out zeroed that their owner has not written to
  panicked   \* an ASSERT failed, or PANIC was called

vars == <<used_map, lock, call, held, dirty, fresh, panicked>>

Init ==
  /\ used_map = [p \in DOMAIN pool |-> bitmap_create(pool[p].size)]
  /\ lock = [p \in DOMAIN pool |-> NULL]
  /\ call = [t \in Thread |-> NULL]
  /\ held = [t \in Thread |-> {}]
  /\ dirty = Page
  /\ fresh = {}
  /\ panicked = FALSE

PagesOf(group) == Group(group[1], group[2])

\* Thread t's call c continues at step at, with loop counters i and n.
Go(t, c, at, i, n) == call' = [call EXCEPT ![t] = [c EXCEPT !.at = at, !.i = i, !.n = n]]
At(t, at) == call[t] # NULL /\ call[t].at = at
Return(t) == call' = [call EXCEPT ![t] = NULL]
-----------------------------------------------------------------------------
(* palloc_get_multiple() of at least one page; for none it returns NULL.   *)
palloc_get_multiple(t, flags, page_cnt) ==
  /\ call[t] = NULL /\ page_cnt > 0
  /\ call' = [call EXCEPT ![t] =
       [at |-> "acquire", pool |-> IF "USER" \in flags THEN "user" ELSE "kernel",
        flags |-> flags, cnt |-> page_cnt, i |-> 0, n |-> 0]]
  /\ UNCHANGED <<used_map, lock, held, dirty, fresh, panicked>>

\* Faulty: the pool's lock is ignored.
AcquireNot(t) ==
  At(t, "acquire") /\ Go(t, call[t], "scan", 0, 0)
    /\ UNCHANGED <<used_map, lock, held, dirty, fresh, panicked>>

Acquire(t) ==
  LET c == call[t] IN
  /\ At(t, "acquire") /\ lock[c.pool] = NULL
  /\ lock' = [lock EXCEPT ![c.pool] = t]
  /\ Go(t, c, "scan", 0, 0)
  /\ UNCHANGED <<used_map, held, dirty, fresh, panicked>>

\* Faulty: the scan starts over when it has come to the end.
ScanAgain(t) ==
  LET c == call[t] IN
  /\ At(t, "scan")
  /\ \/ c.i > pool[c.pool].size - c.cnt /\ Go(t, c, "scan", 0, 0)
     \/ c.i <= pool[c.pool].size - c.cnt /\ c.n = c.cnt /\ Go(t, c, "flip", c.i, 0)
     \/ /\ c.i <= pool[c.pool].size - c.cnt /\ c.n < c.cnt
        /\ IF bitmap_test(used_map[c.pool], c.i + c.n)
           THEN Go(t, c, "scan", c.i + 1, 0) ELSE Go(t, c, "scan", c.i, c.n + 1)
  /\ UNCHANGED <<used_map, lock, held, dirty, fresh, panicked>>

(* bitmap_scan(): i is the position tried, n the bits of it found free.    *)
Scan(t) ==
  LET c == call[t] IN
  /\ At(t, "scan")
  /\ \/ c.i > pool[c.pool].size - c.cnt /\ Go(t, c, "release", BITMAP_ERROR, 0)
     \/ c.i <= pool[c.pool].size - c.cnt /\ c.n = c.cnt /\ Go(t, c, "flip", c.i, 0)
     \/ /\ c.i <= pool[c.pool].size - c.cnt /\ c.n < c.cnt
        /\ IF bitmap_test(used_map[c.pool], c.i + c.n)
           THEN Go(t, c, "scan", c.i + 1, 0) ELSE Go(t, c, "scan", c.i, c.n + 1)
  /\ UNCHANGED <<used_map, lock, held, dirty, fresh, panicked>>

(* bitmap_set_multiple() of bitmap_scan_and_flip().                        *)
Flip(t) ==
  LET c == call[t] IN
  /\ At(t, "flip")
  /\ used_map' = [used_map EXCEPT ![c.pool] = bitmap_mark(@, c.i + c.n)]
  /\ Go(t, c, IF c.n + 1 = c.cnt THEN "release" ELSE "flip", c.i, c.n + 1)
  /\ UNCHANGED <<lock, held, dirty, fresh, panicked>>

Release(t) ==
  LET c == call[t] IN
  /\ At(t, "release")
  /\ lock' = [lock EXCEPT ![c.pool] = NULL]
  /\ Go(t, c, "finish", c.i, 0)
  /\ UNCHANGED <<used_map, held, dirty, fresh, panicked>>

(* The rest of palloc_get_multiple(): memset() or PANIC, and the result.   *)
Finish(t) ==
  LET c == call[t]
      group == <<pool[c.pool].base + c.i, c.cnt>>
  IN  /\ At(t, "finish")
      /\ IF c.i # BITMAP_ERROR
         THEN /\ held' = [held EXCEPT ![t] = @ \cup {group}]
              /\ IF "ZERO" \in c.flags
                 THEN dirty' = dirty \ PagesOf(group) /\ fresh' = fresh \cup {group}
                 ELSE UNCHANGED <<dirty, fresh>>
              /\ UNCHANGED panicked
         ELSE panicked' = ("ASSERT" \in c.flags) /\ UNCHANGED <<held, dirty, fresh>>
      /\ Return(t)
      /\ UNCHANGED <<used_map, lock>>

\* An owner writes to its pages.
Write(t) ==
  /\ call[t] = NULL
  /\ \E group \in held[t] : dirty' = dirty \cup PagesOf(group) /\ fresh' = fresh \ {group}
  /\ UNCHANGED <<used_map, lock, call, held, panicked>>
-----------------------------------------------------------------------------
(* palloc_free_multiple() up to its memset() with 0xcc; the call's i is    *)
(* page_idx.                                                               *)
palloc_free_multiple(t, group) ==
  /\ call[t] = NULL /\ group \in held[t]
  /\ held' = [held EXCEPT ![t] = @ \ {group}]
  /\ dirty' = dirty \cup PagesOf(group) /\ fresh' = fresh \ {group}
  /\ LET p == PoolOf(group[1])
     IN  call' = [call EXCEPT ![t] =
           [at |-> "assert", pool |-> p, flags |-> {}, cnt |-> group[2],
            i |-> group[1] - pool[p].base, n |-> 0]]
  /\ UNCHANGED <<used_map, lock, panicked>>

\* ASSERT (bitmap_all ()), one bit.
AssertUsed(t) ==
  LET c == call[t] IN
  /\ At(t, "assert")
  /\ panicked' = ~bitmap_test(used_map[c.pool], c.i + c.n)
  /\ IF c.n + 1 = c.cnt THEN Go(t, c, "reset", c.i, 0) ELSE Go(t, c, "assert", c.i, c.n + 1)
  /\ UNCHANGED <<used_map, lock, held, dirty, fresh>>

\* bitmap_set_multiple() to false, one bit.
Reset(t) ==
  LET c == call[t] IN
  /\ At(t, "reset")
  /\ used_map' = [used_map EXCEPT ![c.pool] = bitmap_reset(@, c.i + c.n)]
  /\ IF c.n + 1 = c.cnt THEN Return(t) ELSE Go(t, c, "reset", c.i, c.n + 1)
  /\ UNCHANGED <<lock, held, dirty, fresh, panicked>>

Step(t) ==
  \/ Acquire(t) \/ Scan(t) \/ Flip(t) \/ Release(t) \/ Finish(t) \/ AssertUsed(t) \/ Reset(t)

Next ==
  /\ ~panicked
  /\ \E t \in Thread :
       \/ \E f \in Flags, n \in 0 .. MaxCnt : palloc_get_multiple(t, f, n)
       \/ \E group \in held[t] : palloc_free_multiple(t, group)
       \/ Write(t)
       \/ Step(t)

Spec == Init /\ [][Next]_vars
-----------------------------------------------------------------------------
\* Pages for which call c answers: marked so far, or not yet reset.
Pending(c) ==
  LET first == pool[c.pool].base + c.i IN
  CASE c.at = "flip" -> Group(first, c.n)
    [] c.at \in {"release", "finish"} /\ c.i # BITMAP_ERROR -> Group(first, c.cnt)
    [] c.at = "assert" -> Group(first, c.cnt)
    [] c.at = "reset" -> Group(first + c.n, c.cnt - c.n)
    [] OTHER -> {}

\* Who answers for a page: owners, by group, and calls in progress.
Claims(page) ==
  {<<t, g>> \in Thread \X UNION {held[t] : t \in Thread} : g \in held[t] /\ page \in PagesOf(g)}
    \cup {t \in Thread : call[t] # NULL /\ page \in Pending(call[t])}

(* A page's bit is set exactly while one thread answers for it: no page is *)
(* handed out twice or lost, although palloc_free_multiple() resets bits   *)
(* without the lock under which palloc_get_multiple() tests and sets them. *)
BitsMatchOwners ==
  \A p \in DOMAIN pool : \A i \in DOMAIN used_map[p] :
    Cardinality(Claims(pool[p].base + i)) = IF bitmap_test(used_map[p], i) THEN 1 ELSE 0

(* Pages obtained with PAL_ZERO stay zero until their owner writes to      *)
(* them: a late memset() of whoever freed them last never hits them.       *)
ZeroedStayZero == \A group \in fresh : PagesOf(group) \cap dirty = {}
=============================================================================
