------------------------------ MODULE Process ------------------------------
(***************************************************************************)
(* userprog/process.c and userprog/pagedir.c: processes are started, load  *)
(* their program, run and exit on one CPU that may switch threads between  *)
(* any two steps.  A page directory, its page tables and the frames it     *)
(* maps are pages of the page allocator.                                   *)
(***************************************************************************)
EXTENDS Integers, FiniteSetsExt

CONSTANTS
  Thread, Main,   \* Main is the kernel thread that starts processes
  NULL, Base,     \* Base is init_page_dir
  PageCnt,        \* pages of memory
  Upage,          \* user virtual pages
  StackPage,      \* the last of them
  PtSize,         \* pages mapped by one page table
  Programs        \* programs: the pages their PT_LOAD segments occupy

Page == 1 .. PageCnt
pd_no(upage) == upage \div PtSize
Pde == {pd_no(u) : u \in Upage}

VARIABLES
  cur,   \* the running thread
  cr3,   \* the active page directory
  tlb,   \* translations <<upage, page>> cached by the CPU
  used,  \* pages in use
  th,    \* th[t]: what thread t is doing and holds
  pd     \* pd[p]: the page directory in page p, if there is one

vars == <<cur, cr3, tlb, used, th, pd>>

Dead == [at |-> "dead", pagedir |-> NULL, todo |-> {}, kpage |-> NULL, fn_copy |-> NULL, local |-> NULL]

Init ==
  /\ cur = Main /\ cr3 = Base /\ tlb = {} /\ used = {}
  /\ th = [t \in Thread |-> IF t = Main THEN [Dead EXCEPT !.at = "kernel"] ELSE Dead]
  /\ pd = [p \in Page |-> NULL]

me == th[cur]
At(at) == me.at = at
Full == used = Page
GetPage == Min(Page \ used)   \* palloc_get_page() when not Full
Go(at) == th' = [th EXCEPT ![cur].at = at]
-----------------------------------------------------------------------------
\* pagedir_activate().
Activate(dir) == cr3' = IF dir = NULL THEN Base ELSE dir

(* A context switch: process_activate() in thread_schedule_tail().  The    *)
(* dying thread is not scheduled again.                                    *)
Switch(t) ==
  /\ t # cur /\ th[t].at # "dead"
  /\ cur' = t /\ Activate(th[t].pagedir) /\ tlb' = {}
  /\ UNCHANGED <<used, th, pd>>

\* process_execute(): a copy of the name, and a new thread.
process_execute(t) ==
  /\ At("kernel") /\ th[t].at = "dead" /\ t # cur
  /\ ~Full
  /\ used' = used \cup {GetPage}
  /\ \/ th' = [th EXCEPT ![t] = [Dead EXCEPT !.at = "load", !.fn_copy = GetPage]]
     \/ th' = [th EXCEPT ![cur].at = "no_thread", ![cur].fn_copy = GetPage]
  /\ UNCHANGED <<cur, cr3, tlb, pd>>

FreeCopy(at) ==
  /\ used' = used \ {me.fn_copy}
  /\ th' = [th EXCEPT ![cur].at = at, ![cur].fn_copy = NULL]
  /\ UNCHANGED <<cur, cr3, tlb, pd>>

\* thread_create() failed.
ExecuteFailed == At("no_thread") /\ FreeCopy("kernel")
-----------------------------------------------------------------------------
\* pagedir_create() in load().
LoadCreate ==
  /\ At("load")
  /\ IF Full THEN Go("load_failed") /\ UNCHANGED <<used, pd>>
     ELSE /\ used' = used \cup {GetPage}
          /\ pd' = [pd EXCEPT ![GetPage] = [pt |-> [i \in Pde |-> NULL], pte |-> [u \in Upage |-> NULL]]]
          /\ th' = [th EXCEPT ![cur].at = "activate", ![cur].pagedir = GetPage]
  /\ UNCHANGED <<cur, cr3, tlb>>

\* process_activate() in load(), then the file is opened and its header read.
LoadActivate ==
  /\ At("activate")
  /\ Activate(me.pagedir) /\ tlb' = {}
  /\ \/ Go("load_failed")
     \/ \E program \in Programs : th' = [th EXCEPT ![cur].at = "segment", ![cur].todo = program]
  /\ UNCHANGED <<cur, used, pd>>

\* The next page of load_segment(), or of setup_stack().
LoadPage ==
  /\ At("segment") \/ At("stack")
  /\ IF At("segment") /\ me.todo = {} THEN Go("stack") /\ UNCHANGED used
     ELSE IF Full THEN Go("load_failed") /\ UNCHANGED used
     ELSE /\ used' = used \cup {GetPage}
          /\ th' = [th EXCEPT ![cur].at = IF At("segment") THEN "read" ELSE "install", ![cur].kpage = GetPage]
  /\ UNCHANGED <<cur, cr3, tlb, pd>>

\* file_read() of the page.
ReadPage == At("read") /\ (Go("install") \/ Go("drop_page")) /\ UNCHANGED <<cur, cr3, tlb, used, pd>>

\* The page of load_segment() or setup_stack() being installed.
upage == IF me.todo # {} THEN Min(me.todo) ELSE StackPage

\* Faulty: a page that is already mapped is mapped again.
InstallOver ==
  LET dir == me.pagedir
      new == pd[dir].pt[pd_no(upage)] = NULL
  IN  /\ At("install")
      /\ IF new /\ Full THEN Go("drop_page") /\ UNCHANGED <<used, pd>>
         ELSE /\ used' = IF new THEN used \cup {GetPage} ELSE used
              /\ pd' = [pd EXCEPT ![dir].pt[pd_no(upage)] = IF new THEN GetPage ELSE @,
                                  ![dir].pte[upage] = me.kpage]
              /\ th' = [th EXCEPT ![cur].at = IF me.todo # {} THEN "segment" ELSE "loaded",
                                  ![cur].todo = @ \ {upage}, ![cur].kpage = NULL]
      /\ UNCHANGED <<cur, cr3, tlb>>

(* install_page(): pagedir_get_page() and pagedir_set_page(), which        *)
(* creates the page table when there is none (lookup_page()).              *)
Install ==
  LET dir == me.pagedir
      new == pd[dir].pt[pd_no(upage)] = NULL
  IN  /\ At("install")
      /\ IF pd[dir].pte[upage] # NULL \/ (new /\ Full)
         THEN Go("drop_page") /\ UNCHANGED <<used, pd>>
         ELSE /\ used' = IF new THEN used \cup {GetPage} ELSE used
              /\ pd' = [pd EXCEPT ![dir].pt[pd_no(upage)] = IF new THEN GetPage ELSE @,
                                  ![dir].pte[upage] = me.kpage]
              /\ th' = [th EXCEPT ![cur].at = IF me.todo # {} THEN "segment" ELSE "loaded",
                                  ![cur].todo = @ \ {upage}, ![cur].kpage = NULL]
      /\ UNCHANGED <<cur, cr3, tlb>>

\* load_segment() and setup_stack() give back a page they cannot use.
DropPage ==
  /\ At("drop_page")
  /\ used' = used \ {me.kpage}
  /\ th' = [th EXCEPT ![cur].at = "load_failed", ![cur].kpage = NULL]
  /\ UNCHANGED <<cur, cr3, tlb, pd>>

\* start_process() after load().
Loaded     == At("loaded") /\ FreeCopy("user")
LoadFailed == At("load_failed") /\ FreeCopy("exit")
-----------------------------------------------------------------------------
\* The program touches a page, and the CPU caches the translation.
Touch(u) ==
  /\ At("user") /\ cr3 # Base /\ pd[cr3].pte[u] # NULL
  /\ tlb' = tlb \cup {<<u, pd[cr3].pte[u]>>}
  /\ UNCHANGED <<cur, cr3, used, th, pd>>

(* pagedir_clear_page() of a process's page by itself or by the kernel,    *)
(* which then reuses the frame; invalidate_pagedir() clears the TLB if the *)
(* directory is the active one.                                            *)
pagedir_clear_page(t, u) ==
  LET dir == th[t].pagedir IN
  /\ At("kernel") \/ (At("user") /\ t = cur)
  /\ th[t].at = "user" /\ pd[dir].pte[u] # NULL
  /\ pd' = [pd EXCEPT ![dir].pte[u] = NULL]
  /\ used' = used \ {pd[dir].pte[u]}
  /\ tlb' = IF cr3 = dir THEN {} ELSE tlb
  /\ UNCHANGED <<cur, cr3, th>>

\* The program exits or is killed.
Exit == At("user") /\ Go("exit") /\ UNCHANGED <<cur, cr3, tlb, used, pd>>

\* Faulty: the thread still has the directory when the base one is activated.
ExitClearLate ==
  /\ At("exit")
  /\ th' = [th EXCEPT ![cur].at = IF me.pagedir = NULL THEN "die" ELSE "activate_base",
                      ![cur].local = me.pagedir]
  /\ UNCHANGED <<cur, cr3, tlb, used, pd>>

(* process_exit(): forget the directory, activate the base one, destroy.   *)
ExitClear ==
  /\ At("exit")
  /\ th' = [th EXCEPT ![cur].at = IF me.pagedir = NULL THEN "die" ELSE "activate_base",
                      ![cur].local = me.pagedir, ![cur].pagedir = NULL]
  /\ UNCHANGED <<cur, cr3, tlb, used, pd>>

ExitActivate ==
  /\ At("activate_base")
  /\ Activate(NULL) /\ tlb' = {} /\ Go("destroy")
  /\ UNCHANGED <<cur, used, pd>>

\* The pages of directory p: frames, page tables and itself.
Frames(p) == {pd[p].pte[u] : u \in Upage} \ {NULL}
Tables(p) == {pd[p].pt[i] : i \in Pde} \ {NULL}

(* pagedir_destroy(): frame by frame and table by table, the directory last. *)
Destroy ==
  LET p    == me.local
      ptes == {u \in Upage : pd[p].pte[u] # NULL}
      pdes == {i \in Pde : pd[p].pt[i] # NULL}
  IN  /\ At("destroy")
      /\ IF ptes # {} THEN /\ used' = used \ {pd[p].pte[Min(ptes)]}
                          /\ pd' = [pd EXCEPT ![p].pte[Min(ptes)] = NULL] /\ UNCHANGED th
         ELSE IF pdes # {} THEN /\ used' = used \ {pd[p].pt[Min(pdes)]}
                                /\ pd' = [pd EXCEPT ![p].pt[Min(pdes)] = NULL] /\ UNCHANGED th
         ELSE /\ used' = used \ {p} /\ pd' = [pd EXCEPT ![p] = NULL]
              /\ th' = [th EXCEPT ![cur].at = "die", ![cur].local = NULL]
      /\ UNCHANGED <<cur, cr3, tlb>>

\* thread_exit() schedules another thread for good.
Die(t) ==
  /\ At("die") /\ t # cur /\ th[t].at # "dead"
  /\ th' = [th EXCEPT ![cur] = Dead]
  /\ cur' = t /\ Activate(th[t].pagedir) /\ tlb' = {}
  /\ UNCHANGED <<used, pd>>

Next ==
  \/ \E t \in Thread : Switch(t) \/ process_execute(t) \/ Die(t)
  \/ \E t \in Thread, u \in Upage : pagedir_clear_page(t, u)
  \/ \E u \in Upage : Touch(u)
  \/ ExecuteFailed \/ LoadCreate \/ LoadActivate \/ LoadPage \/ ReadPage \/ Install \/ DropPage
  \/ Loaded \/ LoadFailed \/ Exit \/ ExitClear \/ ExitActivate \/ Destroy

Spec == Init /\ [][Next]_vars
-----------------------------------------------------------------------------
\* What thread t answers for.
Owned(t) ==
  LET d == IF th[t].pagedir # NULL THEN th[t].pagedir ELSE th[t].local
  IN  ({th[t].fn_copy, th[t].kpage, d} \ {NULL}) \cup IF d = NULL THEN {} ELSE Frames(d) \cup Tables(d)

(* The active page directory is never one that is being destroyed or has   *)
(* been freed: "Correct ordering here is crucial."                         *)
ActiveLive ==
  cr3 # Base => pd[cr3] # NULL /\ \A t \in Thread : th[t].at = "destroy" => cr3 # th[t].local

(* Every page in use has exactly one owner, however far load() got when it *)
(* failed: exiting processes leave no page behind and free none twice.     *)
PagesExact ==
  /\ used = UNION {Owned(t) : t \in Thread}
  /\ \A s, t \in Thread : s # t => Owned(s) \cap Owned(t) = {}
  /\ \A t \in Thread : LET d == th[t].pagedir IN
       d # NULL => /\ \A u, v \in Upage : u # v /\ pd[d].pte[u] # NULL => pd[d].pte[u] # pd[d].pte[v]
                   /\ Frames(d) \cap (Tables(d) \cup {d}) = {}
                   /\ \A u \in Upage : pd[d].pte[u] # NULL => pd[d].pt[pd_no(u)] # NULL

(* While a program runs, the CPU translates its addresses by its own page  *)
(* directory and by no stale entry: what it reaches is what it owns.       *)
TranslatesRight ==
  At("user") => cr3 = me.pagedir /\ \A e \in tlb : pd[cr3].pte[e[1]] = e[2]
============================================================================
