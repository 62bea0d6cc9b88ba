------------------------------ MODULE AllList ------------------------------
(***************************************************************************)
(* all_list of threads/thread.c, at the level of lib/kernel/list.c's       *)
(* pointers.  init_thread() appends to the list with interrupts on, so a   *)
(* creator can be preempted between any two of list_insert()'s stores;     *)
(* thread_exit() removes with interrupts off.                              *)
(***************************************************************************)
EXTENDS Naturals, FiniteSets

CONSTANTS
  Thread,      \* pages that can hold a thread
  Main,        \* initial_thread
  HEAD, TAIL,  \* the list's sentinels
  NULL

VARIABLES
  next, prev,  \* the links of every element and sentinel
  live,        \* threads whose creation is complete and that have not exited
  child,       \* the thread each thread is adding to the list, or NULL
  store        \* the store of list_insert() each creator executes next

vars == <<next, prev, live, child, store>>

Node == Thread \cup {HEAD, TAIL}

(* thread_init(): list_init() and then init_thread() of the initial thread. *)
Init ==
  /\ next = [n \in Node |-> CASE n = HEAD -> Main [] n = Main -> TAIL [] OTHER -> NULL]
  /\ prev = [n \in Node |-> CASE n = TAIL -> Main [] n = Main -> HEAD [] OTHER -> NULL]
  /\ live = {Main}
  /\ child = [t \in Thread |-> NULL]
  /\ store = [t \in Thread |-> 1]

\* Pages in use.
Used == live \cup {child[t] : t \in Thread}

(* thread_create() up to list_push_back(); memset() clears the links.      *)
thread_create(t, e) ==
  /\ t \in live /\ child[t] = NULL
  /\ e \in Thread \ Used /\ e # Main
  /\ child' = [child EXCEPT ![t] = e]
  /\ store' = [store EXCEPT ![t] = 1]
  /\ next' = [next EXCEPT ![e] = NULL]
  /\ prev' = [prev EXCEPT ![e] = NULL]
  /\ UNCHANGED live

(* The four stores of list_insert (&all_list.tail, elem), in their order.  *)
list_insert(t) ==
  LET e == child[t] IN
  /\ t \in live /\ e # NULL
  /\ \/ store[t] = 1 /\ prev' = [prev EXCEPT ![e] = prev[TAIL]] /\ UNCHANGED next
     \/ store[t] = 2 /\ next' = [next EXCEPT ![e] = TAIL] /\ UNCHANGED prev
     \/ store[t] = 3 /\ next' = [next EXCEPT ![prev[TAIL]] = e] /\ UNCHANGED prev
     \/ store[t] = 4 /\ prev' = [prev EXCEPT ![TAIL] = e] /\ UNCHANGED next
  /\ IF store[t] = 4
     THEN /\ live' = live \cup {e}
          /\ child' = [child EXCEPT ![t] = NULL]
          /\ store' = [store EXCEPT ![t] = 1]
     ELSE store' = [store EXCEPT ![t] = @ + 1] /\ UNCHANGED <<live, child>>

(* thread_exit() of a thread that list_remove()'s ASSERT finds interior.   *)
thread_exit(t) ==
  /\ t \in live /\ child[t] = NULL
  /\ prev[t] # NULL /\ next[t] # NULL
  /\ next' = [next EXCEPT ![prev[t]] = next[t]]
  /\ prev' = [prev EXCEPT ![next[t]] = prev[t]]
  /\ live' = live \ {t}
  /\ UNCHANGED <<child, store>>

Next ==
  \E t \in Thread :
    \/ \E e \in Thread : thread_create(t, e)
    \/ list_insert(t)
    \/ thread_exit(t)

Spec == Init /\ [][Next]_vars
-----------------------------------------------------------------------------
\* The element the loop of thread_foreach() is at after n steps.
Visited[n \in Nat] ==
  IF n = 0 THEN next[HEAD]
  ELSE IF Visited[n - 1] \in {TAIL, NULL} THEN Visited[n - 1] ELSE next[Visited[n - 1]]

(* "Invoke function 'func' on all threads" (thread.c:324): thread_foreach() *)
(* reaches every thread that has been created and has not exited.           *)
ForeachVisitsAll == live \subseteq {Visited[n] : n \in 0 .. Cardinality(Thread)}
=============================================================================
