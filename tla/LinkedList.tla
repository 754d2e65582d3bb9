----------------------------- MODULE LinkedList -----------------------------
(***************************************************************************)
(* The intrusive circular doubly linked list of lib/mylib/list/list.h.     *)
(*                                                                         *)
(* A list memory is a record of two functions from node addresses to node  *)
(* addresses, the prev and next members of every struct list_node.  Every  *)
(* operation returns the memory after its pointer assignments, made in the *)
(* order in which the C code makes them, so aliased arguments (a list of   *)
(* one node, where the sentinel is both neighbours) come out as in C.      *)
(***************************************************************************)
EXTENDS Integers

\* The null pointer; list_del leaves it in both members of a removed node.
NULL == -1

\* list_init: an empty list is a sentinel that points at itself.
list_init(L, head) ==
  [next |-> [L.next EXCEPT ![head] = head],
   prev |-> [L.prev EXCEPT ![head] = head]]

\* __list_add: link newn between two neighbours.
list_insert(L, newn, p, n) ==
  [next |-> [L.next EXCEPT ![newn] = n, ![p] = newn],
   prev |-> [L.prev EXCEPT ![newn] = p, ![n] = newn]]

\* list_add: link newn right after the sentinel.
list_add(L, newn, head) == list_insert(L, newn, head, L.next[head])

\* list_del: join the neighbours of entry and clear its own members.
list_del(L, entry) ==
  LET p == L.prev[entry]
      n == L.next[entry]
  IN  [next |-> [L.next EXCEPT ![p] = n, ![entry] = NULL],
       prev |-> [L.prev EXCEPT ![n] = p, ![entry] = NULL]]

(***************************************************************************)
(* S, sentinel included, is closed under next and prev, the two undo each  *)
(* other, and S is one cycle, no part of it being closed by itself: what   *)
(* every list operation relies on when it follows a neighbour's pointer or *)
(* walks until it is back where it started, and what it re-establishes.    *)
(***************************************************************************)
WellLinked(L, S) ==
  /\ \A x \in S :
       /\ L.next[x] \in S
       /\ L.prev[x] \in S
       /\ L.prev[L.next[x]] = x
       /\ L.next[L.prev[x]] = x
  /\ \A T \in SUBSET S : T # {} /\ (\A x \in T : L.next[x] \in T) => T = S
=============================================================================
