----------------------------- MODULE Allocator ------------------------------
(***************************************************************************)
(* What kmalloc, kcalloc, krealloc and kfree promise, with no headers,     *)
(* lists or tags: buffers that do not overlap, and contents that only      *)
(* their owner changes.  Where a buffer goes, and when an allocation       *)
(* fails, is left open.                                                    *)
(***************************************************************************)
EXTENDS Integers

CONSTANTS
  Cells,          \* the addresses of the heap, integers
  CellsOf(_)      \* how many cells a number of bytes takes

VARIABLES
  store,   \* the contents of the heap
  live,    \* the buffers handed out, by their first address
  req      \* for each, how many bytes were promised

vars == <<store, live, req>>

\* The addresses of n bytes at p.  A buffer of no bytes still has an address.
Region(p, n) == p .. p + (IF n = 0 THEN 1 ELSE CellsOf(n)) - 1

Owned(S) == UNION {Region(p, req[p]) : p \in S}

\* n bytes at p lie in the heap and meet none of the buffers in S.
Fresh(p, n, S) ==
  /\ Region(p, n) \subseteq Cells
  /\ Region(p, n) \cap Owned(S) = {}

\* Nothing outside the buffers in S loses its contents.
Keeps(S) == \A c \in Owned(S) : store'[c] = store[c]

Init == live = {} /\ req = [c \in Cells |-> 0]

Alloc(p, n) ==
  /\ p \notin live
  /\ Fresh(p, n, live)
  /\ Keeps(live)
  /\ live' = live \cup {p}
  /\ req' = [req EXCEPT ![p] = n]

Free(p) ==
  /\ p \in live
  /\ Keeps(live \ {p})
  /\ live' = live \ {p}
  /\ req' = [req EXCEPT ![p] = 0]

\* krealloc in place.
Resize(p, n) ==
  /\ p \in live
  /\ Fresh(p, n, live \ {p})
  /\ Keeps(live)
  /\ live' = live
  /\ req' = [req EXCEPT ![p] = n]

\* krealloc to a new, larger place, with the old contents.
Move(p, q, n) ==
  /\ p \in live
  /\ q \notin live
  /\ Fresh(q, n, live)
  /\ Keeps(live \ {p})
  /\ \A i \in 0 .. CellsOf(req[p]) - 1 : store'[q + i] = store[p + i]
  /\ live' = (live \ {p}) \cup {q}
  /\ req' = [req EXCEPT ![p] = 0, ![q] = n]

\* The client stores into one of its buffers.
Write(p) ==
  /\ p \in live
  /\ \A c \in Cells \ Region(p, req[p]) : store'[c] = store[c]
  /\ UNCHANGED <<live, req>>

\* The allocator's own bookkeeping, outside every buffer.
Internal == Keeps(live) /\ UNCHANGED <<live, req>>

\* The buffer a step adds to live, and the number of bytes it promises, are
\* read off the new state.
Next ==
  \/ \E p \in live' : Alloc(p, req'[p]) \/ Resize(p, req'[p])
  \/ \E p \in live : Free(p) \/ Write(p)
  \/ \E p \in live, q \in live' : Move(p, q, req'[q])
  \/ Internal

Spec == Init /\ [][Next]_vars
=============================================================================
