------------------------- MODULE SimpleMMHeapProofs -------------------------
(***************************************************************************)
(* The routines of simple_mm.c keep the heap intact: for every heap record *)
(* that satisfies HeapOK, every header size and every request that does    *)
(* not wrap, splitting, handing out, marking, merging, storing and copying *)
(* lead to a heap record that satisfies HeapOK again.                      *)
(***************************************************************************)
EXTENDS SimpleMM, Recursion

-----------------------------------------------------------------------------
(* What the list operations do to a well-linked list, for every node set. *)

\* The memory of a list over the nodes N.
ListType(N) == [next : [N -> N \cup {NULL}], prev : [N -> N \cup {NULL}]]

(***************************************************************************)
(* list_add links a node that was not in the list, and keeps every other   *)
(* link consistent; also when the list was empty and the head is both of   *)
(* the new node's neighbours.                                              *)
(***************************************************************************)
LEMMA ListAddLinks ==
  ASSUME NEW N, NEW L \in ListType(N), NEW S \in SUBSET N, WellLinked(L, S),
         NEW head \in S, NEW x \in N, x \notin S
  PROVE  /\ list_add(L, x, head) \in ListType(N)
         /\ WellLinked(list_add(L, x, head), S \cup {x})
<1> DEFINE n == L.next[head]
           M == list_add(L, x, head)
<1>1. n \in S /\ n \in N /\ head \in N /\ L.prev[n] = head
  BY DEF WellLinked
<1>2. /\ M.next = [[L.next EXCEPT ![x] = n] EXCEPT ![head] = x]
      /\ M.prev = [[L.prev EXCEPT ![x] = head] EXCEPT ![n] = x]
      /\ M = [next |-> M.next, prev |-> M.prev]
  BY DEF list_add, list_insert
<1>3. L.next \in [N -> N \cup {NULL}] /\ L.prev \in [N -> N \cup {NULL}]
  BY DEF ListType
<1>4. M \in ListType(N)
  BY <1>1, <1>2, <1>3 DEF ListType
<1>5. WellLinked(M, S \cup {x})
  <2>1. /\ M.next[x] = n /\ M.next[head] = x
        /\ \A y \in S \ {head} : M.next[y] = L.next[y]
    BY <1>1, <1>2, <1>3
  <2>2. /\ M.prev[x] = head /\ M.prev[n] = x
        /\ \A y \in S \ {n} : M.prev[y] = L.prev[y]
    BY <1>1, <1>2, <1>3
  <2>3. ASSUME NEW T \in SUBSET (S \cup {x}), T # {}, \A y \in T : M.next[y] \in T
        PROVE  T = S \cup {x}
    <3>1. T \ {x} # {}
      BY <1>1, <2>1, <2>3
    <3>2. ASSUME NEW y \in T \ {x} PROVE L.next[y] \in T \ {x}
      <4>1. y \in S /\ L.next[y] \in S
        BY DEF WellLinked
      <4>2. M.next[y] \in T
        BY <2>3
      <4> QED
        BY <1>1, <2>1, <2>3, <4>1, <4>2
    <3>3. T \ {x} = S
      BY <3>1, <3>2 DEF WellLinked
    <3>4. head \in T
      BY <3>3
    <3>5. x \in T
      BY <2>1, <2>3, <3>4
    <3> QED
      BY <3>3, <3>5
  <2>4. \A y \in S \cup {x} :
          /\ M.next[y] \in S \cup {x} /\ M.prev[y] \in S \cup {x}
          /\ M.prev[M.next[y]] = y /\ M.next[M.prev[y]] = y
    BY <1>1, <2>1, <2>2 DEF WellLinked
  <2> QED
    BY <2>3, <2>4 DEF WellLinked
<1> QED
  BY <1>4, <1>5

(***************************************************************************)
(* list_del unlinks a node and leaves the rest linked.                     *)
(***************************************************************************)
LEMMA ListDelLinks ==
  ASSUME NEW N, NEW L \in ListType(N), NEW S \in SUBSET N, WellLinked(L, S),
         NEW x \in S
  PROVE  /\ list_del(L, x) \in ListType(N)
         /\ WellLinked(list_del(L, x), S \ {x})
<1> DEFINE n == L.next[x]
           p == L.prev[x]
           M == list_del(L, x)
<1>1. n \in S /\ p \in S /\ x \in N /\ n \in N /\ p \in N
  BY DEF WellLinked
<1>2. /\ M.next = [[L.next EXCEPT ![p] = n] EXCEPT ![x] = NULL]
      /\ M.prev = [[L.prev EXCEPT ![n] = p] EXCEPT ![x] = NULL]
      /\ M = [next |-> M.next, prev |-> M.prev]
  BY DEF list_del
<1>3. L.next \in [N -> N \cup {NULL}] /\ L.prev \in [N -> N \cup {NULL}]
  BY DEF ListType
<1>4. M \in ListType(N)
  BY <1>1, <1>2, <1>3 DEF ListType
<1>5. \A y \in S \ {x} :
        /\ M.next[y] \in S \ {x} /\ M.prev[y] \in S \ {x}
        /\ M.prev[M.next[y]] = y /\ M.next[M.prev[y]] = y
  \* A node that is its own neighbour leaves the others alone.
  <2>1. CASE n = x
    <3>1. p = x
      BY <2>1 DEF WellLinked
    <3>2. \A y \in S \ {x} : M.next[y] = L.next[y] /\ M.prev[y] = L.prev[y]
      BY <1>1, <1>2, <1>3, <2>1, <3>1
    <3> QED
      BY <2>1, <3>1, <3>2 DEF WellLinked
  <2>2. CASE n # x
    <3>1. p # x
      BY <2>2 DEF WellLinked
    <3>2. /\ M.next[p] = n
          /\ \A y \in S \ {x, p} : M.next[y] = L.next[y]
      BY <1>1, <1>2, <1>3, <3>1
    <3>3. /\ M.prev[n] = p
          /\ \A y \in S \ {x, n} : M.prev[y] = L.prev[y]
      BY <1>1, <1>2, <1>3, <2>2
    <3> QED
      BY <1>1, <2>2, <3>1, <3>2, <3>3 DEF WellLinked
  <2> QED
    BY <2>1, <2>2
<1>6. ASSUME NEW T \in SUBSET (S \ {x}), T # {}, \A y \in T : M.next[y] \in T
      PROVE  T = S \ {x}
  <2>1. \A y \in S \ {x, p} : M.next[y] = L.next[y]
    BY <1>1, <1>2, <1>3
  <2>2. p # x => M.next[p] = n
    BY <1>1, <1>2, <1>3
  <2>3. CASE p \in T
    <3>1. n \in T
      BY <1>6, <2>2, <2>3
    <3>2. \A y \in T \cup {x} : L.next[y] \in T \cup {x}
      BY <1>1, <1>6, <2>1, <3>1 DEF WellLinked
    <3>3. T \cup {x} = S
      <4>1. T \cup {x} \in SUBSET S /\ T \cup {x} # {}
        OBVIOUS
      <4> QED
        BY <3>2, <4>1 DEF WellLinked
    <3> QED
      BY <3>3
  <2>4. CASE p \notin T
    <3>1. \A y \in T : L.next[y] \in T
      BY <1>6, <2>1, <2>4
    <3>2. T = S
      BY <1>6, <3>1 DEF WellLinked
    <3> QED
      BY <3>2
  <2> QED
    BY <2>3, <2>4
<1>7. WellLinked(M, S \ {x})
  BY <1>5, <1>6 DEF WellLinked
<1> QED
  BY <1>4, <1>7

-----------------------------------------------------------------------------
(* The heap *)

\* The layout of the heap: two headers and more fit below the wrap of size_t.
LEMMA Geometry ==
  /\ HeapCells \in Nat /\ EndBlock \in Nat /\ HeadCells \in Nat
  /\ HeapCells = EndBlock + HeadCells
  /\ HeadCells >= 2
  /\ EndBlock > HeadCells
  /\ SizeCells \in Nat
  /\ HeapCells < SizeCells
BY HeadAssumption, HeapAssumption DEF HeapCells, EndBlock, SizeCells, CELL

\* The fields of a heap record, and of its cells, have their types.
LEMMA HeapFields ==
  ASSUME NEW h \in Heap
  PROVE  /\ h.mem \in [Cells -> Cell]
         /\ h.lst \in ListType(Nodes)
         /\ h.blocks \subseteq Cells
         /\ \A c \in Cells : /\ h.mem[c] \in Cell
                             /\ h.mem[c].magic \in Bit
                             /\ h.mem[c].size \in Nat
                             /\ h.mem[c].free \in Bit
                             /\ h.mem[c].prevFree \in Bit
BY DEF Heap, ListType, Links, Cell

\* Where a block lies, and that no other header lies inside it.
LEMMA BlockBounds ==
  ASSUME NEW h \in Heap, Tiled(h), NEW b \in h.blocks \ {EndBlock}
  PROVE  /\ b \in Nat /\ b \in Cells
         /\ h.mem[b].size \in Nat
         /\ h.mem[b].size > HeadCells
         /\ b + h.mem[b].size \in h.blocks
         /\ b + h.mem[b].size \in Cells
         /\ b + h.mem[b].size <= EndBlock
         /\ \A c \in h.blocks : c \in Int /\ (c <= b \/ b + h.mem[b].size <= c)
BY HeapFields, Geometry DEF Tiled, Cells

\* No block meets the inside of another.
LEMMA OutsideBlock ==
  ASSUME NEW h \in Heap, Tiled(h), NEW b \in h.blocks \ {EndBlock},
         NEW c \in h.blocks, c # b
  PROVE  /\ c < b \/ b + h.mem[b].size <= c
         /\ c # EndBlock =>
              \/ c + h.mem[c].size <= b
              \/ b + h.mem[b].size <= c
<1>1. b \in Nat /\ h.mem[b].size \in Nat /\ c \in Int /\ (c <= b \/ b + h.mem[b].size <= c)
  BY BlockBounds
<1>2. ASSUME c # EndBlock
      PROVE  b <= c \/ c + h.mem[c].size <= b
  BY <1>2, BlockBounds
<1> QED
  BY <1>1, <1>2

\* The list's head is not a cell of the heap; its other nodes are.
LEMMA FreeListNodes ==
  /\ free_mem_list_head \in Nodes
  /\ free_mem_list_head \notin Cells
  /\ Cells \subseteq Nodes
  /\ \A h \in Heap : /\ h.lst \in ListType(Nodes)
                     /\ FreeBlocks(h) \subseteq Cells
                     /\ FreeBlocks(h) \cup {free_mem_list_head} \in SUBSET Nodes
<1>1. /\ free_mem_list_head \in Nodes
      /\ free_mem_list_head \notin Cells
      /\ Cells \subseteq Nodes
  BY Geometry DEF free_mem_list_head, Nodes, Cells
<1>2. ASSUME NEW h \in Heap
      PROVE  /\ h.lst \in ListType(Nodes)
             /\ FreeBlocks(h) \subseteq Cells
  BY HeapFields DEF FreeBlocks
<1> QED
  BY <1>1, <1>2

\* A set of numbers with a member below b has a greatest one.
LEMMA MaxBelow ==
  ASSUME NEW S \in SUBSET Nat, NEW b \in Nat, NEW a \in S, a < b
  PROVE  \E c \in S : c < b /\ \A d \in S : d <= c \/ b <= d
<1> DEFINE T == {n \in Nat : b - n \in S /\ n > 0}
           R == {ss \in Nat \X Nat : ss[1] < ss[2]}
<1>1. T \subseteq Nat /\ b - a \in T
  OBVIOUS
<1>2. IsWellFoundedOn(R, Nat)
  BY NatLessThanWellFounded, Zenon DEF OpToRel
<1> HIDE DEF R, T
<1>3. PICK n \in T : \A m \in T : ~(<<m, n>> \in R)
  BY <1>1, <1>2, WFMin
<1>4. \A m \in T : n <= m
  <2>1. \A i, j \in Nat : i < j => <<i, j>> \in R
    BY DEF R
  <2> SUFFICES ASSUME NEW m \in T
               PROVE  n <= m
    OBVIOUS
  <2>2. m \in Nat /\ n \in Nat
    BY <1>1
  <2>3. ~(m < n)
    BY <1>3, <2>1, <2>2
  <2> QED
    BY <2>2, <2>3
<1>5. n \in Nat /\ n > 0 /\ b - n \in S
  BY DEF T
<1>6. ASSUME NEW d \in S, d < b
      PROVE  d <= b - n
  <2>1. b - d \in T
    BY <1>6 DEF T
  <2> QED
    BY <1>4, <1>5, <2>1
<1> QED
  BY <1>5, <1>6

\* Every block but the first starts where another ends.
LEMMA Predecessor ==
  ASSUME NEW h \in Heap, Tiled(h), NEW b \in h.blocks, b # 0
  PROVE  \E c \in h.blocks \ {EndBlock} : c + h.mem[c].size = b
<1>1. h.blocks \in SUBSET Nat /\ b \in Nat /\ 0 \in h.blocks /\ 0 < b /\ b <= EndBlock
  BY Geometry DEF Tiled
<1>2. PICK c \in h.blocks : c < b /\ \A d \in h.blocks : d <= c \/ b <= d
  BY <1>1, MaxBelow
<1>3. c \in h.blocks \ {EndBlock}
  BY <1>1, <1>2, Geometry
<1>4. /\ c \in Nat /\ h.mem[c].size \in Nat /\ h.mem[c].size > HeadCells
      /\ c + h.mem[c].size \in h.blocks
      /\ b <= c \/ c + h.mem[c].size <= b
  BY <1>3, BlockBounds
<1>5. c + h.mem[c].size <= c \/ b <= c + h.mem[c].size
  BY <1>2, <1>4
<1>6. c + h.mem[c].size = b
  BY <1>1, <1>2, <1>4, <1>5, Geometry
<1> QED
  BY <1>3, <1>6

-----------------------------------------------------------------------------
(***************************************************************************)
(* Every routine rearranges the cells between two headers lo and hi and    *)
(* may set or clear FLAG_PREV_FREE of hi.  If the blocks it leaves between *)
(* them are in order, the whole heap is.                                   *)
(***************************************************************************)

\* g is h but for the cells from lo to hi, and hi keeps all but one flag.
SameOutside(h, g, lo, hi) ==
  /\ \A c \in Cells : c < lo \/ hi < c => g.mem[c] = h.mem[c]
  /\ \A c \in Cells : c < lo \/ hi <= c => (c \in g.blocks <=> c \in h.blocks)
  /\ g.mem[hi].magic = h.mem[hi].magic
  /\ g.mem[hi].size = h.mem[hi].size
  /\ g.mem[hi].free = h.mem[hi].free

Between(g, lo, hi) == {c \in g.blocks : lo <= c /\ c < hi}

TiledBetween(g, lo, hi) ==
  /\ lo \in g.blocks
  /\ \A c \in Between(g, lo, hi) :
       /\ g.mem[c].magic = 1
       /\ g.mem[c].size > HeadCells
       /\ c + g.mem[c].size \in g.blocks
       /\ c + g.mem[c].size <= hi
       /\ \A d \in Between(g, lo, hi) : d <= c \/ c + g.mem[c].size <= d

TaggedBetween(g, lo, hi) ==
  \A c \in Between(g, lo, hi) :
    LET next == c + g.mem[c].size
    IN  /\ g.mem[next].prevFree = g.mem[c].free
        /\ g.mem[c].free = 1 /\ next # EndBlock
             => g.mem[next - 1].size = g.mem[c].size

\* Two heaps, and two headers of the first between which they differ.
Window(h, g, lo, hi) ==
  /\ h \in Heap /\ g \in Heap
  /\ Tiled(h)
  /\ lo \in h.blocks /\ hi \in h.blocks /\ lo < hi
  /\ SameOutside(h, g, lo, hi)
  /\ TiledBetween(g, lo, hi)

\* The bounds of the part of the heap that an operation touches.
LEMMA WindowBasics ==
  ASSUME NEW h, NEW g, NEW lo, NEW hi, Window(h, g, lo, hi)
  PROVE  /\ h \in Heap /\ g \in Heap /\ Tiled(h) /\ lo \in Nat /\ hi \in Nat
         /\ lo \in h.blocks /\ hi \in h.blocks /\ hi <= EndBlock /\ lo < hi
         /\ 0 \in Cells /\ lo \in Cells /\ hi \in Cells
         /\ \A c \in g.blocks : c \in Cells /\ c \in Nat
<1>1. /\ h \in Heap /\ g \in Heap /\ Tiled(h) /\ lo \in Nat /\ hi \in Nat
      /\ lo \in h.blocks /\ hi \in h.blocks /\ hi <= EndBlock /\ lo < hi
      /\ 0 \in Cells /\ lo \in Cells /\ hi \in Cells
  BY Geometry DEF Window, Tiled, Cells
<1>2. \A c \in g.blocks : c \in Cells /\ c \in Nat
  BY <1>1, HeapFields DEF Cells
<1> QED
  BY <1>1, <1>2

\* A header below lo is a header of both heaps, and its block ends by lo.
LEMMA BelowWindow ==
  ASSUME NEW h, NEW g, NEW lo, NEW hi, Window(h, g, lo, hi),
         NEW c \in Cells, c < lo, c \in g.blocks
  PROVE  /\ c \in h.blocks \ {EndBlock}
         /\ g.mem[c] = h.mem[c]
         /\ h.mem[c].size \in Nat /\ h.mem[c].size > HeadCells
         /\ c + h.mem[c].size \in h.blocks
         /\ c + h.mem[c].size \in g.blocks
         /\ c + h.mem[c].size <= lo
<1>1. /\ h \in Heap /\ Tiled(h) /\ lo \in Nat /\ hi \in Nat /\ c \in Nat
      /\ lo \in h.blocks /\ hi \in h.blocks /\ hi <= EndBlock /\ lo < hi
  BY WindowBasics
<1>2. c \in h.blocks \ {EndBlock} /\ g.mem[c] = h.mem[c]
  BY <1>1, Geometry DEF Window, SameOutside
<1>3. /\ h.mem[c].size \in Nat /\ h.mem[c].size > HeadCells
      /\ c + h.mem[c].size \in h.blocks /\ c + h.mem[c].size \in Cells
      /\ c + h.mem[c].size <= lo
  BY <1>1, <1>2, BlockBounds
<1>4. c + h.mem[c].size \in g.blocks
  BY <1>1, <1>3 DEF Window, SameOutside, TiledBetween
<1> QED
  BY <1>2, <1>3, <1>4

\* A header from hi on is a header of both heaps, of the same block.
LEMMA AboveWindow ==
  ASSUME NEW h, NEW g, NEW lo, NEW hi, Window(h, g, lo, hi),
         NEW c \in Cells, hi <= c, c \in g.blocks \ {EndBlock}
  PROVE  /\ c \in h.blocks \ {EndBlock}
         /\ g.mem[c].size = h.mem[c].size
         /\ g.mem[c].free = h.mem[c].free
         /\ g.mem[c].magic = h.mem[c].magic
         /\ h.mem[c].size \in Nat /\ h.mem[c].size > HeadCells
         /\ c + h.mem[c].size \in h.blocks
         /\ c + h.mem[c].size \in g.blocks
         /\ g.mem[c + h.mem[c].size] = h.mem[c + h.mem[c].size]
         /\ g.mem[c + h.mem[c].size - 1] = h.mem[c + h.mem[c].size - 1]
<1>1. /\ h \in Heap /\ Tiled(h) /\ lo \in Nat /\ hi \in Nat /\ c \in Nat
      /\ lo \in h.blocks /\ hi \in h.blocks /\ hi <= EndBlock /\ lo < hi
  BY WindowBasics
<1>2. /\ c \in h.blocks \ {EndBlock}
      /\ g.mem[c].size = h.mem[c].size
      /\ g.mem[c].free = h.mem[c].free
      /\ g.mem[c].magic = h.mem[c].magic
  BY <1>1, Geometry DEF Window, SameOutside
<1>3. /\ h.mem[c].size \in Nat /\ h.mem[c].size > HeadCells
      /\ c + h.mem[c].size \in h.blocks /\ c + h.mem[c].size \in Cells
  BY <1>1, <1>2, BlockBounds
<1>4. /\ c + h.mem[c].size > hi /\ c + h.mem[c].size - 1 > hi
      /\ c + h.mem[c].size - 1 \in Cells
  BY <1>1, <1>3, Geometry DEF Cells
<1>5. c + h.mem[c].size \in g.blocks
  BY <1>1, <1>3, <1>4 DEF Window, SameOutside
<1>6. /\ g.mem[c + h.mem[c].size] = h.mem[c + h.mem[c].size]
      /\ g.mem[c + h.mem[c].size - 1] = h.mem[c + h.mem[c].size - 1]
  BY <1>1, <1>3, <1>4 DEF Window, SameOutside
<1> QED
  BY <1>2, <1>3, <1>5, <1>6

\* Blocks in order between lo and hi make a heap of blocks in order.
LEMMA WindowTiled ==
  ASSUME NEW h, NEW g, NEW lo, NEW hi, Window(h, g, lo, hi)
  PROVE  Tiled(g)
<1>1. /\ h \in Heap /\ g \in Heap /\ Tiled(h) /\ lo \in Nat /\ hi \in Nat
      /\ lo \in h.blocks /\ hi \in h.blocks /\ hi <= EndBlock /\ lo < hi
      /\ hi \in Cells /\ lo \in Cells
  BY WindowBasics
<1>2. /\ 0 \in h.blocks /\ EndBlock \in h.blocks /\ h.blocks \subseteq 0 .. EndBlock
      /\ 0 \in Cells /\ EndBlock \in Cells
  BY <1>1, Geometry DEF Tiled, Cells
<1>3. \A c \in g.blocks : c \in Cells /\ c \in Nat
  BY WindowBasics
<1>4. 0 \in g.blocks /\ EndBlock \in g.blocks
  BY <1>1, <1>2, Geometry DEF Window, SameOutside, TiledBetween
<1>5. ASSUME NEW c \in g.blocks
      PROVE  c \in 0 .. EndBlock
  <2>1. CASE c < hi
    BY <1>1, <1>3, <2>1, Geometry
  <2>2. CASE hi <= c
    BY <1>1, <1>2, <1>3, <2>2 DEF Window, SameOutside
  <2> QED
    BY <1>1, <1>3, <2>1, <2>2
<1>6. g.mem[EndBlock].size = 0 /\ g.mem[EndBlock].free = 0 /\ g.mem[EndBlock].magic = 1
  BY <1>1, <1>2, Geometry DEF Window, SameOutside, Tiled
<1>7. ASSUME NEW c \in g.blocks \ {EndBlock}
      PROVE  /\ g.mem[c].magic = 1
             /\ g.mem[c].size > HeadCells
             /\ c + g.mem[c].size \in g.blocks
             /\ \A d \in g.blocks : d <= c \/ c + g.mem[c].size <= d
  <2>0. c \in Cells /\ c \in Nat
    BY <1>3, <1>7
  <2>1. CASE c < lo
    <3>1. /\ c \in h.blocks \ {EndBlock}
          /\ g.mem[c] = h.mem[c]
          /\ h.mem[c].size > HeadCells
          /\ c + h.mem[c].size \in g.blocks
          /\ c + h.mem[c].size <= lo
          /\ h.mem[c].size \in Nat
      BY <1>7, <2>0, <2>1, BelowWindow
    <3>2. ASSUME NEW d \in g.blocks, d < lo
          PROVE  d <= c \/ c + h.mem[c].size <= d
      <4>1. d \in h.blocks
        BY <1>3, <3>2, BelowWindow
      <4> QED
        BY <1>1, <3>1, <4>1, BlockBounds
    <3>3. ASSUME NEW d \in g.blocks, lo <= d
          PROVE  c + h.mem[c].size <= d
      <4>1. d \in Nat
        BY <1>3
      <4> QED
        BY <1>1, <2>0, <3>1, <3>3, <4>1
    <3>4. h.mem[c].magic = 1
      BY <1>1, <3>1 DEF Tiled
    <3> QED
      <4>1. ASSUME NEW d \in g.blocks
            PROVE  d <= c \/ c + h.mem[c].size <= d
        <5>1. d \in Nat
          BY <1>3
        <5> QED
          BY <1>1, <3>2, <3>3, <5>1
      <4> QED
        BY <3>1, <3>4, <4>1
  <2>2. CASE lo <= c /\ c < hi
    <3>1. c \in Between(g, lo, hi)
      BY <1>7, <2>2 DEF Between
    <3>2. /\ g.mem[c].magic = 1
          /\ g.mem[c].size > HeadCells
          /\ c + g.mem[c].size \in g.blocks
          /\ c + g.mem[c].size <= hi
          /\ \A d \in Between(g, lo, hi) : d <= c \/ c + g.mem[c].size <= d
          /\ g.mem[c].size \in Nat
      BY <1>1, <1>3, <3>1, HeapFields DEF Window, TiledBetween
    <3>3. ASSUME NEW d \in g.blocks
          PROVE  d <= c \/ c + g.mem[c].size <= d
      <4>1. d \in Nat
        BY <1>3
      <4>2. CASE d \in Between(g, lo, hi)
        BY <3>2, <4>2
      <4>3. CASE d < lo \/ hi <= d
        BY <1>1, <2>0, <2>2, <3>2, <4>1, <4>3
      <4> QED
        BY <1>1, <4>1, <4>2, <4>3 DEF Between
    <3> QED
      BY <3>2, <3>3
  <2>3. CASE hi <= c
    <3>1. /\ c \in h.blocks \ {EndBlock}
          /\ g.mem[c].size = h.mem[c].size
          /\ g.mem[c].magic = h.mem[c].magic
          /\ h.mem[c].size > HeadCells
          /\ c + h.mem[c].size \in g.blocks
          /\ h.mem[c].size \in Nat
      BY <1>7, <2>0, <2>3, AboveWindow
    <3>2. ASSUME NEW d \in g.blocks, hi <= d
          PROVE  d <= c \/ c + h.mem[c].size <= d
      <4>1. d \in h.blocks
        BY <1>1, <1>3, <3>2 DEF Window, SameOutside
      <4> QED
        BY <1>1, <3>1, <4>1, BlockBounds
    <3>3. h.mem[c].magic = 1
      BY <1>1, <3>1 DEF Tiled
    <3>4. ASSUME NEW d \in g.blocks
          PROVE  d <= c \/ c + h.mem[c].size <= d
      <4>1. d \in Nat
        BY <1>3
      <4> QED
        BY <1>1, <2>0, <2>3, <3>2, <4>1
    <3> QED
      BY <3>1, <3>3, <3>4
  <2> QED
    BY <1>1, <2>0, <2>1, <2>2, <2>3
<1> QED
  BY <1>4, <1>5, <1>6, <1>7 DEF Tiled

\* If moreover the tags between lo and hi agree, all tags do.
LEMMA WindowTagged ==
  ASSUME NEW h, NEW g, NEW lo, NEW hi, Window(h, g, lo, hi),
         Tagged(h), TaggedBetween(g, lo, hi),
         g.mem[lo].prevFree = h.mem[lo].prevFree
  PROVE  Tagged(g)
<1>1. /\ h \in Heap /\ g \in Heap /\ Tiled(h) /\ lo \in Nat /\ hi \in Nat
      /\ 0 \in Cells /\ lo \in Cells /\ hi \in Cells
      /\ \A c \in g.blocks : c \in Cells /\ c \in Nat
  BY WindowBasics
<1>2. g.mem[0].prevFree = 0
  BY <1>1 DEF Tagged, Window, SameOutside
<1>3. ASSUME NEW c \in g.blocks \ {EndBlock}
      PROVE  LET next == c + g.mem[c].size
             IN  /\ g.mem[next].prevFree = g.mem[c].free
                 /\ g.mem[c].free = 1 /\ next # EndBlock
                      => g.mem[next - 1].size = g.mem[c].size
  <2>0. c \in Cells /\ c \in Nat
    BY <1>1, <1>3
  <2>1. CASE c < lo
    <3> DEFINE next == c + h.mem[c].size
    <3>1. /\ c \in h.blocks \ {EndBlock}
          /\ g.mem[c] = h.mem[c]
          /\ h.mem[c].size \in Nat /\ h.mem[c].size > HeadCells
          /\ next \in h.blocks /\ next <= lo
      BY <1>3, <2>0, <2>1, BelowWindow
    <3>2. next \in Cells /\ next - 1 \in Cells /\ next - 1 < lo
      BY <1>1, <2>0, <3>1, Geometry DEF Cells
    <3>3. g.mem[next - 1] = h.mem[next - 1]
      BY <3>2 DEF Window, SameOutside
    <3>4. g.mem[next].prevFree = h.mem[next].prevFree
      <4>1. next \in Nat
        BY <2>0, <3>1
      <4>2. CASE next = lo
        BY <4>2
      <4>3. CASE next < lo
        BY <3>2, <4>3 DEF Window, SameOutside
      <4> QED
        BY <1>1, <3>1, <4>1, <4>2, <4>3
    <3> QED
      BY <3>1, <3>3, <3>4 DEF Tagged
  <2>2. CASE lo <= c /\ c < hi
    BY <1>3, <2>2 DEF TaggedBetween, Between
  <2>3. CASE hi <= c
    <3> DEFINE next == c + h.mem[c].size
    <3>1. /\ c \in h.blocks \ {EndBlock}
          /\ g.mem[c].size = h.mem[c].size
          /\ g.mem[c].free = h.mem[c].free
          /\ g.mem[next] = h.mem[next]
          /\ g.mem[next - 1] = h.mem[next - 1]
      BY <1>3, <2>0, <2>3, AboveWindow
    <3> QED
      BY <3>1 DEF Tagged
  <2> QED
    BY <1>1, <2>0, <2>1, <2>2, <2>3
<1> QED
  BY <1>2, <1>3 DEF Tagged

\* No two free blocks are neighbours, but perhaps b and the one below it.
CoalescedExcept(h, b) ==
  \A c \in FreeBlocks(h) :
    c + h.mem[c].size # b => h.mem[c + h.mem[c].size].free = 0

(***************************************************************************)
(* If free neighbours were merged outside the window and are merged inside *)
(* it, at most the block at lo may have a free block below it.             *)
(***************************************************************************)
LEMMA WindowCoalesced ==
  ASSUME NEW h, NEW g, NEW lo, NEW hi, Window(h, g, lo, hi),
         NEW x \in Nat, lo <= x, x <= hi, CoalescedExcept(h, x),
         \A c \in Between(g, lo, hi) : g.mem[c].free = 1 => g.mem[c + g.mem[c].size].free = 0
  PROVE  CoalescedExcept(g, lo)
<1>1. /\ g \in Heap /\ h \in Heap /\ lo \in Nat /\ hi \in Nat /\ lo \in Cells
      /\ \A c \in g.blocks : c \in Cells /\ c \in Nat
  BY WindowBasics
<1>2. Tiled(g)
  BY WindowTiled
<1> SUFFICES ASSUME NEW c \in FreeBlocks(g), c + g.mem[c].size # lo
             PROVE  g.mem[c + g.mem[c].size].free = 0
  BY DEF CoalescedExcept
<1>3. c \in g.blocks \ {EndBlock} /\ g.mem[c].free = 1 /\ c \in Cells /\ c \in Nat
  BY <1>1, <1>2 DEF FreeBlocks, Tiled
<1>4. CASE c < lo
  <2> DEFINE next == c + h.mem[c].size
  <2>1. /\ c \in h.blocks /\ g.mem[c] = h.mem[c]
        /\ next \in h.blocks /\ next \in g.blocks /\ next <= lo
    BY <1>3, <1>4, BelowWindow
  <2>2. c \in FreeBlocks(h)
    BY <1>3, <2>1 DEF FreeBlocks
  <2>3. next \in Cells /\ next \in Nat /\ next < lo /\ next # x
    BY <1>1, <2>1
  <2>4. g.mem[next] = h.mem[next]
    BY <2>3 DEF Window, SameOutside
  <2> QED
    BY <2>1, <2>2, <2>3, <2>4 DEF CoalescedExcept
<1>5. CASE lo <= c /\ c < hi
  BY <1>3, <1>5 DEF Between
<1>6. CASE hi <= c
  <2> DEFINE next == c + h.mem[c].size
  <2>1. /\ c \in h.blocks
        /\ g.mem[c].size = h.mem[c].size
        /\ g.mem[c].free = h.mem[c].free
        /\ g.mem[next] = h.mem[next]
        /\ h.mem[c].size \in Nat /\ h.mem[c].size > HeadCells
    BY <1>3, <1>6, AboveWindow
  <2>2. c \in FreeBlocks(h)
    BY <1>3, <2>1 DEF FreeBlocks
  <2>3. next # x
    BY <1>1, <1>3, <1>6, <2>1, Geometry
  <2> QED
    BY <2>1, <2>2, <2>3 DEF CoalescedExcept
<1> QED
  BY <1>1, <1>3, <1>4, <1>5, <1>6

\* FLAG_PREV_FREE of b says whether the block below it is free too.
LEMMA LoneBlock ==
  ASSUME NEW h \in Heap, Tiled(h), Tagged(h), NEW b, CoalescedExcept(h, b),
         h.mem[b].free = 0 \/ h.mem[b].prevFree = 0
  PROVE  Coalesced(h)
<1> SUFFICES ASSUME NEW c \in FreeBlocks(h)
             PROVE  h.mem[c + h.mem[c].size].free = 0
  BY DEF Coalesced
<1>1. c \in h.blocks \ {EndBlock} /\ h.mem[c].free = 1
  BY DEF FreeBlocks, Tiled
<1>2. CASE c + h.mem[c].size = b
  <2>1. h.mem[b].prevFree = 1
    BY <1>1, <1>2 DEF Tagged
  <2> QED
    BY <1>2, <2>1
<1>3. CASE c + h.mem[c].size # b
  BY <1>3 DEF CoalescedExcept
<1> QED
  BY <1>2, <1>3

\* Outside the window the same blocks are free, and in use, with the same size.
LEMMA WindowUsed ==
  ASSUME NEW h, NEW g, NEW lo, NEW hi, Window(h, g, lo, hi),
         NEW c \in Cells, c < lo \/ hi <= c
  PROVE  /\ c \in FreeBlocks(g) <=> c \in FreeBlocks(h)
         /\ c \in UsedBlocks(g) <=> c \in UsedBlocks(h)
         /\ g.mem[c].size = h.mem[c].size
<1>1. lo \in Nat /\ hi \in Nat /\ c \in Nat
  BY WindowBasics DEF Cells
<1>2. /\ c \in g.blocks <=> c \in h.blocks
      /\ g.mem[c].free = h.mem[c].free
      /\ g.mem[c].size = h.mem[c].size
  BY <1>1 DEF Window, SameOutside
<1> QED
  BY <1>2 DEF FreeBlocks, UsedBlocks

-----------------------------------------------------------------------------
\* What the stores to a header or a footer change, and what they keep.
LEMMA WithSizeCell ==
  ASSUME NEW c \in Cell, NEW s \in Nat
  PROVE  LET d == WithSize(c, s)
         IN  /\ d \in Cell /\ d.size = s /\ d.magic = c.magic
             /\ d.free = c.free /\ d.prevFree = c.prevFree
BY DEF WithSize, Cell

\* A header with another FREE bit.
LEMMA WithFreeCell ==
  ASSUME NEW c \in Cell, NEW f \in Bit
  PROVE  LET d == WithFree(c, f)
         IN  /\ d \in Cell /\ d.size = c.size /\ d.magic = c.magic
             /\ d.free = f /\ d.prevFree = c.prevFree
BY DEF WithFree, Cell

\* A header with another PREV_FREE bit.
LEMMA WithPrevFreeCell ==
  ASSUME NEW c \in Cell, NEW f \in Bit
  PROVE  LET d == WithPrevFree(c, f)
         IN  /\ d \in Cell /\ d.size = c.size /\ d.magic = c.magic
             /\ d.free = c.free /\ d.prevFree = f
BY DEF WithPrevFree, Cell

\* The footer of a free block.
LEMMA FooterCell ==
  ASSUME NEW c \in Cell, NEW s \in Nat
  PROVE  LET d == Footer(c, s)
         IN  d \in Cell /\ d.size = s /\ d.magic = c.magic
BY DEF Footer, Cell, Bit

\* A header with its magic.
LEMMA HeaderCell ==
  ASSUME NEW s \in Nat, NEW f \in Bit, NEW pf \in Bit
  PROVE  LET d == Header(s, f, pf)
         IN  /\ d \in Cell /\ d.size = s /\ d.magic = 1
             /\ d.free = f /\ d.prevFree = pf
BY DEF Header, Cell, Bit

\* size_t arithmetic is exact below the wrap.
LEMMA ModSmall ==
  ASSUME NEW x \in Nat, NEW m \in Nat, x < m
  PROVE  x % m = x
OBVIOUS

\* A block that simple_malloc takes, and a request that does not wrap.
Takes(h, b, want) ==
  /\ h \in Heap
  /\ HeapOK(h)
  /\ b \in FreeBlocks(h)
  /\ want \in Nat
  /\ want >= 1
  /\ want + HeadCells < SizeCells
  /\ Fits(h, b, want)

\* What the arithmetic of simple_malloc comes to.
LEMMA TakeArithmetic ==
  ASSUME NEW h, NEW b, NEW want, Takes(h, b, want)
  PROVE  /\ b \in h.blocks \ {EndBlock}
         /\ b \in Nat /\ h.mem[b].size \in Nat
         /\ (want + HeadCells) % SizeCells = want + HeadCells
         /\ h.mem[b].size >= want + HeadCells
         /\ Remaining(h, b, want) = h.mem[b].size - HeadCells - want
         /\ (b + HeadCells + want) % SizeCells = b + HeadCells + want
<1> USE DEF Takes, HeapOK
<1>1. b \in h.blocks \ {EndBlock}
  BY DEF FreeBlocks, Tiled
<1>2. /\ b \in Nat /\ h.mem[b].size \in Nat
      /\ b + h.mem[b].size <= EndBlock
  BY <1>1, BlockBounds
<1>3. (want + HeadCells) % SizeCells = want + HeadCells
  BY ModSmall, Geometry
<1>4. h.mem[b].size >= want + HeadCells
  BY <1>3 DEF Fits
<1>5. Remaining(h, b, want) = h.mem[b].size - HeadCells - want
  <2>1. /\ h.mem[b].size - HeadCells - want \in Nat
        /\ h.mem[b].size - HeadCells - want < SizeCells
    BY <1>2, <1>4, Geometry
  <2> QED
    BY <2>1, ModSmall, Geometry DEF Remaining
<1>6. (b + HeadCells + want) % SizeCells = b + HeadCells + want
  <2>1. b + HeadCells + want \in Nat /\ b + HeadCells + want < SizeCells
    BY <1>2, <1>4, Geometry
  <2> QED
    BY <2>1, ModSmall, Geometry
<1> QED
  BY <1>1, <1>2, <1>3, <1>4, <1>5, <1>6

(***************************************************************************)
(* Splitting a block keeps the heap intact: the front is in use with the   *)
(* size asked for, the rest is a free block, and no other block changes.   *)
(***************************************************************************)
LEMMA SplitOK ==
  ASSUME NEW h, NEW b, NEW want, Takes(h, b, want), MustSplit(h, b, want)
  PROVE  LET g == SplitBlock(h, b, want)
         IN  /\ g \in Heap
             /\ HeapOK(g)
             /\ b \in h.blocks \ {EndBlock}
             /\ UsedBlocks(g) = UsedBlocks(h) \cup {b}
             /\ g.mem[b].size = want + HeadCells
             /\ \A c \in UsedBlocks(h) : g.mem[c].size = h.mem[c].size
<1> DEFINE s   == h.mem[b].size
           rem == s - HeadCells - want
           new == b + HeadCells + want
           g   == SplitBlock(h, b, want)
<1>1. /\ h \in Heap /\ Tiled(h) /\ Tagged(h) /\ Coalesced(h) /\ Listed(h)
      /\ b \in FreeBlocks(h) /\ want \in Nat /\ want >= 1
  BY DEF Takes, HeapOK
<1>2. /\ b \in h.blocks \ {EndBlock} /\ b \in Nat /\ s \in Nat
      /\ rem > HeadCells + 1
      /\ b + s <= EndBlock /\ b + s \in h.blocks /\ b + s \in Cells
      /\ b \in Cells /\ new \in Cells /\ new + rem - 1 \in Cells
      /\ new # b + s - 1 /\ new # b /\ b + s - 1 # b
      /\ new + rem = b + s
  BY <1>1, TakeArithmetic, BlockBounds, Geometry, SMTT(60) DEF MustSplit, Cells
<1>3. /\ Remaining(h, b, want) = rem
      /\ (b + HeadCells + want) % SizeCells = new
      /\ (want + HeadCells) % SizeCells = want + HeadCells
  BY TakeArithmetic
<1>4. /\ g.mem = [h.mem EXCEPT
                  ![new + rem - 1] = Footer(@, rem),
                  ![new] = Header(rem, 1, 0),
                  ![b] = WithFree(WithSize(@, want + HeadCells), 0)]
      /\ g.lst = list_add(list_del(h.lst, b), new, free_mem_list_head)
      /\ g.blocks = h.blocks \cup {new}
      /\ g = [mem |-> g.mem, lst |-> g.lst, blocks |-> g.blocks]
  <2> HIDE DEF rem, new
  <2> QED
    BY <1>3 DEF SplitBlock
<1>5. /\ g.mem \in [Cells -> Cell]
      /\ \A c \in Cells \ {b, new, b + s - 1} : g.mem[c] = h.mem[c]
      /\ g.mem[b].magic = h.mem[b].magic /\ g.mem[b].size = want + HeadCells
      /\ g.mem[b].free = 0 /\ g.mem[b].prevFree = h.mem[b].prevFree
      /\ g.mem[new].magic = 1 /\ g.mem[new].size = rem
      /\ g.mem[new].free = 1 /\ g.mem[new].prevFree = 0
      /\ g.mem[b + s - 1].size = rem
  <2>1. /\ new + rem - 1 = b + s - 1
        /\ rem \in Nat /\ want + HeadCells \in Nat
    BY <1>1, <1>2, Geometry
  <2> HIDE DEF rem, new, s, g
  <2>2. h.mem \in [Cells -> Cell]
    BY <1>1, HeapFields
  <2>3. /\ g.mem[b] = WithFree(WithSize(h.mem[b], want + HeadCells), 0)
        /\ g.mem[new] = Header(rem, 1, 0)
        /\ g.mem[b + s - 1] = Footer(h.mem[b + s - 1], rem)
        /\ \A c \in Cells \ {b, new, b + s - 1} : g.mem[c] = h.mem[c]
        /\ DOMAIN g.mem = Cells /\ g.mem = [c \in Cells |-> g.mem[c]]
    BY <1>2, <1>4, <2>1, <2>2
  <2>4. /\ g.mem[b] \in Cell
        /\ g.mem[b].magic = h.mem[b].magic /\ g.mem[b].size = want + HeadCells
        /\ g.mem[b].free = 0 /\ g.mem[b].prevFree = h.mem[b].prevFree
    <3> DEFINE k == want + HeadCells
               c == WithSize(h.mem[b], k)
    <3>1. h.mem[b] \in Cell /\ k \in Nat
      BY <1>2, <2>1, <2>2
    <3>2. g.mem[b] = WithFree(c, 0)
      BY <2>3
    <3> HIDE DEF k
    <3>3. /\ c \in Cell /\ c.size = k /\ c.magic = h.mem[b].magic
          /\ c.prevFree = h.mem[b].prevFree
      BY <3>1, WithSizeCell
    <3>4. 0 \in Bit
      BY DEF Bit
    <3> HIDE DEF c
    <3>5. /\ g.mem[b] \in Cell /\ g.mem[b].magic = h.mem[b].magic /\ g.mem[b].size = k
          /\ g.mem[b].free = 0 /\ g.mem[b].prevFree = h.mem[b].prevFree
      BY <3>2, <3>3, <3>4, WithFreeCell
    <3> QED
      BY <3>5 DEF k
  <2>5. /\ g.mem[b + s - 1] \in Cell /\ g.mem[b + s - 1].size = rem
    <3> DEFINE foot == b + s - 1
    <3>1. h.mem[foot] \in Cell /\ g.mem[foot] = Footer(h.mem[foot], rem)
      BY <1>2, <2>1, <2>2, <2>3
    <3> HIDE DEF foot
    <3>2. g.mem[foot] \in Cell /\ g.mem[foot].size = rem
      BY <2>1, <3>1, FooterCell
    <3> QED
      BY <3>2 DEF foot
  <2>6. /\ g.mem[new] \in Cell
        /\ g.mem[new].magic = 1 /\ g.mem[new].size = rem
        /\ g.mem[new].free = 1 /\ g.mem[new].prevFree = 0
    BY <2>1, <2>3, HeaderCell DEF Bit
  <2>7. \A c \in Cells : g.mem[c] \in Cell
    BY <2>2, <2>3, <2>4, <2>5, <2>6
  <2> QED
    BY <2>3, <2>4, <2>5, <2>6, <2>7
<1> HIDE DEF g
<1>6. /\ new \notin h.blocks
      /\ g.lst \in ListType(Nodes)
      /\ WellLinked(g.lst, ((FreeBlocks(h) \cup {free_mem_list_head}) \ {b}) \cup {new})
  <2>1. new \notin h.blocks
    <3>1. b < new /\ new < b + s
      BY <1>1, <1>2, Geometry
    <3>2. ASSUME new \in h.blocks
          PROVE  new <= b \/ b + s <= new
      BY <1>1, <1>2, <3>2, BlockBounds
    <3> QED
      BY <1>1, <1>2, <3>1, <3>2, Geometry
  <2> HIDE DEF new
  <2>2. /\ WellLinked(list_del(h.lst, b), (FreeBlocks(h) \cup {free_mem_list_head}) \ {b})
        /\ list_del(h.lst, b) \in ListType(Nodes)
    BY <1>1, FreeListNodes, ListDelLinks DEF Listed
  <2>3. /\ (FreeBlocks(h) \cup {free_mem_list_head}) \ {b} \subseteq Nodes
        /\ free_mem_list_head \in (FreeBlocks(h) \cup {free_mem_list_head}) \ {b}
        /\ new \in Nodes
        /\ new \notin (FreeBlocks(h) \cup {free_mem_list_head}) \ {b}
    BY <1>1, <1>2, <2>1, FreeListNodes DEF Nodes, FreeBlocks
  <2> QED
    BY <1>4, <2>1, <2>2, <2>3, ListAddLinks
<1>7. g \in Heap
  <2>1. g.blocks \subseteq Cells
    BY <1>1, <1>2, <1>4, HeapFields
  <2> QED
    BY <1>4, <1>5, <1>6, <2>1 DEF Heap, ListType, Links
<1>8. Between(g, b, b + s) = {b, new}
  <2>1. ASSUME NEW c \in h.blocks, b <= c, c < b + s
        PROVE  c = b
    <3>1. c \in Int /\ (c <= b \/ b + s <= c)
      BY <1>1, <1>2, BlockBounds
    <3> QED
      BY <1>2, <2>1, <3>1
  <2>2. b <= new /\ new < b + s /\ b < b + s /\ b <= b
    BY <1>1, <1>2, Geometry
  <2> HIDE DEF s, new
  <2> QED
    BY <1>2, <1>4, <2>1, <2>2 DEF Between
<1>9. Window(h, g, b, b + s)
  <2>1. SameOutside(h, g, b, b + s)
    <3>1. ASSUME NEW c \in Cells, c < b \/ b + s <= c
          PROVE  g.mem[c] = h.mem[c] /\ c # new
      <4>1. c \in Nat
        BY DEF Cells
      <4>2. c # b /\ c # new /\ c # b + s - 1
        BY <1>1, <1>2, <3>1, <4>1, Geometry
      <4> QED
        BY <1>5, <4>2
    <3>2. \A c \in Cells : c < b \/ b + s < c => c < b \/ b + s <= c
      BY <1>2 DEF Cells
    <3>3. ~(b + s < b) /\ b + s <= b + s
      BY <1>2
    <3> HIDE DEF s, new
    <3> QED
      BY <1>2, <1>4, <3>1, <3>2, <3>3 DEF SameOutside
  <2>2. TiledBetween(g, b, b + s)
    <3>1. b + g.mem[b].size = new /\ new + g.mem[new].size = b + s
      BY <1>1, <1>2, <1>5, Geometry
    <3>2. /\ g.mem[b].magic = 1 /\ g.mem[new].magic = 1
          /\ g.mem[b].size > HeadCells /\ g.mem[new].size > HeadCells
      BY <1>1, <1>2, <1>5, Geometry DEF Tiled
    <3>3. new <= b + s /\ b + s <= b + s /\ b <= b /\ new <= new /\ b <= new
      BY <1>1, <1>2, Geometry
    <3> HIDE DEF s, new, rem
    <3> QED
      BY <1>2, <1>4, <1>8, <3>1, <3>2, <3>3 DEF TiledBetween
  <2>3. b < b + s
    BY <1>1, <1>2, Geometry
  <2> HIDE DEF s
  <2> QED
    BY <1>1, <1>2, <1>7, <2>1, <2>2, <2>3 DEF Window
<1>10. Tiled(g)
  BY <1>9, WindowTiled
<1>11. Tagged(g)
  <2>1. h.mem[b + s].prevFree = 1
    BY <1>1, <1>2 DEF Tagged, FreeBlocks
  <2>2. g.mem[b + s].prevFree = 1
    <3>1. b + s # b /\ b + s # new /\ b + s # b + s - 1
      BY <1>1, <1>2, Geometry
    <3> HIDE DEF s, new
    <3> QED
      BY <1>2, <1>5, <2>1, <3>1
  <2>3. TaggedBetween(g, b, b + s)
    <3>1. b + g.mem[b].size = new /\ new + g.mem[new].size = b + s
      BY <1>1, <1>2, <1>5, Geometry
    <3> HIDE DEF s, new, rem
    <3>3. /\ g.mem[b + g.mem[b].size].prevFree = g.mem[b].free
          /\ g.mem[b].free # 1
      BY <1>5, <3>1
    <3>4. ASSUME NEW c \in Between(g, b, b + s)
          PROVE  LET next == c + g.mem[c].size
                 IN  /\ g.mem[next].prevFree = g.mem[c].free
                     /\ g.mem[c].free = 1 /\ next # EndBlock
                          => g.mem[next - 1].size = g.mem[c].size
      <4>1. CASE c = b
        BY <3>3, <4>1
      <4>2. CASE c = new
        <5> DEFINE next == c + g.mem[c].size
        <5>1. next = b + s
          BY <3>1, <4>2
        <5> HIDE DEF next
        <5>2. g.mem[next - 1].size = rem /\ g.mem[next].prevFree = 1
          BY <1>2, <1>5, <2>2, <5>1
        <5> QED
          BY <1>5, <4>2, <5>2 DEF next
      <4>3. c = b \/ c = new
        BY <1>8
      <4> QED
        BY <4>1, <4>2, <4>3, Zenon
    <3> QED
      BY <3>4 DEF TaggedBetween
  <2> QED
    BY <1>1, <1>5, <1>9, <2>3, WindowTagged
<1>12. Coalesced(g)
  <2>1. new + g.mem[new].size = b + s /\ g.mem[b + s].free = h.mem[b + s].free
    BY <1>1, <1>2, <1>5, <1>9, Geometry DEF Window, SameOutside
  <2>2. h.mem[b + s].free = 0
    BY <1>1 DEF Coalesced
  <2> HIDE DEF s, new
  <2>3. \A c \in Between(g, b, b + s) : g.mem[c].free = 1 => g.mem[c + g.mem[c].size].free = 0
    BY <1>5, <1>8, <2>1, <2>2
  <2>4. CoalescedExcept(h, b) /\ b <= b /\ b <= b + s
    BY <1>1, <1>2 DEF Coalesced, CoalescedExcept, s
  <2>5. CoalescedExcept(g, b)
    BY <1>2, <1>9, <2>3, <2>4, WindowCoalesced
  <2> QED
    BY <1>5, <1>7, <1>10, <1>11, <2>5, LoneBlock
<1>13. /\ FreeBlocks(g) = (FreeBlocks(h) \ {b}) \cup {new}
       /\ UsedBlocks(g) = UsedBlocks(h) \cup {b}
       /\ \A c \in UsedBlocks(h) : g.mem[c].size = h.mem[c].size
  <2>1. ASSUME NEW c \in Cells, c # b, c # new
        PROVE  /\ c \in FreeBlocks(g) <=> c \in FreeBlocks(h)
               /\ c \in UsedBlocks(g) <=> c \in UsedBlocks(h)
               /\ c \in UsedBlocks(h) => g.mem[c].size = h.mem[c].size
    <3>1. CASE c < b \/ b + s <= c
      BY <1>9, <3>1, WindowUsed
    <3>2. CASE c \notin h.blocks
      BY <1>4, <2>1, <3>2 DEF FreeBlocks, UsedBlocks
    <3> QED
      BY <1>1, <1>2, <2>1, <3>1, <3>2, OutsideBlock
  <2>2. new \notin h.blocks /\ new # EndBlock
    BY <1>1, <1>6 DEF Tiled
  <2>3. /\ FreeBlocks(h) \subseteq Cells /\ UsedBlocks(h) \subseteq Cells
        /\ FreeBlocks(g) \subseteq Cells /\ UsedBlocks(g) \subseteq Cells
    BY <1>1, <1>7, HeapFields DEF FreeBlocks, UsedBlocks
  <2>4. /\ b \in UsedBlocks(g) /\ b \notin FreeBlocks(g)
        /\ b \in FreeBlocks(h) /\ b \notin UsedBlocks(h)
        /\ new \in FreeBlocks(g) /\ new \notin UsedBlocks(g)
        /\ new \notin FreeBlocks(h) /\ new \notin UsedBlocks(h)
    <3> HIDE DEF new, s, rem
    <3> QED
      BY <1>1, <1>2, <1>4, <1>5, <2>2 DEF FreeBlocks, UsedBlocks
  <2> HIDE DEF new
  <2> QED
    BY <2>1, <2>3, <2>4
<1>14. Listed(g)
  <2>1. free_mem_list_head # b
    BY <1>2, FreeListNodes
  <2>2. FreeBlocks(g) \cup {free_mem_list_head}
          = ((FreeBlocks(h) \cup {free_mem_list_head}) \ {b}) \cup {new}
    BY <1>13, <2>1
  <2> QED
    BY <1>6, <2>2 DEF Listed
<1> QED
  BY <1>2, <1>5, <1>7, <1>10, <1>11, <1>12, <1>13, <1>14 DEF HeapOK, g

-----------------------------------------------------------------------------
(***************************************************************************)
(* A block changes hands: its FLAG_FREE, the next header's FLAG_PREV_FREE  *)
(* and perhaps its own footer are written.                                 *)
(***************************************************************************)
Relabelled(h, g, b, f) ==
  LET s    == h.mem[b].size
      next == b + s
  IN  /\ h \in Heap /\ g \in Heap /\ Tiled(h) /\ Tagged(h) /\ f \in Bit
      /\ b \in h.blocks \ {EndBlock}
      /\ g.blocks = h.blocks
      /\ \A c \in Cells : c < b \/ next < c => g.mem[c] = h.mem[c]
      /\ g.mem[b].magic = 1 /\ g.mem[b].size = s
      /\ g.mem[b].free = f /\ g.mem[b].prevFree = h.mem[b].prevFree
      /\ g.mem[next].magic = h.mem[next].magic
      /\ g.mem[next].size = h.mem[next].size
      /\ g.mem[next].free = h.mem[next].free
      /\ g.mem[next].prevFree = f
      /\ f = 1 => g.mem[next - 1].size = s

\* Marking a block free or used, with its footer and its successor's bit, keeps
\* the tiling and the tags.
LEMMA RelabelledOK ==
  ASSUME NEW h, NEW g, NEW b, NEW f, Relabelled(h, g, b, f), Coalesced(h),
         f = 1 => h.mem[b + h.mem[b].size].free = 0
  PROVE  /\ Tiled(g) /\ Tagged(g) /\ CoalescedExcept(g, b)
         /\ FreeBlocks(g) = IF f = 1 THEN FreeBlocks(h) \cup {b} ELSE FreeBlocks(h) \ {b}
         /\ \A c \in h.blocks : g.mem[c].size = h.mem[c].size
<1> DEFINE s    == h.mem[b].size
           next == b + s
<1>1. /\ h \in Heap /\ g \in Heap /\ Tiled(h) /\ Tagged(h) /\ f \in Bit
      /\ b \in h.blocks \ {EndBlock}
      /\ g.blocks = h.blocks
      /\ \A c \in Cells : c < b \/ next < c => g.mem[c] = h.mem[c]
      /\ g.mem[b].magic = 1 /\ g.mem[b].size = s
      /\ g.mem[b].free = f /\ g.mem[b].prevFree = h.mem[b].prevFree
      /\ g.mem[next].magic = h.mem[next].magic
      /\ g.mem[next].size = h.mem[next].size
      /\ g.mem[next].free = h.mem[next].free
      /\ g.mem[next].prevFree = f
      /\ f = 1 => g.mem[next - 1].size = s
  BY DEF Relabelled
<1>2. /\ b \in Nat /\ s \in Nat /\ s > HeadCells /\ next \in h.blocks /\ next \in Cells
      /\ b \in Cells /\ b < next /\ next \in Nat
      /\ \A c \in h.blocks : c \in Int /\ (c <= b \/ next <= c)
  <2>1. h \in Heap /\ Tiled(h) /\ b \in h.blocks \ {EndBlock}
    BY <1>1
  <2> QED
    BY <2>1, BlockBounds, Geometry
<1>3. Between(g, b, next) = {b}
  BY <1>1, <1>2 DEF Between
<1>4. Window(h, g, b, next)
  <2>1. SameOutside(h, g, b, next)
    BY <1>1 DEF SameOutside
  <2>2. TiledBetween(g, b, next)
    <3>1. /\ b \in g.blocks /\ g.mem[b].magic = 1 /\ g.mem[b].size > HeadCells
          /\ b + g.mem[b].size \in g.blocks /\ b + g.mem[b].size <= next /\ b <= b
      BY <1>1, <1>2
    <3> QED
      BY <1>3, <3>1 DEF TiledBetween
  <2> QED
    BY <1>1, <1>2, <2>1, <2>2 DEF Window
<1>5. Tiled(g)
  BY <1>4, WindowTiled
<1>6. Tagged(g)
  <2>1. TaggedBetween(g, b, next)
    BY <1>1, <1>3 DEF TaggedBetween
  <2> QED
    BY <1>1, <1>4, <2>1, WindowTagged
<1>7. CoalescedExcept(g, b)
  <2>1. \A c \in Between(g, b, next) : g.mem[c].free = 1 => g.mem[c + g.mem[c].size].free = 0
    BY <1>1, <1>3
  <2>2. CoalescedExcept(h, b) /\ b <= b /\ b <= next
    BY <1>2 DEF Coalesced, CoalescedExcept
  <2> QED
    BY <1>2, <1>4, <2>1, <2>2, WindowCoalesced
<1>8. \A c \in h.blocks \ {b} : /\ g.mem[c].size = h.mem[c].size
                                /\ c \in FreeBlocks(g) <=> c \in FreeBlocks(h)
  <2>1. ASSUME NEW c \in h.blocks, c # b
        PROVE  c \in Cells /\ (c < b \/ next <= c)
    BY <1>1, <1>2, <2>1, HeapFields
  <2> QED
    BY <1>4, <2>1, WindowUsed
<1>9. FreeBlocks(g) = IF f = 1 THEN FreeBlocks(h) \cup {b} ELSE FreeBlocks(h) \ {b}
  <2>1. b \in FreeBlocks(g) <=> f = 1
    BY <1>1 DEF FreeBlocks
  <2>2. FreeBlocks(g) \subseteq h.blocks /\ FreeBlocks(h) \subseteq h.blocks /\ b \in h.blocks
    BY <1>1 DEF FreeBlocks
  <2> QED
    BY <1>8, <2>1, <2>2
<1> QED
  BY <1>1, <1>5, <1>6, <1>7, <1>8, <1>9

(***************************************************************************)
(* A free block is absorbed by the one below it, which is or becomes free. *)
(***************************************************************************)
Joined(h, g, lo, mid) ==
  LET next == mid + h.mem[mid].size
      s    == h.mem[lo].size + h.mem[mid].size
  IN  /\ h \in Heap /\ g \in Heap /\ Tiled(h) /\ Tagged(h)
      /\ lo \in h.blocks \ {EndBlock} /\ mid \in h.blocks \ {EndBlock}
      /\ mid = lo + h.mem[lo].size /\ h.mem[mid].free = 1
      /\ g.blocks = h.blocks \ {mid}
      /\ \A c \in Cells : c < lo \/ next <= c => g.mem[c] = h.mem[c]
      /\ g.mem[lo].magic = 1 /\ g.mem[lo].size = s
      /\ g.mem[lo].free = 1 /\ g.mem[lo].prevFree = h.mem[lo].prevFree
      /\ g.mem[next - 1].size = s

\* Joining two neighbouring free blocks keeps the tiling and the tags.
LEMMA JoinedOK ==
  ASSUME NEW h, NEW g, NEW lo, NEW mid, Joined(h, g, lo, mid),
         NEW x, x = lo \/ x = mid, CoalescedExcept(h, x)
  PROVE  /\ Tiled(g) /\ Tagged(g) /\ CoalescedExcept(g, lo)
         /\ FreeBlocks(g) = (FreeBlocks(h) \ {mid}) \cup {lo}
         /\ \A c \in h.blocks \ {lo, mid} : g.mem[c].size = h.mem[c].size
<1> DEFINE sl   == h.mem[lo].size
           sm   == h.mem[mid].size
           s    == sl + sm
           next == mid + sm
<1>1. /\ h \in Heap /\ g \in Heap /\ Tiled(h) /\ Tagged(h)
      /\ lo \in h.blocks \ {EndBlock} /\ mid \in h.blocks \ {EndBlock}
      /\ mid = lo + h.mem[lo].size /\ h.mem[mid].free = 1
      /\ g.blocks = h.blocks \ {mid}
      /\ \A c \in Cells : c < lo \/ next <= c => g.mem[c] = h.mem[c]
      /\ g.mem[lo].magic = 1 /\ g.mem[lo].size = s
      /\ g.mem[lo].free = 1 /\ g.mem[lo].prevFree = h.mem[lo].prevFree
      /\ g.mem[next - 1].size = s
  BY DEF Joined
<1>2. /\ lo \in Nat /\ sl \in Nat /\ sl > HeadCells /\ lo \in Cells
      /\ \A c \in h.blocks : c \in Int /\ (c <= lo \/ lo + sl <= c)
  BY <1>1, BlockBounds
<1>3. /\ mid \in Nat /\ sm \in Nat /\ sm > HeadCells
      /\ next \in h.blocks /\ next \in Cells
      /\ \A c \in h.blocks : c \in Int /\ (c <= mid \/ next <= c)
  BY <1>1, BlockBounds
<1>4. /\ lo + s = next /\ next \in Nat /\ s \in Nat /\ s > HeadCells
      /\ lo < mid /\ mid < next
      /\ \A c \in h.blocks : c \in Int /\ (c <= lo \/ mid <= c) /\ (c <= mid \/ next <= c)
  <2>1. mid = lo + sl
    BY <1>1
  <2> HIDE DEF sl, sm
  <2> QED
    BY <1>2, <1>3, <2>1, Geometry
<1> HIDE DEF s, next, sl, sm
<1>5. Between(g, lo, next) = {lo}
  <2>1. ASSUME NEW c \in h.blocks \ {mid}, lo <= c, c < next
        PROVE  c = lo
    BY <1>2, <1>3, <1>4, <2>1
  <2>2. lo \in h.blocks \ {mid} /\ g.blocks = h.blocks \ {mid} /\ lo <= lo /\ lo < next
    BY <1>1, <1>2, <1>3, <1>4
  <2> QED
    BY <2>1, <2>2 DEF Between
<1>6. Window(h, g, lo, next)
  <2>1. SameOutside(h, g, lo, next)
    <3>1. ASSUME NEW c \in Cells
          PROVE  /\ c < lo \/ next < c => g.mem[c] = h.mem[c]
                 /\ c < lo \/ next <= c => (c \in g.blocks <=> c \in h.blocks)
      <4>1. c \in Nat
        BY DEF Cells
      <4>2. c < lo \/ next <= c => c # mid
        BY <1>2, <1>3, <1>4, <4>1
      <4>3. c < lo \/ next < c => c < lo \/ next <= c
        BY <1>2, <1>4, <4>1
      <4> QED
        BY <1>1, <4>2, <4>3
    <3>2. g.mem[next] = h.mem[next]
      <4>1. next <= next
        BY <1>4
      <4> QED
        BY <1>1, <1>3, <4>1
    <3> QED
      BY <3>1, <3>2 DEF SameOutside
  <2>2. TiledBetween(g, lo, next)
    <3>1. lo + g.mem[lo].size = next
      BY <1>1, <1>4
    <3>2. next \in g.blocks /\ lo \in g.blocks
      BY <1>1, <1>3, <1>4
    <3>3. next <= next /\ lo <= lo /\ g.mem[lo].size > HeadCells
      BY <1>1, <1>2, <1>4
    <3> QED
      BY <1>1, <1>5, <3>1, <3>2, <3>3 DEF TiledBetween
  <2>3. lo < next
    BY <1>2, <1>3, <1>4
  <2> QED
    BY <1>1, <1>3, <2>1, <2>2, <2>3 DEF Window
<1>7. Tiled(g)
  BY <1>6, WindowTiled
<1>8. g.mem[next] = h.mem[next] /\ lo + g.mem[lo].size = next
  <2>1. next <= next
    BY <1>4
  <2> QED
    BY <1>1, <1>3, <1>4, <2>1
<1>9. Tagged(g)
  <2>1. h.mem[next].prevFree = 1
    BY <1>1 DEF Tagged, next, sm
  <2>2. TaggedBetween(g, lo, next)
    BY <1>1, <1>5, <1>8, <2>1 DEF TaggedBetween
  <2> QED
    BY <1>1, <1>6, <2>2, WindowTagged
<1>10. CoalescedExcept(g, lo)
  <2>1. h.mem[next].free = 0
    <3>1. mid \in FreeBlocks(h)
      BY <1>1 DEF FreeBlocks
    <3>2. next # x
      BY <1>2, <1>3, <1>4
    <3> QED
      BY <3>1, <3>2 DEF CoalescedExcept, next, sm
  <2>2. \A c \in Between(g, lo, next) : g.mem[c].free = 1 => g.mem[c + g.mem[c].size].free = 0
    BY <1>5, <1>8, <2>1
  <2>3. x \in Nat /\ lo <= x /\ x <= next
    BY <1>2, <1>3, <1>4
  <2> QED
    BY <1>6, <2>2, <2>3, WindowCoalesced
<1>11. \A c \in h.blocks \ {lo, mid} : /\ g.mem[c].size = h.mem[c].size
                                       /\ c \in FreeBlocks(g) <=> c \in FreeBlocks(h)
  <2>1. ASSUME NEW c \in h.blocks \ {lo, mid}
        PROVE  c \in Cells /\ (c < lo \/ next <= c)
    <3>1. c \in Cells
      BY <1>1, HeapFields
    <3> QED
      BY <1>2, <1>3, <1>4, <3>1
  <2> QED
    BY <1>6, <2>1, WindowUsed
<1>12. FreeBlocks(g) = (FreeBlocks(h) \ {mid}) \cup {lo}
  <2>1. lo \in FreeBlocks(g) /\ mid \notin FreeBlocks(g) /\ lo # mid
    <3>1. lo # mid
      BY <1>2, <1>3, <1>4
    <3> QED
      BY <1>1, <3>1 DEF FreeBlocks
  <2>2. FreeBlocks(g) \subseteq h.blocks /\ FreeBlocks(h) \subseteq h.blocks
    BY <1>1 DEF FreeBlocks
  <2> QED
    BY <1>11, <2>1, <2>2
<1> QED
  BY <1>7, <1>9, <1>10, <1>11, <1>12

-----------------------------------------------------------------------------
(* simple_malloc *)

\* Handing a block out whole keeps the heap intact.
LEMMA WholeOK ==
  ASSUME NEW h, NEW b, NEW want, Takes(h, b, want)
  PROVE  LET g == WholeBlock(h, b)
         IN  /\ g \in Heap
             /\ HeapOK(g)
             /\ UsedBlocks(g) = UsedBlocks(h) \cup {b}
             /\ \A c \in h.blocks : g.mem[c].size = h.mem[c].size
<1> DEFINE s    == h.mem[b].size
           next == b + s
           g    == WholeBlock(h, b)
<1>1. /\ h \in Heap /\ Tiled(h) /\ Tagged(h) /\ Coalesced(h) /\ Listed(h)
      /\ b \in FreeBlocks(h) /\ b \in h.blocks \ {EndBlock}
  BY TakeArithmetic DEF Takes, HeapOK
<1>2. /\ b \in Nat /\ s \in Nat /\ b \in Cells /\ next \in Cells /\ next \in Nat
      /\ b < next /\ next \in h.blocks
  BY <1>1, BlockBounds, Geometry
<1>3. h.mem \in [Cells -> Cell] /\ h.mem[b] \in Cell /\ h.mem[next] \in Cell
  BY <1>1, <1>2, HeapFields
<1>4. /\ g.mem = [[h.mem EXCEPT ![b] = WithFree(@, 0)] EXCEPT ![next] = WithPrevFree(@, 0)]
      /\ g.lst = list_del(h.lst, b)
      /\ g.blocks = h.blocks
      /\ g = [mem |-> g.mem, lst |-> g.lst, blocks |-> g.blocks]
  BY DEF WholeBlock
<1> HIDE DEF g
<1>5. /\ g.mem[b] = WithFree(h.mem[b], 0)
      /\ g.mem[next] = WithPrevFree(h.mem[next], 0)
      /\ \A c \in Cells \ {b, next} : g.mem[c] = h.mem[c]
      /\ g.mem = [c \in Cells |-> g.mem[c]]
  <2> HIDE DEF next
  <2> QED
    BY <1>2, <1>3, <1>4
<1>6. /\ g.mem[b] \in Cell /\ g.mem[b].magic = h.mem[b].magic /\ g.mem[b].size = s
      /\ g.mem[b].free = 0 /\ g.mem[b].prevFree = h.mem[b].prevFree
  BY <1>3, <1>5, WithFreeCell DEF Bit
<1> HIDE DEF s
<1>7. /\ g.mem[next] \in Cell /\ g.mem[next].magic = h.mem[next].magic
      /\ g.mem[next].size = h.mem[next].size /\ g.mem[next].free = h.mem[next].free
      /\ g.mem[next].prevFree = 0
  <2> HIDE DEF next
  <2> QED
    BY <1>3, <1>5, WithPrevFreeCell DEF Bit
<1>8. /\ WellLinked(g.lst, (FreeBlocks(h) \cup {free_mem_list_head}) \ {b})
      /\ g.lst \in ListType(Nodes)
  BY <1>1, <1>4, FreeListNodes, ListDelLinks DEF Listed
<1>9. g \in Heap
  <2>1. \A c \in Cells : g.mem[c] \in Cell
    BY <1>3, <1>5, <1>6, <1>7
  <2>2. g.mem \in [Cells -> Cell]
    BY <1>5, <2>1
  <2> QED
    BY <1>1, <1>4, <1>8, <2>2, HeapFields DEF Heap, ListType, Links
<1>10. Relabelled(h, g, b, 0)
  <2>1. h.mem[b].magic = 1
    BY <1>1 DEF Tiled
  <2>2. \A c \in Cells : c < b \/ next < c => g.mem[c] = h.mem[c]
    BY <1>2, <1>5
  <2>3. 0 \in Bit /\ 0 # 1
    BY DEF Bit
  <2>4. g.mem[b].magic = 1
    BY <1>6, <2>1
  <2> QED
    BY <1>1, <1>4, <1>6, <1>7, <1>9, <2>2, <2>3, <2>4 DEF Relabelled, s
<1>11. /\ Tiled(g) /\ Tagged(g) /\ CoalescedExcept(g, b)
       /\ FreeBlocks(g) = FreeBlocks(h) \ {b}
       /\ \A c \in h.blocks : g.mem[c].size = h.mem[c].size
  BY <1>1, <1>10, RelabelledOK
<1>12. Coalesced(g)
  BY <1>6, <1>9, <1>11, LoneBlock
<1>13. Listed(g)
  <2>1. FreeBlocks(g) \cup {free_mem_list_head}
          = (FreeBlocks(h) \cup {free_mem_list_head}) \ {b}
    BY <1>2, <1>11, FreeListNodes
  <2> QED
    BY <1>8, <2>1 DEF Listed
<1>14. UsedBlocks(g) = UsedBlocks(h) \cup {b}
  BY <1>1, <1>4, <1>11 DEF UsedBlocks
<1> QED
  BY <1>9, <1>11, <1>12, <1>13, <1>14 DEF HeapOK, g

(***************************************************************************)
(* simple_malloc's work on a block that fits: the next header is found     *)
(* intact, the block is returned, and it has room for the request.         *)
(***************************************************************************)
LEMMA TakenOK ==
  ASSUME NEW h, NEW b, NEW want, Takes(h, b, want)
  PROVE  LET g == TakenHeap(h, b, want)
         IN  /\ g \in Heap
             /\ HeapOK(g)
             /\ b \in FreeBlocks(h)
             /\ TakenPtr(h, b, want) = b + HeadCells
             /\ UsedBlocks(g) = UsedBlocks(h) \cup {b}
             /\ g.mem[b].size >= want + HeadCells
             /\ \A c \in UsedBlocks(h) : g.mem[c].size = h.mem[c].size
<1>1. /\ h \in Heap /\ Tiled(h) /\ b \in h.blocks \ {EndBlock} /\ b \in FreeBlocks(h)
      /\ h.mem[b].size >= want + HeadCells
      /\ want + HeadCells \in Nat
  BY TakeArithmetic, Geometry DEF Takes, HeapOK
<1>2. ~NextCorrupt(h, b)
  BY <1>1 DEF NextCorrupt, Tiled
<1>3. TakenPtr(h, b, want) = b + HeadCells
  BY <1>2 DEF TakenPtr
<1>4. CASE MustSplit(h, b, want)
  <2>1. TakenHeap(h, b, want) = SplitBlock(h, b, want)
    BY <1>4 DEF TakenHeap
  <2>2. SplitBlock(h, b, want).mem[b].size = want + HeadCells
    BY <1>4, SplitOK
  <2>3. SplitBlock(h, b, want).mem[b].size >= want + HeadCells
    BY <1>1, <2>2
  <2> QED
    BY <1>1, <1>3, <1>4, <2>1, <2>3, SplitOK
<1>5. CASE ~MustSplit(h, b, want)
  <2>1. TakenHeap(h, b, want) = WholeBlock(h, b)
    BY <1>2, <1>5 DEF TakenHeap
  <2>2. UsedBlocks(h) \subseteq h.blocks
    BY DEF UsedBlocks
  <2> QED
    BY <1>1, <1>3, <2>1, <2>2, WholeOK
<1> QED
  BY <1>4, <1>5

-----------------------------------------------------------------------------
(* simple_free *)

\* MarkFree touches one flag of one header.
LEMMA MarkFreeCells ==
  ASSUME NEW h \in Heap, Tiled(h), NEW b \in h.blocks \ {EndBlock}
  PROVE  LET g == MarkFree(h, b)
             next == b + h.mem[b].size
         IN  /\ g.mem \in [Cells -> Cell]
             /\ \A c \in Cells \ {b} : g.mem[c] = h.mem[c]
             /\ g.mem[b].magic = h.mem[b].magic /\ g.mem[b].size = h.mem[b].size
             /\ g.mem[b].free = 1 /\ g.mem[b].prevFree = h.mem[b].prevFree
             /\ g.mem[next] = h.mem[next]
             /\ g.blocks = h.blocks
             /\ g.lst = list_add(h.lst, b, free_mem_list_head)
<1> DEFINE g    == MarkFree(h, b)
           next == b + h.mem[b].size
<1>1. /\ b \in Cells /\ next \in Cells /\ next # b
      /\ h.mem \in [Cells -> Cell] /\ h.mem[b] \in Cell
  BY BlockBounds, HeapFields, Geometry
<1>2. /\ g.mem = [h.mem EXCEPT ![b] = WithFree(@, 1)]
      /\ g.blocks = h.blocks
      /\ g.lst = list_add(h.lst, b, free_mem_list_head)
  BY DEF MarkFree
<1> HIDE DEF g, next
<1>3. g.mem[b] = WithFree(h.mem[b], 1) /\ \A c \in Cells \ {b} : g.mem[c] = h.mem[c]
  BY <1>1, <1>2
<1>4. /\ g.mem[b].magic = h.mem[b].magic /\ g.mem[b].size = h.mem[b].size
      /\ g.mem[b].free = 1 /\ g.mem[b].prevFree = h.mem[b].prevFree /\ g.mem[b] \in Cell
  BY <1>1, <1>3, WithFreeCell DEF Bit
<1>5. g.mem \in [Cells -> Cell]
  BY <1>1, <1>2, <1>3, <1>4
<1> QED
  BY <1>1, <1>2, <1>3, <1>4, <1>5 DEF g, next

(***************************************************************************)
(* What is true after the next block has been looked at: everything but    *)
(* the merge with the block below.                                         *)
(***************************************************************************)
HalfFreed(h, g, b) ==
  /\ g \in Heap
  /\ Tiled(g) /\ Tagged(g) /\ CoalescedExcept(g, b) /\ Listed(g)
  /\ b \in FreeBlocks(g)
  /\ UsedBlocks(g) = UsedBlocks(h) \ {b}
  /\ \A c \in UsedBlocks(h) \ {b} : g.mem[c].size = h.mem[c].size

\* The next block is in use.
LEMMA TellNextOK ==
  ASSUME NEW h \in Heap, HeapOK(h), NEW b \in UsedBlocks(h),
         h.mem[b + h.mem[b].size].free = 0
  PROVE  HalfFreed(h, TellNext(MarkFree(h, b), b), b)
<1> DEFINE s    == h.mem[b].size
           next == b + s
           m    == MarkFree(h, b)
           g    == TellNext(m, b)
<1>1. /\ Tiled(h) /\ Tagged(h) /\ Coalesced(h) /\ Listed(h)
      /\ b \in h.blocks \ {EndBlock} /\ b \notin FreeBlocks(h)
  BY DEF HeapOK, UsedBlocks
<1>2. /\ b \in Nat /\ s \in Nat /\ b \in Cells /\ next \in Cells /\ next \in Nat
      /\ next - 1 \in Cells /\ b < next - 1 /\ b # next - 1 /\ next # next - 1 /\ b # next
      /\ next \in h.blocks
  BY <1>1, BlockBounds, Geometry DEF Cells
<1>3. /\ m.mem \in [Cells -> Cell]
      /\ \A c \in Cells \ {b} : m.mem[c] = h.mem[c]
      /\ m.mem[b].magic = h.mem[b].magic /\ m.mem[b].size = s
      /\ m.mem[b].free = 1 /\ m.mem[b].prevFree = h.mem[b].prevFree
      /\ m.mem[next] = h.mem[next]
      /\ m.blocks = h.blocks
      /\ m.lst = list_add(h.lst, b, free_mem_list_head)
  BY <1>1, MarkFreeCells
<1> HIDE DEF m, s
<1> DEFINE foot == next - 1
           ms   == m.mem[b].size
           mn   == b + ms
           mf   == b + ms - 1
<1>4. /\ g.mem = [m.mem EXCEPT ![mn] = WithPrevFree(@, 1), ![mf] = Footer(@, ms)]
      /\ g.lst = m.lst /\ g.blocks = m.blocks
      /\ g = [mem |-> g.mem, lst |-> g.lst, blocks |-> g.blocks]
  BY DEF TellNext
<1> HIDE DEF g, foot
<1>5. /\ g.mem[next] = WithPrevFree(h.mem[next], 1)
      /\ g.mem[foot] = Footer(h.mem[foot], s)
      /\ \A c \in Cells \ {next, foot} : g.mem[c] = m.mem[c]
      /\ g.mem = [c \in Cells |-> g.mem[c]]
  <2>1. ms = s /\ mn = next /\ mf = foot
    <3>1. ms = s
      BY <1>3
    <3>2. s \in Nat /\ b \in Nat
      BY <1>2
    <3> HIDE DEF ms
    <3> QED
      BY <3>1, <3>2 DEF foot
  <2>2. foot \in Cells /\ foot # b /\ foot # next
    BY <1>2 DEF foot
  <2> HIDE DEF next, ms, mn, mf
  <2>3. g.mem = [m.mem EXCEPT ![next] = WithPrevFree(@, 1), ![foot] = Footer(@, s)]
    BY <1>4, <2>1
  <2> QED
    BY <1>2, <1>3, <2>2, <2>3
<1>6. h.mem[next] \in Cell /\ h.mem[foot] \in Cell /\ foot \in Cells
  BY <1>2, HeapFields DEF foot
<1>7. /\ g.mem[next] \in Cell /\ g.mem[next].magic = h.mem[next].magic
      /\ g.mem[next].size = h.mem[next].size /\ g.mem[next].free = h.mem[next].free
      /\ g.mem[next].prevFree = 1
  <2> HIDE DEF next
  <2> QED
    BY <1>5, <1>6, WithPrevFreeCell DEF Bit
<1>8. g.mem[foot] \in Cell /\ g.mem[foot].size = s
  <2>1. s \in Nat
    BY <1>2
  <2>2. h.mem[foot] \in Cell /\ g.mem[foot] = Footer(h.mem[foot], s)
    BY <1>5, <1>6
  <2> QED
    BY <2>1, <2>2, FooterCell
<1>9. /\ WellLinked(g.lst, (FreeBlocks(h) \cup {free_mem_list_head}) \cup {b})
      /\ g.lst \in ListType(Nodes)
  <2>1. /\ free_mem_list_head \in FreeBlocks(h) \cup {free_mem_list_head}
        /\ b \in Nodes /\ b \notin FreeBlocks(h) \cup {free_mem_list_head}
    BY <1>1, <1>2, FreeListNodes
  <2>2. g.lst = list_add(h.lst, b, free_mem_list_head)
    BY <1>3, <1>4
  <2> QED
    BY <1>1, <2>1, <2>2, FreeListNodes, ListAddLinks DEF Listed
<1>10. g \in Heap
  <2>1. \A c \in Cells : g.mem[c] \in Cell
    BY <1>3, <1>5, <1>7, <1>8
  <2>2. g.mem \in [Cells -> Cell]
    BY <1>5, <2>1
  <2> QED
    BY <1>3, <1>4, <1>9, <2>2, HeapFields DEF Heap, ListType, Links
<1>11. g.mem[b] = m.mem[b]
  BY <1>2, <1>5 DEF foot
<1>12. Relabelled(h, g, b, 1)
  <2>1. h.mem[b].magic = 1
    BY <1>1 DEF Tiled
  <2>2. ASSUME NEW c \in Cells, c < b \/ next < c
        PROVE  g.mem[c] = h.mem[c]
    <3>1. c # b /\ c # next /\ c # foot
      BY <1>2, <2>2 DEF foot, Cells
    <3> QED
      BY <1>3, <1>5, <3>1
  <2>3. 1 \in Bit
    BY DEF Bit
  <2>4. /\ g.mem[b].magic = 1 /\ g.mem[b].size = s
        /\ g.mem[b].free = 1 /\ g.mem[b].prevFree = h.mem[b].prevFree
        /\ g.mem[next - 1].size = s
    BY <1>3, <1>8, <1>11, <2>1 DEF foot
  <2> QED
    BY <1>1, <1>3, <1>4, <1>7, <1>10, <2>2, <2>3, <2>4 DEF Relabelled, s
<1>13. /\ Tiled(g) /\ Tagged(g) /\ CoalescedExcept(g, b)
       /\ FreeBlocks(g) = FreeBlocks(h) \cup {b}
       /\ \A c \in h.blocks : g.mem[c].size = h.mem[c].size
  <2>1. h.mem[b + h.mem[b].size].free = 0
    OBVIOUS
  <2> QED
    BY <1>1, <1>12, <2>1, RelabelledOK
<1>14. Listed(g)
  <2>1. FreeBlocks(g) \cup {free_mem_list_head} = (FreeBlocks(h) \cup {free_mem_list_head}) \cup {b}
    BY <1>13
  <2> QED
    BY <1>9, <2>1 DEF Listed
<1>15. UsedBlocks(g) = UsedBlocks(h) \ {b}
  BY <1>1, <1>3, <1>4, <1>13 DEF UsedBlocks
<1> QED
  BY <1>10, <1>13, <1>14, <1>15 DEF HalfFreed, g, m, UsedBlocks

\* The next block is free.
LEMMA MergeNextOK ==
  ASSUME NEW h \in Heap, HeapOK(h), NEW b \in UsedBlocks(h),
         h.mem[b + h.mem[b].size].free = 1
  PROVE  HalfFreed(h, MergeNext(MarkFree(h, b), b), b)
<1> DEFINE sb   == h.mem[b].size
           next == b + sb
           sn   == h.mem[next].size
           s    == sb + sn
           top  == next + sn
           foot == top - 1
           m    == MarkFree(h, b)
           g    == MergeNext(m, b)
<1>1. /\ Tiled(h) /\ Tagged(h) /\ Coalesced(h) /\ Listed(h)
      /\ b \in h.blocks \ {EndBlock} /\ b \notin FreeBlocks(h)
  BY DEF HeapOK, UsedBlocks
<1>2. /\ b \in Nat /\ sb \in Nat /\ b \in Cells /\ next \in Cells /\ next \in Nat
      /\ b < next /\ next \in h.blocks /\ sb > HeadCells
  BY <1>1, BlockBounds, Geometry DEF Cells
<1>3. /\ h.mem[next].free = 1 /\ next # EndBlock /\ next \in FreeBlocks(h)
      /\ next \in h.blocks \ {EndBlock}
  BY <1>1, <1>2 DEF Tiled, FreeBlocks
<1>4. sn \in Nat /\ sn > HeadCells /\ top \in Cells /\ top \in h.blocks
  <2> HIDE DEF next
  <2> QED
    BY <1>1, <1>3, BlockBounds
<1>5. /\ m.mem \in [Cells -> Cell]
      /\ \A c \in Cells \ {b} : m.mem[c] = h.mem[c]
      /\ m.mem[b].magic = h.mem[b].magic /\ m.mem[b].size = sb
      /\ m.mem[b].free = 1 /\ m.mem[b].prevFree = h.mem[b].prevFree
      /\ m.mem[next] = h.mem[next]
      /\ m.blocks = h.blocks
      /\ m.lst = list_add(h.lst, b, free_mem_list_head)
  BY <1>1, MarkFreeCells
<1> HIDE DEF m
<1> DEFINE ms == m.mem[b].size
           mn == b + ms
           mt == ms + m.mem[mn].size
           mf == b + mt - 1
<1>6. /\ g.mem = [m.mem EXCEPT ![b] = WithSize(@, mt), ![mf] = Footer(@, mt)]
      /\ g.lst = list_del(m.lst, mn) /\ g.blocks = m.blocks \ {mn}
      /\ g = [mem |-> g.mem, lst |-> g.lst, blocks |-> g.blocks]
  BY DEF MergeNext
<1> HIDE DEF g
<1>7. mn = next /\ mt = s /\ mf = foot
  <2>1. ms = sb
    BY <1>5
  <2>2. sb \in Nat /\ b \in Nat /\ sn \in Nat
    BY <1>2, <1>4
  <2>3. mn = next
    <3> HIDE DEF ms, sb
    <3> QED
      BY <2>1, <2>2
  <2>4. mt = s
    <3>1. m.mem[mn].size = sn
      <4> HIDE DEF mn, next
      <4> QED
        BY <1>5, <2>3
    <3> HIDE DEF ms, sb, mn, sn
    <3> QED
      BY <2>1, <2>2, <3>1
  <2> HIDE DEF mt, sb, sn
  <2> QED
    BY <2>2, <2>3, <2>4
<1>8. /\ foot \in Cells /\ foot # b /\ s \in Nat /\ top = b + s /\ b < foot
      /\ top \in Nat /\ b < top /\ next < top
  <2> HIDE DEF sb, sn
  <2> QED
    BY <1>2, <1>4, Geometry DEF Cells
<1> HIDE DEF ms, mn, mt, mf
<1>9. /\ g.mem[b] = WithSize(m.mem[b], s)
      /\ g.mem[foot] = Footer(h.mem[foot], s)
      /\ \A c \in Cells \ {b, foot} : g.mem[c] = h.mem[c]
      /\ g.mem = [c \in Cells |-> g.mem[c]]
  <2> HIDE DEF foot, s
  <2>1. g.mem = [m.mem EXCEPT ![b] = WithSize(@, s), ![foot] = Footer(@, s)]
    BY <1>6, <1>7
  <2> QED
    BY <1>2, <1>5, <1>8, <2>1
<1>10. g.lst = list_del(list_add(h.lst, b, free_mem_list_head), next)
  BY <1>5, <1>6, <1>7
<1>11. g.blocks = h.blocks \ {next}
  BY <1>5, <1>6, <1>7
<1>12. /\ g.mem[b] \in Cell /\ g.mem[b].size = s /\ g.mem[b].magic = 1
       /\ g.mem[b].free = 1 /\ g.mem[b].prevFree = h.mem[b].prevFree
  <2>1. m.mem[b] \in Cell /\ s \in Nat /\ g.mem[b] = WithSize(m.mem[b], s)
    BY <1>2, <1>5, <1>8, <1>9
  <2>2. /\ m.mem[b].magic = 1 /\ m.mem[b].free = 1
        /\ m.mem[b].prevFree = h.mem[b].prevFree
    BY <1>1, <1>5 DEF Tiled
  <2> HIDE DEF s
  <2> QED
    BY <2>1, <2>2, WithSizeCell
<1>13. g.mem[foot] \in Cell /\ g.mem[foot].size = s
  <2>1. h.mem[foot] \in Cell /\ s \in Nat /\ g.mem[foot] = Footer(h.mem[foot], s)
    BY <1>8, <1>9, HeapFields
  <2> HIDE DEF foot, s
  <2> QED
    BY <2>1, FooterCell
<1> HIDE DEF foot, s, top, sn, next, sb
<1>14. /\ WellLinked(g.lst, ((FreeBlocks(h) \cup {free_mem_list_head}) \cup {b}) \ {next})
       /\ g.lst \in ListType(Nodes)
  <2> DEFINE L == list_add(h.lst, b, free_mem_list_head)
             S == FreeBlocks(h) \cup {free_mem_list_head}
  <2>1. /\ free_mem_list_head \in S /\ b \in Nodes /\ b \notin S
        /\ S \in SUBSET Nodes /\ h.lst \in ListType(Nodes)
    BY <1>1, <1>2, FreeListNodes
  <2>2. L \in ListType(Nodes) /\ WellLinked(L, S \cup {b})
    BY <1>1, <2>1, ListAddLinks DEF Listed
  <2>3. next \in S \cup {b} /\ S \cup {b} \in SUBSET Nodes
    BY <1>3, <2>1
  <2> HIDE DEF L, S
  <2>4. WellLinked(list_del(L, next), (S \cup {b}) \ {next}) /\ list_del(L, next) \in ListType(Nodes)
    BY <2>2, <2>3, ListDelLinks
  <2> QED
    BY <1>10, <2>4 DEF L, S
<1>15. g \in Heap
  <2>1. \A c \in Cells : g.mem[c] \in Cell
    BY <1>9, <1>12, <1>13, HeapFields
  <2>2. g.mem \in [Cells -> Cell]
    BY <1>9, <2>1
  <2>3. g.blocks \subseteq Cells
    BY <1>11, HeapFields
  <2> QED
    BY <1>6, <1>14, <2>2, <2>3 DEF Heap, ListType, Links
<1>16. Joined(h, g, b, next)
  <2>1. ASSUME NEW c \in Cells, c < b \/ top <= c
        PROVE  g.mem[c] = h.mem[c]
    <3>1. c # b /\ c # foot
      BY <1>2, <1>8, <2>1 DEF foot, Cells
    <3> QED
      BY <1>9, <3>1
  <2> QED
    BY <1>1, <1>3, <1>11, <1>12, <1>13, <1>15, <2>1 DEF Joined, foot, top, s, sn, next, sb
<1>17. CoalescedExcept(h, b)
  BY <1>1 DEF Coalesced, CoalescedExcept
<1>18. /\ Tiled(g) /\ Tagged(g) /\ CoalescedExcept(g, b)
       /\ FreeBlocks(g) = (FreeBlocks(h) \ {next}) \cup {b}
       /\ \A c \in h.blocks \ {b, next} : g.mem[c].size = h.mem[c].size
  BY <1>16, <1>17, JoinedOK
<1>19. Listed(g)
  <2>1. next # b /\ next # free_mem_list_head
    BY <1>2, FreeListNodes
  <2>2. FreeBlocks(g) \cup {free_mem_list_head}
          = ((FreeBlocks(h) \cup {free_mem_list_head}) \cup {b}) \ {next}
    BY <1>18, <2>1
  <2> QED
    BY <1>14, <2>2 DEF Listed
<1>20. /\ UsedBlocks(g) = UsedBlocks(h) \ {b}
       /\ \A c \in UsedBlocks(h) \ {b} : g.mem[c].size = h.mem[c].size
  BY <1>1, <1>3, <1>11, <1>18 DEF UsedBlocks
<1> QED
  BY <1>15, <1>18, <1>19, <1>20 DEF HalfFreed, g, m

(***************************************************************************)
(* FLAG_PREV_FREE and the footer lead to the block below: it is a header,  *)
(* it is free, and the block below that one is in use.                     *)
(***************************************************************************)
LEMMA PrevBlockFound ==
  ASSUME NEW h \in Heap, Tiled(h), Tagged(h), NEW b \in FreeBlocks(h),
         CoalescedExcept(h, b), h.mem[b].prevFree = 1
  PROVE  LET p == PrevBlock(h, b)
         IN  /\ p \in h.blocks \ {EndBlock}
             /\ p + h.mem[p].size = b
             /\ h.mem[p].free = 1
             /\ h.mem[p].prevFree = 0
             /\ ~PrevCorrupt(h, b)
<1>1. b \in h.blocks \ {EndBlock} /\ b # 0 /\ h.mem[b].free = 1
  BY DEF FreeBlocks, Tiled, Tagged
<1>2. PICK p \in h.blocks \ {EndBlock} : p + h.mem[p].size = b
  BY <1>1, Predecessor
<1>3. h.mem[p].free = 1 /\ h.mem[b - 1].size = h.mem[p].size
  BY <1>1, <1>2 DEF Tagged
<1>4. p \in Nat /\ h.mem[p].size \in Nat /\ p < b
  BY <1>2, BlockBounds, Geometry
<1>5. PrevBlock(h, b) = p
  BY <1>2, <1>3, <1>4 DEF PrevBlock
<1>6. h.mem[p].magic = 1
  BY <1>2 DEF Tiled
<1>7. h.mem[p].prevFree = 0
  <2>1. h.mem[p].prevFree \in Bit
    BY <1>2, BlockBounds, HeapFields
  <2>2. ASSUME h.mem[p].prevFree = 1
        PROVE  FALSE
    <3>1. p # 0
      BY <2>2 DEF Tagged
    <3>2. PICK q \in h.blocks \ {EndBlock} : q + h.mem[q].size = p
      BY <1>2, <3>1, Predecessor
    <3>3. q \in FreeBlocks(h)
      <4>1. h.mem[q].free = 1
        BY <2>2, <3>2 DEF Tagged
      <4> QED
        BY <3>2, <4>1 DEF FreeBlocks
    <3>4. p # b
      BY <1>4
    <3>5. h.mem[p].free = 0
      BY <3>2, <3>3, <3>4 DEF CoalescedExcept
    <3> QED
      BY <1>3, <3>5
  <2> QED
    BY <2>1, <2>2 DEF Bit
<1>8. ~PrevCorrupt(h, b)
  BY <1>3, <1>5, <1>6 DEF PrevCorrupt
<1> QED
  BY <1>2, <1>3, <1>5, <1>7, <1>8

\* ensure_prev_block_coalescing completes the free.
LEMMA MergePrevOK ==
  ASSUME NEW h \in Heap, Tiled(h), Tagged(h), Listed(h), NEW b \in FreeBlocks(h),
         CoalescedExcept(h, b), h.mem[b].prevFree = 1
  PROVE  LET g == MergePrev(h, b)
         IN  /\ g \in Heap
             /\ HeapOK(g)
             /\ UsedBlocks(g) = UsedBlocks(h)
             /\ \A c \in UsedBlocks(h) : g.mem[c].size = h.mem[c].size
<1> DEFINE p    == PrevBlock(h, b)
           sp   == h.mem[p].size
           sb   == h.mem[b].size
           s    == sp + sb
           top  == b + sb
           foot == p + s - 1
           g    == MergePrev(h, b)
<1>1. /\ p \in h.blocks \ {EndBlock} /\ p + sp = b
      /\ h.mem[p].free = 1 /\ h.mem[p].prevFree = 0
  BY PrevBlockFound
<1>2. b \in h.blocks \ {EndBlock} /\ h.mem[b].free = 1
  BY DEF FreeBlocks, Tiled
<1>3. /\ g.mem = [h.mem EXCEPT ![p] = WithSize(@, s), ![foot] = Footer(@, s)]
      /\ g.lst = list_del(h.lst, b) /\ g.blocks = h.blocks \ {b}
      /\ g = [mem |-> g.mem, lst |-> g.lst, blocks |-> g.blocks]
  BY DEF MergePrev
<1> HIDE DEF g, p
<1>4. p \in Nat /\ p \in Cells /\ sp \in Nat /\ sp > HeadCells /\ h.mem[p] \in Cell
  BY <1>1, BlockBounds, HeapFields
<1>5. b \in Nat /\ b \in Cells /\ sb \in Nat /\ sb > HeadCells /\ top \in Cells
  BY <1>2, BlockBounds
<1> HIDE DEF sp, sb
<1>6. /\ s \in Nat /\ top \in Nat /\ foot = top - 1 /\ foot \in Cells /\ p < foot /\ p # foot
      /\ p < b /\ b < top
  BY <1>1, <1>4, <1>5, Geometry DEF Cells
<1> HIDE DEF s, foot, top
<1>7. /\ g.mem[p] = WithSize(h.mem[p], s)
      /\ g.mem[foot] = Footer(h.mem[foot], s)
      /\ \A c \in Cells \ {p, foot} : g.mem[c] = h.mem[c]
      /\ g.mem = [c \in Cells |-> g.mem[c]]
      /\ h.mem[foot] \in Cell
  BY <1>3, <1>4, <1>6, HeapFields
<1>8. /\ g.mem[p] \in Cell /\ g.mem[p].size = s /\ g.mem[p].magic = 1
      /\ g.mem[p].free = 1 /\ g.mem[p].prevFree = 0
  <2>1. h.mem[p].magic = 1
    BY <1>1 DEF Tiled
  <2>2. h.mem[p] \in Cell /\ s \in Nat /\ g.mem[p] = WithSize(h.mem[p], s)
    BY <1>4, <1>6, <1>7
  <2> QED
    BY <1>1, <2>1, <2>2, WithSizeCell
<1>9. g.mem[foot] \in Cell /\ g.mem[foot].size = s
  <2>1. h.mem[foot] \in Cell /\ s \in Nat /\ g.mem[foot] = Footer(h.mem[foot], s)
    BY <1>6, <1>7
  <2> QED
    BY <2>1, FooterCell
<1>10. /\ WellLinked(g.lst, (FreeBlocks(h) \cup {free_mem_list_head}) \ {b})
       /\ g.lst \in ListType(Nodes)
  BY <1>3, FreeListNodes, ListDelLinks DEF Listed
<1>11. g \in Heap
  <2>1. \A c \in Cells : g.mem[c] \in Cell
    BY <1>7, <1>8, <1>9, HeapFields
  <2>2. g.mem \in [Cells -> Cell]
    BY <1>7, <2>1
  <2>3. g.blocks \subseteq Cells
    BY <1>3, HeapFields
  <2> QED
    BY <1>3, <1>10, <2>2, <2>3 DEF Heap, ListType, Links
<1>12. Joined(h, g, p, b)
  <2>1. ASSUME NEW c \in Cells, c < p \/ top <= c
        PROVE  g.mem[c] = h.mem[c]
    <3>1. c # p /\ c # foot
      BY <1>4, <1>6, <2>1 DEF Cells
    <3> QED
      BY <1>7, <3>1
  <2>2. g.mem[top - 1].size = s
    BY <1>6, <1>9
  <2> QED
    BY <1>1, <1>2, <1>3, <1>8, <1>11, <2>1, <2>2 DEF Joined, top, s, sp, sb
<1>13. /\ Tiled(g) /\ Tagged(g) /\ CoalescedExcept(g, p)
       /\ FreeBlocks(g) = (FreeBlocks(h) \ {b}) \cup {p}
       /\ \A c \in h.blocks \ {p, b} : g.mem[c].size = h.mem[c].size
  BY <1>12, JoinedOK
<1>14. Coalesced(g)
  BY <1>8, <1>11, <1>13, LoneBlock
<1>15. p \in FreeBlocks(h) /\ p # b
  BY <1>1, <1>4, <1>5, <1>6 DEF FreeBlocks
<1>16. Listed(g)
  <2>1. FreeBlocks(g) \cup {free_mem_list_head}
          = (FreeBlocks(h) \cup {free_mem_list_head}) \ {b}
    BY <1>5, <1>13, <1>15, FreeListNodes
  <2> QED
    BY <1>10, <2>1 DEF Listed
<1>17. /\ UsedBlocks(g) = UsedBlocks(h)
       /\ \A c \in UsedBlocks(h) : g.mem[c].size = h.mem[c].size
  BY <1>2, <1>3, <1>13, <1>15 DEF UsedBlocks
<1> QED
  BY <1>11, <1>13, <1>14, <1>16, <1>17 DEF HeapOK, g

\* simple_free of a block in use, up to ensure_prev_block_coalescing's end.
LEMMA JoinNextHalf ==
  ASSUME NEW h \in Heap, HeapOK(h), NEW b \in UsedBlocks(h)
  PROVE  LET g == JoinNext(MarkFree(h, b), b)
             r == simple_free(h, b + HeadCells)
         IN  /\ HalfFreed(h, g, b)
             /\ g.mem[b].prevFree \in Bit
             /\ r.panic = FALSE
             /\ r.heap = IF g.mem[b].prevFree = 0 THEN g ELSE MergePrev(g, b)
<1> DEFINE m == MarkFree(h, b)
           g == JoinNext(m, b)
           r == simple_free(h, b + HeadCells)
<1>1. /\ Tiled(h) /\ b \in h.blocks \ {EndBlock} /\ b \notin FreeBlocks(h)
      /\ h.mem[b].free # 1 /\ h.mem[b].magic = 1
  BY DEF HeapOK, UsedBlocks, FreeBlocks, Tiled
<1>2. b \in Nat /\ b + HeadCells # NULL /\ (b + HeadCells) - HeadCells = b
  BY <1>1, BlockBounds, Geometry DEF NULL
<1>3. m.mem[b].size = h.mem[b].size /\ m.mem[b + h.mem[b].size] = h.mem[b + h.mem[b].size]
  BY <1>1, MarkFreeCells
<1>4. ~NextCorrupt(m, b)
  BY <1>1, <1>3 DEF NextCorrupt, Tiled
<1>5. HalfFreed(h, g, b)
  <2>1. h.mem[b + h.mem[b].size].free \in Bit
    BY <1>1, BlockBounds, HeapFields
  <2>2. CASE h.mem[b + h.mem[b].size].free = 1
    <3>1. g = MergeNext(m, b)
      BY <1>3, <2>2 DEF JoinNext
    <3> QED
      BY <2>2, <3>1, MergeNextOK
  <2>3. CASE h.mem[b + h.mem[b].size].free = 0
    <3>1. g = TellNext(m, b)
      BY <1>3, <2>3 DEF JoinNext
    <3> QED
      BY <2>3, <3>1, TellNextOK
  <2> QED
    BY <2>1, <2>2, <2>3 DEF Bit
<1> HIDE DEF m, g
<1>6. r = IF g.mem[b].prevFree = 0 THEN Done(g)
          ELSE IF PrevCorrupt(g, b) THEN Panic(g)
          ELSE Done(MergePrev(g, b))
  BY <1>1, <1>2, <1>4 DEF simple_free, m, g
<1> HIDE DEF r
<1>7. /\ g \in Heap /\ Tiled(g) /\ Tagged(g) /\ CoalescedExcept(g, b) /\ Listed(g)
      /\ b \in FreeBlocks(g)
  BY <1>5 DEF HalfFreed
<1>8. g.mem[b].prevFree \in Bit
  BY <1>1, <1>7, BlockBounds, HeapFields
<1>9. g.mem[b].prevFree = 1 => ~PrevCorrupt(g, b)
  BY <1>7, PrevBlockFound
<1> QED
  BY <1>5, <1>6, <1>8, <1>9 DEF Done, Bit, r, g, m

(***************************************************************************)
(* simple_free of a block in use finds nothing to complain about, keeps    *)
(* the heap intact, and takes the block, and no other, out of use.         *)
(***************************************************************************)
LEMMA FreeOK ==
  ASSUME NEW h \in Heap, HeapOK(h), NEW b \in UsedBlocks(h)
  PROVE  LET r == simple_free(h, b + HeadCells)
         IN  /\ r.panic = FALSE
             /\ r.heap \in Heap
             /\ HeapOK(r.heap)
             /\ UsedBlocks(r.heap) = UsedBlocks(h) \ {b}
             /\ \A c \in UsedBlocks(h) \ {b} : r.heap.mem[c].size = h.mem[c].size
<1> DEFINE g == JoinNext(MarkFree(h, b), b)
           r == simple_free(h, b + HeadCells)
<1>1. /\ HalfFreed(h, g, b) /\ g.mem[b].prevFree \in Bit /\ r.panic = FALSE
      /\ r.heap = IF g.mem[b].prevFree = 0 THEN g ELSE MergePrev(g, b)
  BY JoinNextHalf
<1> HIDE DEF g, r
<1>2. /\ g \in Heap /\ Tiled(g) /\ Tagged(g) /\ CoalescedExcept(g, b) /\ Listed(g)
      /\ b \in FreeBlocks(g) /\ UsedBlocks(g) = UsedBlocks(h) \ {b}
      /\ \A c \in UsedBlocks(h) \ {b} : g.mem[c].size = h.mem[c].size
  BY <1>1 DEF HalfFreed
<1>3. CASE g.mem[b].prevFree = 0
  <2>1. r.heap = g
    BY <1>1, <1>3
  <2>2. Coalesced(g)
    BY <1>2, <1>3, LoneBlock
  <2> QED
    BY <1>1, <1>2, <2>1, <2>2 DEF HeapOK, r
<1>4. CASE g.mem[b].prevFree = 1
  <2>1. r.heap = MergePrev(g, b)
    BY <1>1, <1>4
  <2> QED
    BY <1>1, <1>2, <1>4, <2>1, MergePrevOK DEF r
<1> QED
  BY <1>1, <1>3, <1>4 DEF Bit

-----------------------------------------------------------------------------
(* What simple_free and simple_malloc leave alone *)

(***************************************************************************)
(* g is h after b has become part of the free block from f to e: changed   *)
(* are the headers of f and b, the footer below e and a flag of e.         *)
(***************************************************************************)
FreedAround(h, g, b, f) ==
  LET e == f + g.mem[f].size
  IN  /\ f \in FreeBlocks(g) /\ f \in h.blocks
      /\ f <= b /\ b + h.mem[b].size <= e
      /\ e \in h.blocks
      /\ g.mem[b].free = 1
      /\ g.mem[e].size = h.mem[e].size /\ g.mem[e].free = h.mem[e].free
      /\ \A c \in Cells \ {b, f, e - 1, e} : g.mem[c] = h.mem[c]
      /\ g.blocks \subseteq h.blocks
      /\ \A c \in h.blocks : c <= f \/ e <= c => c \in g.blocks

\* Before ensure_prev_block_coalescing the free block starts at b.
LEMMA JoinNextFrame ==
  ASSUME NEW h \in Heap, HeapOK(h), NEW b \in UsedBlocks(h)
  PROVE  FreedAround(h, JoinNext(MarkFree(h, b), b), b, b)
<1> DEFINE m    == MarkFree(h, b)
           g    == JoinNext(m, b)
           sb   == h.mem[b].size
           next == b + sb
<1>1. Tiled(h) /\ b \in h.blocks \ {EndBlock}
  BY DEF HeapOK, UsedBlocks
<1>2. /\ b \in Nat /\ sb \in Nat /\ sb > HeadCells /\ b \in Cells
      /\ next \in Cells /\ next \in Nat /\ next \in h.blocks
      /\ \A c \in h.blocks : c \in Int /\ (c <= b \/ next <= c)
  BY <1>1, BlockBounds DEF Cells
<1>3. /\ m.mem \in [Cells -> Cell]
      /\ \A c \in Cells \ {b} : m.mem[c] = h.mem[c]
      /\ m.mem[b].size = sb /\ m.mem[b].free = 1
      /\ m.mem[next] = h.mem[next] /\ m.blocks = h.blocks
  BY <1>1, MarkFreeCells
<1>4. h.mem[next].free \in Bit /\ h.mem[next].size \in Nat
  BY <1>2, HeapFields
<1> HIDE DEF m, sb
<1>5. CASE h.mem[next].free = 0
  <2> DEFINE foot == next - 1
  <2>1. g = TellNext(m, b)
    BY <1>3, <1>5 DEF JoinNext
  <2> HIDE DEF g
  <2>2. /\ g.mem = [m.mem EXCEPT ![next] = WithPrevFree(@, 1), ![foot] = Footer(@, sb)]
        /\ g.blocks = h.blocks
    <3> DEFINE ms == m.mem[b].size
               mn == b + ms
               mf == b + ms - 1
    <3>1. /\ g.mem = [m.mem EXCEPT ![mn] = WithPrevFree(@, 1), ![mf] = Footer(@, ms)]
          /\ g.blocks = m.blocks
      BY <2>1 DEF TellNext
    <3>2. ms = sb /\ mn = next /\ mf = foot
      BY <1>2, <1>3
    <3> HIDE DEF ms, mn, mf, next, foot
    <3> QED
      BY <1>3, <3>1, <3>2
  <2>3. /\ foot \in Cells /\ foot # b /\ foot # next /\ next # b
        /\ b <= b /\ b + sb <= next
    BY <1>2, Geometry DEF Cells
  <2> HIDE DEF foot, next
  <2>4. /\ \A c \in Cells \ {b, foot, next} : g.mem[c] = h.mem[c]
        /\ g.mem[b] = m.mem[b] /\ g.mem[next] = WithPrevFree(h.mem[next], 1)
    BY <1>2, <1>3, <2>2, <2>3
  <2>5. g.mem[next].size = h.mem[next].size /\ g.mem[next].free = h.mem[next].free
    BY <1>2, <2>4, HeapFields, WithPrevFreeCell DEF Bit
  <2>6. g.mem[b].size = sb /\ g.mem[b].free = 1
    BY <1>3, <2>4
  <2>7. b \in FreeBlocks(g)
    BY <1>1, <2>2, <2>6 DEF FreeBlocks
  <2>8. b + g.mem[b].size = next /\ next - 1 = foot /\ b \in h.blocks /\ b + h.mem[b].size <= next
    BY <1>1, <2>3, <2>6 DEF next, foot, sb
  <2>9. FreedAround(h, g, b, b)
    BY <1>2, <2>2, <2>3, <2>4, <2>5, <2>6, <2>7, <2>8 DEF FreedAround
  <2> QED
    BY <2>9 DEF g, m
<1>6. CASE h.mem[next].free = 1
  <2> DEFINE sn   == h.mem[next].size
             s    == sb + sn
             top  == b + s
             foot == top - 1
  <2>1. g = MergeNext(m, b)
    BY <1>3, <1>6 DEF JoinNext
  <2> HIDE DEF g
  <2>2. /\ g.mem = [m.mem EXCEPT ![b] = WithSize(@, s), ![foot] = Footer(@, s)]
        /\ g.blocks = h.blocks \ {next}
    <3> DEFINE ms == m.mem[b].size
               mn == b + ms
               mt == ms + m.mem[mn].size
               mf == b + mt - 1
    <3>1. /\ g.mem = [m.mem EXCEPT ![b] = WithSize(@, mt), ![mf] = Footer(@, mt)]
          /\ g.blocks = m.blocks \ {mn}
      BY <2>1 DEF MergeNext
    <3>2. mn = next
      BY <1>3
    <3>3. m.mem[mn].size = sn
      <4> HIDE DEF mn, next
      <4> QED
        BY <1>3, <3>2
    <3>4. mt = s
      <4> HIDE DEF mn, sn
      <4> QED
        BY <1>3, <3>3
    <3>5. mf = foot
      <4>1. s \in Nat /\ b \in Nat
        BY <1>2, <1>4
      <4> HIDE DEF mt, s
      <4> QED
        BY <3>4, <4>1
    <3> HIDE DEF mt, mn, mf, next, foot, s
    <3> QED
      BY <1>3, <3>1, <3>2, <3>4, <3>5
  <2>3. next # EndBlock
    BY <1>1, <1>6 DEF Tiled
  <2>4. /\ sn > HeadCells /\ next + sn \in h.blocks /\ next + sn \in Cells
        /\ \A c \in h.blocks : c <= next \/ next + sn <= c
    BY <1>1, <1>2, <2>3, BlockBounds
  <2> HIDE DEF sn, next
  <2>5. /\ s \in Nat /\ top \in Nat /\ top = next + sn /\ top \in h.blocks /\ top \in Cells
        /\ foot \in Cells /\ foot # b /\ top # b /\ top # foot /\ b <= b /\ b + sb <= top
        /\ next < top /\ b < next
    BY <1>2, <1>4, <2>4, Geometry DEF Cells, next, sn
  <2> HIDE DEF foot, top, s
  <2>6. /\ \A c \in Cells \ {b, foot} : g.mem[c] = h.mem[c]
        /\ g.mem[b] = WithSize(m.mem[b], s)
    BY <1>2, <1>3, <2>2, <2>5
  <2>7. g.mem[top] = h.mem[top]
    BY <2>5, <2>6
  <2>8. g.mem[b].size = s /\ g.mem[b].free = 1
    <3>1. m.mem[b] \in Cell /\ m.mem[b].free = 1
      BY <1>2, <1>3
    <3>2. s \in Nat /\ g.mem[b] = WithSize(m.mem[b], s)
      BY <2>5, <2>6
    <3> DEFINE c == m.mem[b]
    <3> HIDE DEF c
    <3>3. WithSize(c, s).size = s /\ WithSize(c, s).free = c.free
      BY <3>1, <3>2, WithSizeCell DEF c
    <3> QED
      BY <3>1, <3>2, <3>3 DEF c
  <2>9. b \in FreeBlocks(g)
    BY <1>1, <1>2, <2>2, <2>5, <2>8 DEF FreeBlocks
  <2>10. ASSUME NEW c \in h.blocks, c <= b \/ top <= c
         PROVE  c \in g.blocks
    BY <1>2, <2>2, <2>5, <2>10
  <2>11. /\ g.blocks \subseteq h.blocks /\ b + g.mem[b].size = top /\ top - 1 = foot
         /\ b \in h.blocks /\ b + h.mem[b].size <= top
    BY <1>1, <2>2, <2>5, <2>8 DEF top, foot, sb
  <2>12. FreedAround(h, g, b, b)
    BY <2>5, <2>6, <2>7, <2>8, <2>9, <2>10, <2>11 DEF FreedAround
  <2> QED
    BY <2>12 DEF g, m
<1> QED
  BY <1>4, <1>5, <1>6 DEF Bit

\* simple_free of a block in use.
LEMMA FreeFrame ==
  ASSUME NEW h \in Heap, HeapOK(h), NEW b \in UsedBlocks(h)
  PROVE  \E f : FreedAround(h, simple_free(h, b + HeadCells).heap, b, f)
<1> DEFINE k == JoinNext(MarkFree(h, b), b)
           r == simple_free(h, b + HeadCells)
<1>1. /\ FreedAround(h, k, b, b) /\ HalfFreed(h, k, b)
      /\ k.mem[b].prevFree \in Bit
      /\ r.heap = IF k.mem[b].prevFree = 0 THEN k ELSE MergePrev(k, b)
  BY JoinNextFrame, JoinNextHalf
<1> HIDE DEF k, r
<1>2. CASE k.mem[b].prevFree = 0
  <2>1. r.heap = k
    BY <1>1, <1>2
  <2> QED
    BY <1>1, <2>1 DEF r
<1>3. CASE k.mem[b].prevFree = 1
  <2> DEFINE p    == PrevBlock(k, b)
             g    == MergePrev(k, b)
             sp   == k.mem[p].size
             sb   == k.mem[b].size
             s    == sp + sb
             e    == b + sb
             foot == p + s - 1
  <2>1. /\ k \in Heap /\ Tiled(k) /\ Tagged(k) /\ CoalescedExcept(k, b) /\ Listed(k)
        /\ b \in FreeBlocks(k)
    BY <1>1 DEF HalfFreed
  <2>2. /\ p \in k.blocks \ {EndBlock} /\ p + sp = b /\ k.mem[p].free = 1
    BY <1>3, <2>1, PrevBlockFound
  <2>3. /\ g.mem = [k.mem EXCEPT ![p] = WithSize(@, s), ![foot] = Footer(@, s)]
        /\ g.blocks = k.blocks \ {b}
    BY DEF MergePrev
  <2>4. b \in k.blocks \ {EndBlock}
    BY <2>1 DEF FreeBlocks, Tiled
  <2> HIDE DEF g, p
  <2>5. /\ p \in Nat /\ p \in Cells /\ sp \in Nat /\ sp > HeadCells /\ k.mem[p] \in Cell
        /\ b \in Nat /\ b \in Cells /\ sb \in Nat /\ sb > HeadCells /\ e \in Cells
        /\ \A c \in k.blocks : c \in Int
    BY <2>1, <2>2, <2>4, BlockBounds, HeapFields
  <2> HIDE DEF sp, sb
  <2>6. /\ s \in Nat /\ e \in Nat /\ foot = e - 1 /\ p + s = e /\ foot \in Cells
        /\ p < b /\ b < foot /\ foot < e /\ p # foot /\ p # e /\ e # foot /\ b # foot /\ p # b
    BY <2>2, <2>5, Geometry DEF Cells
  <2> HIDE DEF s, e, foot
  <2>7. /\ g.mem[p] = WithSize(k.mem[p], s)
        /\ \A c \in Cells \ {p, foot} : g.mem[c] = k.mem[c]
    BY <2>1, <2>3, <2>5, <2>6, HeapFields
  <2>8. g.mem[p].size = s /\ g.mem[p].free = 1
    <3>1. k.mem[p] \in Cell /\ s \in Nat /\ g.mem[p] = WithSize(k.mem[p], s)
      BY <2>5, <2>6, <2>7
    <3> QED
      BY <2>2, <3>1, WithSizeCell, SMTT(60)
  <2>9. /\ e \in h.blocks /\ k.mem[b].free = 1 /\ b + h.mem[b].size <= e
        /\ k.mem[e].size = h.mem[e].size /\ k.mem[e].free = h.mem[e].free
        /\ \A c \in Cells \ {b, foot, e} : k.mem[c] = h.mem[c]
        /\ k.blocks \subseteq h.blocks
        /\ \A c \in h.blocks : c <= b \/ e <= c => c \in k.blocks
    BY <1>1, <2>6 DEF FreedAround, e, sb
  <2>10. p \in FreeBlocks(g) /\ p \in h.blocks /\ p <= b
    BY <2>2, <2>3, <2>5, <2>6, <2>8, <2>9 DEF FreeBlocks
  <2>11. g.mem[b].free = 1 /\ g.mem[e] = k.mem[e]
    BY <2>5, <2>6, <2>7, <2>9
  <2>12. \A c \in Cells \ {b, p, foot, e} : g.mem[c] = h.mem[c]
    BY <2>7, <2>9
  <2>13. ASSUME NEW c \in h.blocks, c <= p \/ e <= c
         PROVE  c \in g.blocks
    <3>1. c \in Int
      BY HeapFields DEF Cells
    <3>2. c # b /\ (c <= b \/ e <= c)
      BY <2>5, <2>6, <2>13, <3>1
    <3> QED
      BY <2>3, <2>9, <3>2
  <2>14. FreedAround(h, g, b, p) /\ r.heap = g
    <3>1. p + g.mem[p].size = e /\ e - 1 = foot
      BY <2>6, <2>8
    <3>2. r.heap = g
      BY <1>1, <1>3 DEF g
    <3>3. /\ g.mem[b].free = 1 /\ g.mem[e].size = h.mem[e].size /\ g.mem[e].free = h.mem[e].free
          /\ g.blocks \subseteq h.blocks
      BY <2>3, <2>9, <2>11
    <3>4. \A c \in h.blocks : c <= p \/ e <= c => c \in g.blocks
      BY <2>13
    <3> QED
      BY <2>9, <2>10, <2>12, <3>1, <3>2, <3>3, <3>4 DEF FreedAround
  <2> QED
    BY <2>14 DEF r
<1> QED
  BY <1>1, <1>2, <1>3 DEF Bit

\* The cells behind the first of a block in use are not simple_free's.
LEMMA FreeKeepsBuffers ==
  ASSUME NEW h \in Heap, HeapOK(h), NEW b \in UsedBlocks(h),
         NEW u \in UsedBlocks(h) \ {b},
         NEW c \in Cells, u < c, c < u + h.mem[u].size
  PROVE  simple_free(h, b + HeadCells).heap.mem[c] = h.mem[c]
<1> DEFINE g == simple_free(h, b + HeadCells).heap
<1>1. /\ g \in Heap /\ HeapOK(g) /\ u \in UsedBlocks(g)
      /\ g.mem[u].size = h.mem[u].size
  BY FreeOK
<1>2. PICK f : FreedAround(h, g, b, f)
  BY FreeFrame
<1> DEFINE e == f + g.mem[f].size
<1> HIDE DEF g
<1>3. /\ f \in FreeBlocks(g) /\ f \in h.blocks /\ f <= b /\ b + h.mem[b].size <= e
      /\ \A d \in Cells \ {b, f, e - 1, e} : g.mem[d] = h.mem[d]
  BY <1>2 DEF FreedAround
<1>4. /\ b \in Nat /\ h.mem[b].size \in Nat /\ h.mem[b].size > HeadCells
      /\ u \in Nat /\ h.mem[u].size \in Nat
  BY BlockBounds DEF UsedBlocks, HeapOK
<1>5. /\ f \in g.blocks \ {EndBlock} /\ u \in g.blocks \ {EndBlock} /\ f # u /\ Tiled(g)
  BY <1>1, <1>3 DEF UsedBlocks, FreeBlocks, HeapOK, Tiled
<1>6. f \in Nat /\ g.mem[f].size \in Nat
  BY <1>1, <1>5, BlockBounds
<1>7. u + h.mem[u].size <= f \/ e <= u
  BY <1>1, <1>5, OutsideBlock
<1>8. c \in Nat /\ e \in Nat
  BY <1>6 DEF Cells
<1> HIDE DEF e
<1>9. c \notin {b, f, e - 1, e}
  BY <1>3, <1>4, <1>6, <1>7, <1>8, Geometry
<1> QED
  BY <1>3, <1>9 DEF g

(***************************************************************************)
(* A header inside a free block keeps its FLAG_FREE through simple_free,   *)
(* and the header of the block that is freed becomes one.                  *)
(***************************************************************************)
LEMMA FreeKeepsInside ==
  ASSUME NEW h \in Heap, HeapOK(h), NEW b \in UsedBlocks(h),
         NEW c, FreeInside(h, c) \/ c = b
  PROVE  FreeInside(simple_free(h, b + HeadCells).heap, c)
<1> DEFINE g == simple_free(h, b + HeadCells).heap
<1>1. g \in Heap /\ HeapOK(g)
  BY FreeOK
<1>2. PICK f : FreedAround(h, g, b, f)
  BY FreeFrame
<1> DEFINE e == f + g.mem[f].size
<1> HIDE DEF g
<1>3. /\ f \in FreeBlocks(g) /\ f \in h.blocks /\ f <= b /\ b + h.mem[b].size <= e
      /\ e \in h.blocks /\ g.mem[b].free = 1 /\ g.mem[f].free = 1
      /\ g.mem[e].size = h.mem[e].size /\ g.mem[e].free = h.mem[e].free
      /\ \A d \in Cells \ {b, f, e - 1, e} : g.mem[d] = h.mem[d]
      /\ \A d \in h.blocks : d <= f \/ e <= d => d \in g.blocks
  BY <1>2 DEF FreedAround, FreeBlocks
<1>4. /\ b \in Nat /\ b \in Cells /\ h.mem[b].size \in Nat /\ h.mem[b].size > HeadCells
  BY BlockBounds DEF UsedBlocks, HeapOK
<1>5. f \in g.blocks \ {EndBlock} /\ Tiled(g) /\ Tiled(h)
  <2>1. Tiled(g) /\ Tiled(h)
    BY <1>1 DEF HeapOK
  <2>2. f \in g.blocks /\ g.mem[f].free = 1
    BY <1>3 DEF FreeBlocks
  <2>3. g.mem[EndBlock].free = 0
    BY <2>1 DEF Tiled
  <2> QED
    BY <2>1, <2>2, <2>3
<1>6. f \in Nat /\ g.mem[f].size \in Nat /\ e \in Nat /\ f \in Cells /\ e \in Cells
  BY <1>1, <1>5, BlockBounds DEF Cells
<1>7. ASSUME c \in Cells, g.mem[c].free = 1, f <= c, c + HeadCells < e
      PROVE  FreeInside(g, c)
  BY <1>3, <1>7 DEF FreeInside
<1>8. CASE c = b
  <2>1. f <= c /\ c + HeadCells < e
    <3> HIDE DEF e
    <3> QED
      BY <1>3, <1>4, <1>6, <1>8, Geometry
  <2> QED
    BY <1>3, <1>4, <1>7, <1>8, <2>1 DEF g
<1>9. CASE FreeInside(h, c)
  <2>1. c \in Cells /\ c \in Nat /\ h.mem[c].free = 1
    BY <1>9 DEF FreeInside, Cells
  <2>2. PICK x \in FreeBlocks(h) : x <= c /\ c + HeadCells < x + h.mem[x].size
    BY <1>9 DEF FreeInside
  <2> DEFINE sx == h.mem[x].size
  <2>3. x \in h.blocks \ {EndBlock} /\ h.mem[x].free = 1
    BY <1>5 DEF FreeBlocks, Tiled
  <2>4. /\ x \in Nat /\ x \in Cells /\ sx \in Nat /\ sx > HeadCells
        /\ \A d \in h.blocks : d \in Int /\ (d <= x \/ x + sx <= d)
    BY <1>5, <2>3, BlockBounds
  <2>5. (f <= x \/ x + sx <= f) /\ (e <= x \/ x + sx <= e)
    BY <1>3, <1>6, <2>4
  <2> HIDE DEF e, sx
  <2>6. CASE f <= x /\ x + sx <= e
    <3>1. f <= c /\ c + HeadCells < e
      BY <1>6, <2>1, <2>2, <2>4, <2>6, Geometry DEF sx
    <3>2. c # e - 1 /\ c # e
      BY <1>6, <2>1, <3>1, Geometry
    <3>3. g.mem[c].free = 1
      BY <1>3, <2>1, <3>2
    <3> QED
      BY <1>7, <2>1, <3>1, <3>3 DEF g, e
  <2>7. CASE x + sx <= f \/ e <= x
    <3>1. f < e /\ f <= b /\ b < e
      BY <1>3, <1>4, <1>6, Geometry
    <3>2. c # b /\ c # f /\ c # e - 1 /\ (c = e => c = x)
      BY <1>4, <1>6, <2>1, <2>2, <2>4, <2>7, <3>1, Geometry DEF sx
    <3>3. x # b /\ x # f /\ x # e - 1
      BY <1>4, <1>6, <2>4, <2>7, <3>1, Geometry
    <3>4. g.mem[c].free = 1
      BY <1>3, <2>1, <3>2
    <3>5. g.mem[x].size = sx /\ g.mem[x].free = 1
      <4>1. CASE x = e
        BY <1>3, <2>3, <4>1 DEF sx
      <4>2. CASE x # e
        BY <1>3, <2>3, <2>4, <3>3, <4>2 DEF sx
      <4> QED
        BY <4>1, <4>2
    <3>6. x <= f \/ e <= x
      BY <1>6, <2>4, <2>7, Geometry
    <3>7. x \in FreeBlocks(g)
      BY <1>3, <2>3, <3>5, <3>6 DEF FreeBlocks
    <3> QED
      BY <2>1, <2>2, <3>4, <3>5, <3>7 DEF FreeInside, g, sx
  <2> QED
    BY <1>6, <2>4, <2>5, <2>6, <2>7
<1> QED
  BY <1>8, <1>9

\* simple_malloc writes inside the block it takes, and a flag of the next.
LEMMA TakeFrame ==
  ASSUME NEW h, NEW b, NEW want, Takes(h, b, want),
         NEW c \in Cells, c < b \/ b + h.mem[b].size < c
  PROVE  TakenHeap(h, b, want).mem[c] = h.mem[c]
<1> DEFINE s    == h.mem[b].size
           rem  == Remaining(h, b, want)
           new  == (b + HeadCells + want) % SizeCells
           last == new + rem - 1
           next == b + s
           g    == TakenHeap(h, b, want)
<1>1. /\ h \in Heap /\ Tiled(h) /\ b \in h.blocks \ {EndBlock} /\ want \in Nat /\ c \in Nat
      /\ s \in Nat /\ b \in Nat /\ s >= want + HeadCells
      /\ rem = s - HeadCells - want /\ new = b + HeadCells + want
  BY TakeArithmetic DEF Takes, HeapOK, Cells
<1>2. h.mem \in [Cells -> Cell] /\ c # b /\ c # next
  BY <1>1, HeapFields
<1>3. CASE MustSplit(h, b, want)
  <2>1. g = SplitBlock(h, b, want)
    BY <1>3 DEF TakenHeap
  <2>2. g.mem = [h.mem EXCEPT ![last] = Footer(@, rem),
                              ![new] = Header(rem, 1, 0),
                              ![b] = WithFree(WithSize(@, (want + HeadCells) % SizeCells), 0)]
    BY <2>1 DEF SplitBlock
  <2>3. rem > HeadCells + 1
    BY <1>3 DEF MustSplit
  <2> HIDE DEF rem, new, g, s
  <2>4. c # last /\ c # new
    BY <1>1, <2>3, Geometry DEF s
  <2> HIDE DEF last
  <2>5. g.mem[c] = h.mem[c]
    BY <1>2, <2>2, <2>4
  <2> QED
    BY <2>5 DEF g
<1>4. CASE ~MustSplit(h, b, want)
  <2>1. ~NextCorrupt(h, b)
    BY <1>1, BlockBounds DEF NextCorrupt, Tiled
  <2>2. g = WholeBlock(h, b)
    BY <1>4, <2>1 DEF TakenHeap
  <2> HIDE DEF g
  <2>3. g.mem = [h.mem EXCEPT ![b] = WithFree(@, 0), ![next] = WithPrevFree(@, 0)]
    BY <2>2 DEF WholeBlock
  <2> HIDE DEF next
  <2>4. g.mem[c] = h.mem[c]
    BY <1>2, <2>3
  <2> QED
    BY <2>4 DEF g
<1> QED
  BY <1>3, <1>4

-----------------------------------------------------------------------------
(* Stores into a buffer, and simple_init *)

\* g is h but for the payload of b.
StoredIn(h, g, b) ==
  /\ g \in Heap
  /\ g.lst = h.lst /\ g.blocks = h.blocks
  /\ \A c \in Cells : c < b + HeadCells \/ b + h.mem[b].size <= c => g.mem[c] = h.mem[c]

\* What is stored in the payload of a block in use does not matter to the heap.
LEMMA StoredInOK ==
  ASSUME NEW h \in Heap, HeapOK(h), NEW b \in UsedBlocks(h), NEW g, StoredIn(h, g, b)
  PROVE  /\ HeapOK(g)
         /\ UsedBlocks(g) = UsedBlocks(h)
         /\ FreeBlocks(g) = FreeBlocks(h)
         /\ \A c \in h.blocks : g.mem[c] = h.mem[c]
<1> DEFINE top == b + h.mem[b].size
<1>1. /\ Tiled(h) /\ Tagged(h) /\ Coalesced(h) /\ Listed(h)
      /\ b \in h.blocks \ {EndBlock} /\ b \notin FreeBlocks(h)
  BY DEF HeapOK, UsedBlocks
<1>2. b \in Nat /\ h.mem[b].size \in Nat /\ h.mem[b].size > HeadCells
  BY <1>1, BlockBounds
<1>3. /\ g.lst = h.lst /\ g.blocks = h.blocks
      /\ \A c \in Cells : c < b + HeadCells \/ top <= c => g.mem[c] = h.mem[c]
  BY DEF StoredIn
<1>4. ASSUME NEW c \in h.blocks
      PROVE  g.mem[c] = h.mem[c]
  <2>1. c \in Cells /\ c \in Nat
    BY HeapFields DEF Cells
  <2>2. c < b + HeadCells \/ top <= c
    <3>1. CASE c = b
      BY <1>2, <3>1, Geometry
    <3>2. CASE c # b
      <4>1. c < b \/ top <= c
        BY <1>1, <3>2, OutsideBlock
      <4> QED
        BY <1>2, <2>1, <4>1, Geometry
    <3> QED
      BY <3>1, <3>2
  <2> QED
    BY <1>3, <2>1, <2>2
<1>5. ASSUME NEW c \in FreeBlocks(h)
      PROVE  g.mem[c + h.mem[c].size - 1] = h.mem[c + h.mem[c].size - 1]
  <2> DEFINE sc   == h.mem[c].size
             foot == c + sc - 1
  <2>1. c \in h.blocks \ {EndBlock} /\ c # b
    BY <1>1 DEF FreeBlocks, Tiled
  <2>2. /\ c \in Nat /\ sc \in Nat /\ sc > HeadCells /\ c + sc \in Cells
    BY <1>1, <2>1, BlockBounds
  <2>3. c + sc <= b \/ top <= c
    BY <1>1, <2>1, OutsideBlock
  <2> HIDE DEF sc
  <2>4. foot \in Cells /\ (foot < b + HeadCells \/ top <= foot)
    BY <1>2, <2>2, <2>3, Geometry DEF Cells
  <2> HIDE DEF foot
  <2>5. g.mem[foot] = h.mem[foot]
    BY <1>3, <2>4
  <2> QED
    BY <2>5 DEF foot, sc
<1>6. FreeBlocks(g) = FreeBlocks(h) /\ UsedBlocks(g) = UsedBlocks(h)
  BY <1>3, <1>4 DEF FreeBlocks, UsedBlocks
<1>7. Tiled(g)
  BY <1>1, <1>3, <1>4 DEF Tiled
<1>8. Tagged(g)
  <2>1. g.mem[0].prevFree = 0
    BY <1>1, <1>4 DEF Tagged, Tiled
  <2>2. ASSUME NEW c \in h.blocks \ {EndBlock}
        PROVE  LET next == c + g.mem[c].size
               IN  /\ g.mem[next].prevFree = g.mem[c].free
                   /\ g.mem[c].free = 1 /\ next # EndBlock
                        => g.mem[next - 1].size = g.mem[c].size
    <3> DEFINE next == c + h.mem[c].size
    <3>1. g.mem[c] = h.mem[c] /\ g.mem[next] = h.mem[next]
      BY <1>1, <1>4, BlockBounds
    <3>2. /\ h.mem[next].prevFree = h.mem[c].free
          /\ h.mem[c].free = 1 /\ next # EndBlock => h.mem[next - 1].size = h.mem[c].size
      BY <1>1 DEF Tagged
    <3>3. h.mem[c].free = 1 => g.mem[next - 1] = h.mem[next - 1]
      <4> SUFFICES ASSUME h.mem[c].free = 1
                   PROVE  g.mem[next - 1] = h.mem[next - 1]
        OBVIOUS
      <4>1. c \in FreeBlocks(h)
        BY DEF FreeBlocks
      <4>2. c \in Nat /\ h.mem[c].size \in Nat
        BY <1>1, BlockBounds
      <4> QED
        BY <1>5, <4>1, <4>2
    <3> QED
      BY <3>1, <3>2, <3>3
  <2> QED
    BY <1>3, <2>1, <2>2 DEF Tagged
<1>9. Coalesced(g)
  <2>1. ASSUME NEW c \in FreeBlocks(h)
        PROVE  g.mem[c + g.mem[c].size].free = 0
    <3>1. c \in h.blocks \ {EndBlock}
      BY <1>1 DEF FreeBlocks, Tiled
    <3>2. g.mem[c] = h.mem[c] /\ g.mem[c + h.mem[c].size] = h.mem[c + h.mem[c].size]
      BY <1>1, <1>4, <3>1, BlockBounds
    <3> QED
      BY <1>1, <3>2 DEF Coalesced
  <2> QED
    BY <1>6, <2>1 DEF Coalesced
<1>10. Listed(g)
  BY <1>1, <1>3, <1>6 DEF Listed
<1> QED
  BY <1>4, <1>6, <1>7, <1>8, <1>9, <1>10 DEF HeapOK

\* A store into the payload of a block in use misses the free blocks.
LEMMA StoreKeepsInside ==
  ASSUME NEW h \in Heap, HeapOK(h), NEW b \in UsedBlocks(h), NEW g, StoredIn(h, g, b),
         NEW c, FreeInside(h, c)
  PROVE  FreeInside(g, c)
<1>1. /\ FreeBlocks(g) = FreeBlocks(h)
      /\ \A d \in h.blocks : g.mem[d] = h.mem[d]
  BY StoredInOK
<1>2. c \in Cells /\ c \in Nat /\ h.mem[c].free = 1
  BY DEF FreeInside, Cells
<1>3. PICK x \in FreeBlocks(h) : x <= c /\ c + HeadCells < x + h.mem[x].size
  BY DEF FreeInside
<1>4. /\ x \in h.blocks \ {EndBlock} /\ b \in h.blocks \ {EndBlock} /\ x # b /\ Tiled(h)
  BY DEF FreeBlocks, UsedBlocks, HeapOK, Tiled
<1>5. /\ x \in Nat /\ h.mem[x].size \in Nat /\ b \in Nat /\ h.mem[b].size \in Nat
      /\ x + h.mem[x].size <= b \/ b + h.mem[b].size <= x
  BY <1>4, BlockBounds, OutsideBlock
<1>6. c < b + HeadCells \/ b + h.mem[b].size <= c
  BY <1>2, <1>3, <1>5, Geometry
<1>7. g.mem[c] = h.mem[c] /\ g.mem[x] = h.mem[x]
  BY <1>1, <1>2, <1>4, <1>6 DEF StoredIn
<1> QED
  BY <1>1, <1>2, <1>3, <1>7 DEF FreeInside

\* memset, or a client's store, of n cells that fit the payload of b.
LEMMA FillOK ==
  ASSUME NEW h \in Heap, HeapOK(h), NEW b \in UsedBlocks(h),
         NEW n \in Nat, n <= h.mem[b].size - HeadCells, NEW d \in Cell
  PROVE  StoredIn(h, Fill(h, Span(b + HeadCells, n), d), b)
<1> DEFINE S == Span(b + HeadCells, n)
           g == Fill(h, S, d)
<1>1. b \in h.blocks \ {EndBlock} /\ Tiled(h)
  BY DEF HeapOK, UsedBlocks
<1>2. b \in Nat /\ h.mem[b].size \in Nat
  BY <1>1, BlockBounds
<1>3. h = [mem |-> h.mem, lst |-> h.lst, blocks |-> h.blocks]
  BY DEF Heap
<1> HIDE DEF S
<1>4. g = [mem |-> [c \in Cells |-> IF c \in S THEN d ELSE h.mem[c]],
           lst |-> h.lst, blocks |-> h.blocks]
  BY <1>3 DEF Fill
<1>5. g \in Heap
  BY <1>4 DEF Heap
<1>6. ASSUME NEW c \in Cells, c < b + HeadCells \/ b + h.mem[b].size <= c
      PROVE  g.mem[c] = h.mem[c]
  <2>1. c \in Nat
    BY DEF Cells
  <2>2. c \notin S
    BY <1>2, <1>6, <2>1, Geometry DEF S, Span
  <2> QED
    BY <1>4, <2>2
<1> QED
  BY <1>4, <1>5, <1>6 DEF StoredIn, S

\* memcpy of n cells from inside the heap to the payload of b.
LEMMA CopyOK ==
  ASSUME NEW h \in Heap, HeapOK(h), NEW b \in UsedBlocks(h),
         NEW n \in Nat, n <= h.mem[b].size - HeadCells,
         NEW src \in Nat, src + n <= HeapCells
  PROVE  StoredIn(h, memcpy(h, b + HeadCells, src, n), b)
<1> DEFINE dst == b + HeadCells
           S   == Span(dst, n)
           g   == memcpy(h, dst, src, n)
<1>1. b \in h.blocks \ {EndBlock} /\ Tiled(h)
  BY DEF HeapOK, UsedBlocks
<1>2. b \in Nat /\ h.mem[b].size \in Nat /\ dst \in Nat
  BY <1>1, BlockBounds, Geometry
<1>3. h = [mem |-> h.mem, lst |-> h.lst, blocks |-> h.blocks]
  BY DEF Heap
<1>4. ASSUME NEW c \in S
      PROVE  h.mem[src + (c - dst)] \in Cell
  <2>1. c \in Nat /\ dst <= c /\ c < dst + n
    BY DEF S, Span, Cells
  <2> HIDE DEF dst
  <2>2. src + (c - dst) \in Cells
    BY <1>2, <2>1, Geometry DEF Cells
  <2> QED
    BY <2>2, HeapFields
<1>5. g = [mem |-> [c \in Cells |-> IF c \in S THEN h.mem[src + (c - dst)] ELSE h.mem[c]],
           lst |-> h.lst, blocks |-> h.blocks]
  BY <1>3 DEF memcpy
<1> HIDE DEF S, g, dst
<1>6. g \in Heap
  <2>1. h.mem \in [Cells -> Cell] /\ h.lst \in [next : Links, prev : Links] /\ h.blocks \in SUBSET Cells
    BY DEF Heap
  <2>2. [c \in Cells |-> IF c \in S THEN h.mem[src + (c - dst)] ELSE h.mem[c]] \in [Cells -> Cell]
    BY <1>4, <2>1
  <2> QED
    BY <1>5, <2>1, <2>2 DEF Heap
<1>7. ASSUME NEW c \in Cells, c < dst \/ b + h.mem[b].size <= c
      PROVE  g.mem[c] = h.mem[c]
  <2>1. c \in Nat
    BY DEF Cells
  <2>2. c \notin S
    BY <1>2, <1>7, <2>1, Geometry DEF S, Span, dst
  <2> QED
    BY <1>5, <2>2
<1> QED
  BY <1>5, <1>6, <1>7 DEF StoredIn, g, dst

\* simple_init leaves one free block in front of the end block.
LEMMA InitOK ==
  ASSUME NEW h \in Heap
  PROVE  LET g == simple_init(h)
         IN  g \in Heap /\ HeapOK(g) /\ UsedBlocks(g) = {}
<1> DEFINE g == simple_init(h)
           L == list_init(h.lst, free_mem_list_head)
           M == list_add(L, 0, free_mem_list_head)
<1>1. /\ 0 \in Cells /\ EndBlock \in Cells /\ EndBlock # 0 /\ EndBlock > HeadCells
      /\ EndBlock \in Nat /\ 0 + EndBlock = EndBlock /\ EndBlock - 1 # 0
  BY Geometry DEF Cells
<1>2. /\ g.mem = [[c \in Cells |-> IF c \in HeadCells .. EndBlock - 1 THEN Poison ELSE h.mem[c]]
                    EXCEPT ![0] = Header(EndBlock, 1, 0), ![EndBlock] = Header(0, 0, 1)]
      /\ g.lst = M /\ g.blocks = {0, EndBlock}
      /\ g = [mem |-> g.mem, lst |-> g.lst, blocks |-> g.blocks]
  BY DEF simple_init
<1> HIDE DEF g
<1>3. g.mem[0] = Header(EndBlock, 1, 0) /\ g.mem[EndBlock] = Header(0, 0, 1)
  BY <1>1, <1>2
<1>4. /\ g.mem[0] \in Cell /\ g.mem[0].size = EndBlock /\ g.mem[0].magic = 1
      /\ g.mem[0].free = 1 /\ g.mem[0].prevFree = 0
  BY <1>1, <1>3, HeaderCell DEF Bit
<1>5. /\ g.mem[EndBlock] \in Cell /\ g.mem[EndBlock].size = 0 /\ g.mem[EndBlock].magic = 1
      /\ g.mem[EndBlock].free = 0 /\ g.mem[EndBlock].prevFree = 1
  BY <1>1, <1>3, HeaderCell DEF Bit
<1>6. g.mem \in [Cells -> Cell]
  <2>1. Poison \in Cell
    BY DEF Poison, Cell, Bit
  <2>2. ASSUME NEW c \in Cells
        PROVE  g.mem[c] \in Cell
    <3>1. CASE c = 0
      BY <1>4, <3>1
    <3>2. CASE c = EndBlock
      BY <1>5, <3>2
    <3>3. CASE c # 0 /\ c # EndBlock
      <4>1. g.mem[c] = IF c \in HeadCells .. EndBlock - 1 THEN Poison ELSE h.mem[c]
        BY <1>2, <3>3
      <4> QED
        BY <2>1, <4>1, HeapFields
    <3> QED
      BY <3>1, <3>2, <3>3
  <2> QED
    BY <1>2, <2>2
<1>7. L \in ListType(Nodes) /\ WellLinked(L, {free_mem_list_head})
  <2>1. /\ h.lst.next \in [Nodes -> Nodes \cup {NULL}]
        /\ h.lst.prev \in [Nodes -> Nodes \cup {NULL}]
        /\ free_mem_list_head \in Nodes
    BY FreeListNodes DEF ListType
  <2> QED
    BY <2>1 DEF list_init, ListType, WellLinked
<1> HIDE DEF L
<1>8. M \in ListType(Nodes) /\ WellLinked(M, {free_mem_list_head} \cup {0})
  <2>1. /\ free_mem_list_head \in {free_mem_list_head} /\ 0 \in Nodes
        /\ 0 \notin {free_mem_list_head} /\ {free_mem_list_head} \in SUBSET Nodes
    BY <1>1, FreeListNodes
  <2> QED
    BY <1>7, <2>1, ListAddLinks
<1>9. g \in Heap
  BY <1>1, <1>2, <1>6, <1>8 DEF Heap, ListType, Links
<1>10. FreeBlocks(g) = {0} /\ UsedBlocks(g) = {}
  <2>1. g.blocks = {0, EndBlock} /\ g.mem[0].free = 1 /\ g.mem[EndBlock].free # 1
    BY <1>2, <1>4, <1>5
  <2>2. FreeBlocks(g) = {0}
    BY <2>1 DEF FreeBlocks
  <2> QED
    BY <2>1, <2>2 DEF UsedBlocks
<1>11. 0 + g.mem[0].size = EndBlock
  BY <1>1, <1>4
<1>12. Tiled(g)
  BY <1>1, <1>2, <1>4, <1>5, <1>11, Geometry DEF Tiled
<1>13. Tagged(g)
  BY <1>1, <1>2, <1>4, <1>5, <1>11 DEF Tagged
<1>14. Coalesced(g)
  BY <1>5, <1>10, <1>11 DEF Coalesced
<1>15. Listed(g)
  <2>1. FreeBlocks(g) \cup {free_mem_list_head} = {free_mem_list_head} \cup {0}
    BY <1>10
  <2> QED
    BY <1>2, <1>8, <2>1 DEF Listed
<1> QED
  BY <1>9, <1>10, <1>12, <1>13, <1>14, <1>15 DEF HeapOK, g

-----------------------------------------------------------------------------
(* The free memory that simple_mm_get_free_memory counts *)

\* The sizes of the blocks in S below k add up to sum[k].
Sums(sum, h, S) ==
  /\ sum[0] = 0
  /\ \A k \in Nat : sum[k + 1] = sum[k] + (IF k \in S THEN h.mem[k].size ELSE 0)
  /\ SumSizes(h, S) = sum[HeapCells]

\* The sum of the sizes of S, as the function it is computed by.
LEMMA SumFunction ==
  ASSUME NEW h \in Heap, NEW S \in SUBSET Cells
  PROVE  \E sum \in [Nat -> Nat] : Sums(sum, h, S)
<1> DEFINE sz == [k \in Nat |-> IF k \in S THEN h.mem[k].size ELSE 0]
           Is(f) == f = [k \in Nat |-> IF k = 0 THEN 0
                             ELSE f[k - 1] + (IF k - 1 \in S THEN h.mem[k - 1].size ELSE 0)]
           f == CHOOSE f : Is(f)
<1>1. sz \in [Nat -> Nat]
  BY HeapFields
<1>2. \E g : Is(g)
  <2> DEFINE D == [k \in Nat |-> [v \in Nat |-> v + sz[k]]]
  <2>1. D \in [Nat -> [Nat -> Nat]]
    BY <1>1
  <2>2. PICK g \in [Nat -> Nat] : Follows(g, 0, D)
    <3>1. 0 \in Nat
      OBVIOUS
    <3> HIDE DEF D
    <3> QED
      BY <2>1, <3>1, Recursion
  <2>3. ASSUME NEW k \in Nat
        PROVE  g[k] = IF k = 0 THEN 0
                      ELSE g[k - 1] + (IF k - 1 \in S THEN h.mem[k - 1].size ELSE 0)
    <3>1. CASE k = 0
      BY <2>2, <3>1 DEF Follows
    <3>2. CASE k # 0
      <4>1. k - 1 \in Nat /\ (k - 1) + 1 = k
        BY <3>2
      <4>2. g[k] = D[k - 1][g[k - 1]] /\ g[k - 1] \in Nat
        BY <2>2, <4>1 DEF Follows
      <4>3. g[k] = g[k - 1] + sz[k - 1]
        BY <4>1, <4>2
      <4> QED
        BY <3>2, <4>1, <4>3
    <3> QED
      BY <3>1, <3>2
  <2>4. g = [k \in Nat |-> g[k]]
    OBVIOUS
  <2>5. Is(g)
    BY <2>3, <2>4
  <2> QED
    BY <2>5
<1>3. Is(f)
  <2> HIDE DEF Is
  <2> QED
    BY <1>2
<1>4. SumSizes(h, S) = f[HeapCells]
  BY DEF SumSizes
<1> HIDE DEF f
<1>5. f[0] = 0 /\ f = [k \in Nat |-> f[k]]
  BY <1>3
<1>6. ASSUME NEW k \in Nat PROVE f[k + 1] = f[k] + sz[k]
  <2>1. k + 1 \in Nat /\ k + 1 # 0 /\ (k + 1) - 1 = k
    OBVIOUS
  <2> QED
    BY <1>3, <2>1
<1> DEFINE P == {k \in Nat : f[k] \in Nat}
<1>7. \A k \in Nat : k \in P
  <2>1. 0 \in P
    BY <1>5
  <2>2. \A k \in Nat : k \in P => k + 1 \in P
    BY <1>1, <1>6
  <2> HIDE DEF P
  <2> QED
    BY <2>1, <2>2, Induct
<1>8. f \in [Nat -> Nat]
  BY <1>5, <1>7
<1> QED
  BY <1>4, <1>5, <1>6, <1>8 DEF Sums

\* One block more.
LEMMA SumAdd ==
  ASSUME NEW h \in Heap, NEW S \in SUBSET Cells, NEW x \in Cells, x \notin S
  PROVE  /\ SumSizes(h, S) \in Nat
         /\ SumSizes(h, S \cup {x}) = SumSizes(h, S) + h.mem[x].size
<1>1. S \cup {x} \in SUBSET Cells
  OBVIOUS
<1>2. PICK f \in [Nat -> Nat] : Sums(f, h, S)
  BY SumFunction
<1>3. PICK g \in [Nat -> Nat] : Sums(g, h, S \cup {x})
  BY <1>1, SumFunction
<1>4. x \in Nat /\ x < HeapCells /\ h.mem[x].size \in Nat /\ HeapCells \in Nat
  <2>1. h.mem[x].size \in Nat
    BY HeapFields
  <2>2. HeapCells \in Nat
    BY Geometry
  <2> QED
    BY <2>1, <2>2 DEF Cells
<1> DEFINE P == {k \in Nat : g[k] = f[k] + (IF k > x THEN h.mem[x].size ELSE 0)}
<1>5. 0 \in P
  BY <1>2, <1>3, <1>4 DEF Sums
<1>6. ASSUME NEW k \in Nat, k \in P PROVE k + 1 \in P
  <2>1. /\ g[k] = f[k] + (IF k > x THEN h.mem[x].size ELSE 0)
        /\ f[k] \in Nat /\ g[k] \in Nat /\ f[k + 1] \in Nat /\ g[k + 1] \in Nat
        /\ f[k + 1] = f[k] + (IF k \in S THEN h.mem[k].size ELSE 0)
        /\ g[k + 1] = g[k] + (IF k \in S \cup {x} THEN h.mem[k].size ELSE 0)
    BY <1>2, <1>3, <1>6 DEF Sums
  <2>2. k \in S => h.mem[k].size \in Nat
    BY HeapFields
  <2>3. CASE k = x
    <3>1. g[k] = f[k] /\ f[k + 1] = f[k] /\ g[k + 1] = g[k] + h.mem[x].size /\ k + 1 > x
      BY <1>4, <2>1, <2>3
    <3> QED
      BY <1>4, <2>1, <3>1
  <2>4. CASE k # x
    <3>1. (k + 1 > x) <=> (k > x)
      BY <1>4, <2>4
    <3>2. k \in S <=> k \in S \cup {x}
      BY <2>4
    <3> QED
      BY <1>4, <2>1, <2>2, <3>1, <3>2
  <2> QED
    BY <2>3, <2>4
<1>7. \A k \in Nat : k \in P
  <2> HIDE DEF P
  <2> QED
    BY <1>5, <1>6, Induct
<1>8. g[HeapCells] = f[HeapCells] + h.mem[x].size
  BY <1>4, <1>7
<1> QED
  BY <1>2, <1>3, <1>4, <1>8 DEF Sums

\* A part of S and the rest of it.
LEMMA SumSplit ==
  ASSUME NEW h \in Heap, NEW S \in SUBSET Cells, NEW T \in SUBSET S
  PROVE  /\ SumSizes(h, S) \in Nat /\ SumSizes(h, T) \in Nat /\ SumSizes(h, S \ T) \in Nat
         /\ SumSizes(h, S) = SumSizes(h, T) + SumSizes(h, S \ T)
<1>1. T \in SUBSET Cells /\ S \ T \in SUBSET Cells
  OBVIOUS
<1>2. PICK f \in [Nat -> Nat] : Sums(f, h, S)
  BY SumFunction
<1>3. PICK g \in [Nat -> Nat] : Sums(g, h, T)
  BY <1>1, SumFunction
<1>4. PICK r \in [Nat -> Nat] : Sums(r, h, S \ T)
  BY <1>1, SumFunction
<1> DEFINE P == {k \in Nat : f[k] = g[k] + r[k]}
<1>5. 0 \in P
  BY <1>2, <1>3, <1>4 DEF Sums
<1>6. ASSUME NEW k \in Nat, k \in P PROVE k + 1 \in P
  <2>1. /\ f[k] = g[k] + r[k] /\ f[k] \in Nat /\ g[k] \in Nat /\ r[k] \in Nat
        /\ f[k + 1] = f[k] + (IF k \in S THEN h.mem[k].size ELSE 0)
        /\ g[k + 1] = g[k] + (IF k \in T THEN h.mem[k].size ELSE 0)
        /\ r[k + 1] = r[k] + (IF k \in S \ T THEN h.mem[k].size ELSE 0)
    BY <1>2, <1>3, <1>4, <1>6 DEF Sums
  <2>2. k \in S => h.mem[k].size \in Nat
    BY HeapFields
  <2>3. CASE k \in T
    <3>1. k \in S /\ k \notin S \ T
      BY <2>3
    <3>2. f[k + 1] = f[k] + h.mem[k].size /\ g[k + 1] = g[k] + h.mem[k].size /\ r[k + 1] = r[k] + 0
      BY <2>1, <2>3, <3>1
    <3> QED
      BY <2>1, <2>2, <3>1, <3>2
  <2>4. CASE k \in S \ T
    <3>1. f[k + 1] = f[k] + h.mem[k].size /\ g[k + 1] = g[k] + 0 /\ r[k + 1] = r[k] + h.mem[k].size
      BY <2>1, <2>4
    <3> QED
      BY <2>1, <2>2, <2>4, <3>1
  <2>5. CASE k \notin S
    <3>1. f[k + 1] = f[k] + 0 /\ g[k + 1] = g[k] + 0 /\ r[k + 1] = r[k] + 0
      BY <2>1, <2>5
    <3> QED
      BY <2>1, <3>1
  <2> QED
    BY <2>3, <2>4, <2>5
<1>7. \A k \in Nat : k \in P
  <2> HIDE DEF P
  <2> QED
    BY <1>5, <1>6, Induct
<1>8. HeapCells \in Nat
  BY Geometry
<1>9. f[HeapCells] = g[HeapCells] + r[HeapCells]
  BY <1>7, <1>8
<1> QED
  BY <1>2, <1>3, <1>4, <1>8, <1>9 DEF Sums

\* Nothing to add up.
LEMMA SumEmpty ==
  ASSUME NEW h \in Heap
  PROVE  SumSizes(h, {}) = 0
<1>1. {} \in SUBSET Cells /\ {} \in SUBSET {} /\ {} \ {} = {}
  OBVIOUS
<1> DEFINE s == SumSizes(h, {})
<1>2. s \in Nat /\ s = s + s
  BY <1>1, SumSplit
<1> HIDE DEF s
<1>3. s = 0
  BY <1>2
<1> QED
  BY <1>3 DEF s

(***************************************************************************)
(* The blocks of a heap in order take all of it: below a block's header    *)
(* the sizes add up to its address.                                        *)
(***************************************************************************)
LEMMA SumTiled ==
  ASSUME NEW h \in Heap, Tiled(h)
  PROVE  SumSizes(h, h.blocks) = EndBlock
<1> DEFINE B == h.blocks
           sz == [b \in Cells |-> h.mem[b].size]
<1>1. B \in SUBSET Cells /\ sz \in [Cells -> Nat]
  BY HeapFields
<1>2. /\ HeapCells \in Nat /\ EndBlock \in Nat /\ 0 < EndBlock /\ EndBlock < HeapCells
      /\ \A b \in Cells : b \in Nat
  BY Geometry DEF Cells
<1>3. /\ 0 \in B /\ EndBlock \in B
      /\ sz[EndBlock] = 0
      /\ \A b \in B : b <= EndBlock
      /\ \A b \in B \ {EndBlock} : /\ sz[b] > 0
                                    /\ b + sz[b] \in B
                                    /\ \A c \in B : c <= b \/ b + sz[b] <= c
  <2>1. \A b \in B \ {EndBlock} : sz[b] > 0
    BY <1>1, Geometry DEF Tiled
  <2>2. 0 \in B /\ EndBlock \in B /\ sz[EndBlock] = 0
    BY <1>1 DEF Tiled
  <2>3. \A b \in B : b <= EndBlock
    BY <1>1, <1>2 DEF Tiled
  <2>4. \A b \in B \ {EndBlock} : b + sz[b] \in B /\ \A c \in B : c <= b \/ b + sz[b] <= c
    BY <1>1 DEF Tiled
  <2> QED
    BY <2>1, <2>2, <2>3, <2>4
<1>4. PICK f \in [Nat -> Nat] : Sums(f, h, B)
  BY <1>1, SumFunction
<1>5. f[0] = 0 /\ \A k \in Nat : f[k + 1] = f[k] + (IF k \in B THEN sz[k] ELSE 0)
  BY <1>1, <1>4 DEF Sums
<1>6. SumSizes(h, B) = f[HeapCells]
  BY <1>4 DEF Sums
<1> HIDE DEF B, sz
\* The last header below k is b, and the blocks up to it end where b does.
<1> DEFINE Below(k, b) == b < k /\ (\A c \in B : c <= b \/ k <= c) /\ f[k] = b + sz[b]
           P == {k \in Nat : 0 < k => \E b \in B : Below(k, b)}
<1>7. 0 \in P
  OBVIOUS
<1>8. ASSUME NEW k \in Nat, k \in P PROVE k + 1 \in P
  <2>1. CASE k = 0
    <3>1. f[1] = sz[0] /\ 0 \in B
      BY <1>1, <1>3, <1>5
    <3>2. Below(1, 0)
      BY <1>1, <1>2, <1>3, <3>1
    <3> QED
      BY <2>1, <3>1, <3>2
  <2>2. CASE k # 0 /\ k \notin B
    <3>1. PICK b \in B : Below(k, b)
      BY <1>8, <2>2
    <3>2. f[k + 1] = f[k]
      BY <1>5, <2>2
    <3>3. Below(k + 1, b)
      BY <1>1, <1>2, <2>2, <3>1, <3>2
    <3> HIDE DEF Below
    <3> QED
      BY <3>3
  <2>3. CASE k # 0 /\ k \in B
    <3>1. PICK b \in B : Below(k, b)
      BY <1>8, <2>3
    <3>2. b \in Nat /\ sz[b] \in Nat /\ sz[k] \in Nat /\ b # EndBlock
      BY <1>1, <1>2, <1>3, <2>3, <3>1
    <3>3. b + sz[b] \in B /\ b + sz[b] <= k /\ sz[b] > 0
      BY <1>3, <2>3, <3>1, <3>2
    <3>4. b + sz[b] = k
      BY <3>1, <3>2, <3>3
    <3>5. f[k + 1] = k + sz[k]
      BY <1>5, <2>3, <3>1, <3>4
    <3>6. Below(k + 1, k)
      BY <1>1, <1>2, <3>5
    <3> HIDE DEF Below
    <3> QED
      BY <2>3, <3>6
  <2> QED
    BY <2>1, <2>2, <2>3
<1>9. \A k \in Nat : k \in P
  <2> HIDE DEF P
  <2> QED
    BY <1>7, <1>8, Induct
<1>10. PICK b \in B : Below(HeapCells, b)
  BY <1>2, <1>9
<1>11. b = EndBlock
  BY <1>1, <1>2, <1>3, <1>10
<1> QED
  BY <1>2, <1>3, <1>6, <1>10, <1>11 DEF B

\* One round of the walk.
WalkStep(h, w) ==
  IF w.it = free_mem_list_head THEN w
  ELSE [it |-> h.lst.next[w.it], total |-> (w.total + h.mem[w.it].size) % SizeCells]

\* The walk stays on the list, and goes on round by round.
LEMMA WalkFunction ==
  ASSUME NEW h \in Heap, Listed(h)
  PROVE  LET walk == FreeWalk(h)
         IN  /\ walk[0] = [it |-> h.lst.next[free_mem_list_head], total |-> 0]
             /\ \A i \in Nat : /\ walk[i].it \in FreeBlocks(h) \cup {free_mem_list_head}
                               /\ walk[i].total \in Nat
                               /\ walk[i + 1] = WalkStep(h, walk[i])
<1> DEFINE S == FreeBlocks(h) \cup {free_mem_list_head}
           V == [it : S, total : Nat]
           a == [it |-> h.lst.next[free_mem_list_head], total |-> 0]
           Is(f) == f = [i \in Nat |-> IF i = 0 THEN a
                            ELSE LET w == f[i - 1]
                                 IN  IF w.it = free_mem_list_head THEN w
                                     ELSE [it    |-> h.lst.next[w.it],
                                           total |-> (w.total + h.mem[w.it].size) % SizeCells]]
           f == CHOOSE f : Is(f)
<1>1. /\ \A x \in S : h.lst.next[x] \in S
      /\ \A x \in S : x # free_mem_list_head => h.mem[x].size \in Nat
  <2>1. \A x \in S : x # free_mem_list_head => x \in Cells
    BY HeapFields DEF FreeBlocks
  <2> QED
    BY <2>1, HeapFields DEF Listed, WellLinked
<1>2. a \in V
  BY <1>1
<1>3. ASSUME NEW w \in V PROVE WalkStep(h, w) \in V
  <2>1. CASE w.it = free_mem_list_head
    BY <2>1 DEF WalkStep
  <2>2. CASE w.it # free_mem_list_head
    <3>1. w.it \in S /\ w.total \in Nat
      OBVIOUS
    <3>2. h.lst.next[w.it] \in S /\ h.mem[w.it].size \in Nat
      BY <1>1, <2>2, <3>1
    <3>3. SizeCells \in Nat /\ SizeCells > 0
      BY Geometry
    <3> DEFINE t == (w.total + h.mem[w.it].size) % SizeCells
    <3>4. t \in Nat
      BY <3>1, <3>2, <3>3
    <3>5. WalkStep(h, w) = [it |-> h.lst.next[w.it], total |-> t]
      BY <2>2 DEF WalkStep
    <3> HIDE DEF t, S
    <3> QED
      BY <3>2, <3>4, <3>5
  <2> QED
    BY <2>1, <2>2
<1>4. \E g : Is(g)
  <2> DEFINE D == [n \in Nat |-> [v \in V |-> WalkStep(h, v)]]
  <2>1. D \in [Nat -> [V -> V]]
    <3> HIDE DEF V
    <3> QED
      BY <1>3
  <2>2. PICK g \in [Nat -> V] : Follows(g, a, D)
    <3> HIDE DEF D, V, a
    <3> QED
      BY <1>2, <2>1, Recursion
  <2>3. ASSUME NEW i \in Nat
        PROVE  g[i] = IF i = 0 THEN a ELSE WalkStep(h, g[i - 1])
    <3> HIDE DEF V, a
    <3>1. CASE i = 0
      BY <2>2, <3>1 DEF Follows
    <3>2. CASE i # 0
      <4>1. i - 1 \in Nat /\ (i - 1) + 1 = i
        BY <3>2
      <4>2. g[i] = D[i - 1][g[i - 1]] /\ g[i - 1] \in V
        BY <2>2, <4>1 DEF Follows
      <4> QED
        BY <3>2, <4>1, <4>2
    <3> QED
      BY <3>1, <3>2
  <2>4. g = [i \in Nat |-> g[i]]
    OBVIOUS
  <2>5. Is(g)
    <3> HIDE DEF V, a, S
    <3> QED
      BY <2>3, <2>4 DEF WalkStep
  <2> QED
    BY <2>5
<1>5. Is(f)
  <2> HIDE DEF Is
  <2> QED
    BY <1>4
<1>6. FreeWalk(h) = f
  BY DEF FreeWalk
<1> HIDE DEF f
<1>7. f[0] = a
  BY <1>5
<1>8. ASSUME NEW i \in Nat PROVE f[i + 1] = WalkStep(h, f[i])
  <2>1. i + 1 \in Nat /\ i + 1 # 0 /\ (i + 1) - 1 = i
    OBVIOUS
  <2> HIDE DEF a
  <2> QED
    BY <1>5, <2>1, ZenonT(60) DEF WalkStep
<1> DEFINE P == {i \in Nat : f[i] \in V}
<1>9. \A i \in Nat : i \in P
  <2> HIDE DEF V, Is
  <2>1. 0 \in P
    BY <1>2, <1>7
  <2>2. \A i \in Nat : i \in P => i + 1 \in P
    BY <1>3, <1>8
  <2> HIDE DEF P
  <2> QED
    BY <2>1, <2>2, Induct
<1>10. \A i \in Nat : f[i].it \in S /\ f[i].total \in Nat
  <2> HIDE DEF S, Is
  <2> QED
    BY <1>9
<1> HIDE DEF Is, V
<1> QED
  BY <1>6, <1>7, <1>8, <1>10

(***************************************************************************)
(* The walk ends, back at the head, when it has seen every free block      *)
(* once.  Until then it is at a block it has not seen: V, the blocks seen, *)
(* holds the predecessor of each of them and of the iterator.              *)
(***************************************************************************)
LEMMA WalkExact ==
  ASSUME NEW h \in Heap, Tiled(h), Listed(h)
  PROVE  /\ FreeWalk(h)[HeapCells].it = free_mem_list_head
         /\ FreeWalk(h)[HeapCells].total = SumSizes(h, FreeBlocks(h))
<1> DEFINE head == free_mem_list_head
           F == FreeBlocks(h)
           S == F \cup {head}
           next == h.lst.next
           prev == h.lst.prev
           w == FreeWalk(h)
           Seen(i, V) ==
             /\ w[i].total = SumSizes(h, V)
             /\ \A x \in V \cup {head} : next[x] \in V \cup {w[i].it}
             /\ w[i].it # head =>
                  /\ w[i].it \notin V
                  /\ w[i].total >= i
                  /\ \A x \in V \cup {w[i].it} : prev[x] \in V \cup {head}
           P == {i \in Nat : \E V \in SUBSET F : Seen(i, V)}
<1>1. /\ F \in SUBSET Cells /\ head \notin F
      /\ \A x \in F : h.mem[x].size \in Nat /\ h.mem[x].size > 0
  <2>1. F \in SUBSET Cells /\ F \subseteq h.blocks \ {EndBlock}
    BY HeapFields DEF FreeBlocks, Tiled
  <2>2. \A x \in F : h.mem[x].size \in Nat /\ h.mem[x].size > HeadCells
    BY <2>1, HeapFields DEF Tiled
  <2>3. \A x \in F : h.mem[x].size \in Nat /\ h.mem[x].size > 0
    BY <2>2, Geometry
  <2> QED
    BY <2>1, <2>3 DEF Cells, free_mem_list_head
<1>2. /\ \A x \in S : next[x] \in S /\ prev[x] \in S /\ prev[next[x]] = x
      /\ \A T \in SUBSET S : T # {} /\ (\A x \in T : next[x] \in T) => T = S
  BY DEF Listed, WellLinked
<1>3. /\ w[0] = [it |-> next[head], total |-> 0]
      /\ \A i \in Nat : /\ w[i].it \in S
                        /\ w[i].total \in Nat
                        /\ w[i + 1] = WalkStep(h, w[i])
  BY WalkFunction
<1>4. /\ EndBlock \in Nat /\ HeapCells \in Nat /\ SizeCells \in Nat
      /\ EndBlock < HeapCells /\ EndBlock < SizeCells
  BY Geometry
<1>5. ASSUME NEW V \in SUBSET F PROVE SumSizes(h, V) \in Nat /\ SumSizes(h, V) <= EndBlock
  <2>1. h.blocks \in SUBSET Cells /\ V \in SUBSET h.blocks
    BY HeapFields DEF FreeBlocks
  <2>2. /\ SumSizes(h, h.blocks) = EndBlock /\ SumSizes(h, V) \in Nat
        /\ SumSizes(h, h.blocks \ V) \in Nat
        /\ SumSizes(h, h.blocks) = SumSizes(h, V) + SumSizes(h, h.blocks \ V)
    BY <2>1, SumTiled, SumSplit
  <2> QED
    BY <1>4, <2>2
<1> HIDE DEF head, F, next, prev, w
<1>6. 0 \in P
  <2>1. w[0].it = next[head] /\ w[0].total = 0 /\ SumSizes(h, {}) = 0
    BY <1>3, SumEmpty
  <2>2. Seen(0, {})
    BY <1>2, <2>1
  <2> QED
    BY <2>2
<1>7. ASSUME NEW i \in Nat, i \in P PROVE i + 1 \in P
  <2>1. PICK V \in SUBSET F : Seen(i, V)
    BY <1>7
  <2> DEFINE x == w[i].it
  <2>2. CASE x = head
    <3>1. w[i + 1] = w[i]
      BY <1>3, <2>2 DEF WalkStep, head
    <3>2. Seen(i + 1, V)
      BY <2>1, <2>2, <3>1
    <3> QED
      BY <3>2
  <2>3. CASE x # head
    <3> DEFINE U == V \cup {x}
    <3>1. x \in F /\ x \in Cells /\ x \notin V /\ U \in SUBSET F
      BY <1>1, <1>3, <2>1, <2>3
    <3>2. /\ SumSizes(h, U) = SumSizes(h, V) + h.mem[x].size
          /\ SumSizes(h, U) \in Nat /\ SumSizes(h, U) <= EndBlock
          /\ SumSizes(h, V) \in Nat /\ h.mem[x].size \in Nat /\ h.mem[x].size > 0
      <4>1. V \in SUBSET Cells
        BY <1>1
      <4>2. SumSizes(h, U) = SumSizes(h, V) + h.mem[x].size
        BY <3>1, <4>1, SumAdd
      <4>3. SumSizes(h, U) \in Nat /\ SumSizes(h, U) <= EndBlock /\ SumSizes(h, V) \in Nat
        <5> HIDE DEF U
        <5> QED
          BY <1>5, <3>1
      <4> QED
        BY <1>1, <3>1, <4>2, <4>3
    <3>3. w[i + 1] = [it |-> next[x], total |-> (w[i].total + h.mem[x].size) % SizeCells]
      BY <1>3, <2>3 DEF WalkStep, head, next
    <3>4. w[i + 1].it = next[x] /\ w[i + 1].total = SumSizes(h, U)
      <4>1. w[i].total + h.mem[x].size = SumSizes(h, U)
        BY <2>1, <3>2
      <4>2. SumSizes(h, U) % SizeCells = SumSizes(h, U)
        BY <1>4, <3>2
      <4> QED
        BY <3>3, <4>1, <4>2
    <3>5. SumSizes(h, U) >= i + 1
      <4>1. SumSizes(h, V) >= i
        BY <2>1, <2>3
      <4> QED
        BY <3>2, <4>1
    <3>6. \A y \in U \cup {head} : next[y] \in U \cup {next[x]}
      BY <2>1
    <3>7. next[x] # head => next[x] \notin U
      <4>1. prev[next[x]] = x
        BY <1>2, <3>1
      <4>2. \A y \in U : prev[y] \in V \cup {head}
        BY <2>1, <2>3
      <4> QED
        BY <2>3, <3>1, <4>1, <4>2
    <3>8. \A y \in U \cup {next[x]} : prev[y] \in U \cup {head}
      BY <1>2, <2>1, <2>3, <3>1
    <3>9. Seen(i + 1, U)
      <4> HIDE DEF U, x
      <4> QED
        BY <3>4, <3>5, <3>6, <3>7, <3>8
    <3> HIDE DEF Seen, U
    <3> QED
      BY <3>1, <3>9
  <2> QED
    BY <2>2, <2>3
<1>8. \A i \in Nat : i \in P
  <2> HIDE DEF P
  <2> QED
    BY <1>6, <1>7, Induct
<1>9. PICK V \in SUBSET F : Seen(HeapCells, V)
  BY <1>4, <1>8
<1>10. w[HeapCells].it = head
  BY <1>4, <1>5, <1>9
<1>11. V \cup {head} = S
  BY <1>2, <1>9, <1>10
<1>12. V = F
  BY <1>1, <1>11
<1> QED
  BY <1>9, <1>10, <1>12 DEF w, head, F

\* What the walk counts and what is in use make up the heap.
LEMMA FreeMemoryCounts ==
  ASSUME NEW h \in Heap, Tiled(h), Listed(h)
  PROVE  /\ FreeWalk(h)[HeapCells].it = free_mem_list_head
         /\ simple_mm_get_free_memory(h) + SumSizes(h, h.blocks \ FreeBlocks(h)) = EndBlock
<1>1. h.blocks \in SUBSET Cells /\ FreeBlocks(h) \in SUBSET h.blocks
  BY HeapFields DEF FreeBlocks
<1>2. SumSizes(h, h.blocks) = SumSizes(h, FreeBlocks(h)) + SumSizes(h, h.blocks \ FreeBlocks(h))
  BY <1>1, SumSplit
<1> QED
  BY <1>2, SumTiled, WalkExact DEF simple_mm_get_free_memory
=============================================================================
