--------------------------- MODULE SimpleMMProofs ---------------------------
(***************************************************************************)
(* The kernel heap is safe for every heap size, header size, set of        *)
(* request sizes and stored data, as long as its client is well behaved:   *)
(* sizes do not wrap, and krealloc is not asked for a size in the gap      *)
(* between payload and block.  The client may free NULL, or free a pointer *)
(* twice with no allocation in between (BadFrees): the machine then halts. *)
(***************************************************************************)
EXTENDS SimpleMMHeapProofs

WellBehaved == NoWrap /\ ~GapRealloc

\* The inductive invariant, before the machine has halted.
SInv == IInv /\ NeverPanics

\* The block behind a pointer that is held.
LEMMA HeldBlock ==
  ASSUME heap \in Heap, HeapOK(heap), Held, TypeOK, NEW p \in Holders
  PROVE  LET b == p - HeadCells
         IN  /\ b \in UsedBlocks(heap)
             /\ b \in heap.blocks
             /\ b \in Nat /\ p \in Nat /\ b + HeadCells = p
             /\ p \in Cells
             /\ heap.mem[b].size \in Nat
             /\ heap.mem[b].size > HeadCells
             /\ p + heap.mem[b].size <= HeapCells
<1> DEFINE b == p - HeadCells
<1>1. b \in UsedBlocks(heap) /\ b \in heap.blocks \ {EndBlock} /\ Tiled(heap)
  BY DEF Held, UsedBlocks, HeapOK
<1>2. /\ b \in Nat /\ heap.mem[b].size \in Nat /\ heap.mem[b].size > HeadCells
      /\ b + heap.mem[b].size <= EndBlock
  BY <1>1, BlockBounds
<1>3. p \in Int
  BY Geometry DEF TypeOK, Calls, Holders, Cells, NULL
<1> QED
  BY <1>1, <1>2, <1>3, Geometry DEF Cells

\* The pointer to a block in use, seen from the block.
LEMMA BlockPointer ==
  ASSUME NEW h \in Heap, HeapOK(h), NEW b \in h.blocks \ {EndBlock}
  PROVE  /\ b \in Nat /\ b + HeadCells \in Cells
         /\ b + HeadCells # NULL
         /\ (b + HeadCells) - HeadCells = b
         /\ h.mem[b].size \in Nat /\ h.mem[b].size > HeadCells
<1>1. /\ b \in Nat /\ h.mem[b].size \in Nat /\ h.mem[b].size > HeadCells
      /\ b + h.mem[b].size <= EndBlock
  BY BlockBounds DEF HeapOK
<1> QED
  BY <1>1, Geometry DEF Cells, NULL

\* What a step that ends in the client has to show.
LEMMA BackInClient ==
  ASSUME heap' \in Heap, HeapOK(heap'), pc' = "idle", call' \in Calls,
         live' \subseteq Cells, req' \in [Cells -> Nat],
         stale' \subseteq Cells \cup {NULL},
         \A p \in live' : /\ p - HeadCells \in UsedBlocks(heap')
                          /\ req'[p] <= CELL * Payload(heap', p),
         \A b \in UsedBlocks(heap') : b + HeadCells \in live',
         \A c \in Cells \ live' : req'[c] = 0,
         \A p \in stale' : FreeInside(heap', p - HeadCells)
  PROVE  SInv'
<1>1. TypeOK'
  BY DEF TypeOK
<1>2. Held'
  BY DEF Held, Holders
<1>3. CapacityHonoured' /\ CallOK' /\ NeverPanics'
  BY DEF CapacityHonoured, CallOK, NeverPanics
<1>4. Unpromised' /\ StaleFree'
  BY DEF Unpromised, StaleFree
<1> QED
  BY <1>1, <1>2, <1>3, <1>4 DEF SInv, IInv

\* What is known between two steps of a call, or in the client.
LEMMA Running ==
  ASSUME SInv, pc # "boot"
  PROVE  /\ TypeOK /\ heap \in Heap /\ HeapOK(heap) /\ Held
         /\ live \subseteq Cells /\ req \in [Cells -> Nat] /\ call \in Calls
         /\ stale \subseteq Cells \cup {NULL}
         /\ live \subseteq Holders
         /\ \A p \in live : req[p] <= CELL * Payload(heap, p)
         /\ pc \in {"idle", "scan", "copy"}
         /\ Unpromised /\ \A c \in Cells \ live : req[c] = 0
         /\ StaleFree /\ \A p \in stale : FreeInside(heap, p - HeadCells)
BY DEF SInv, IInv, TypeOK, NeverPanics, Holders, CapacityHonoured, Unpromised, StaleFree

\* The client that is not in a call.
LEMMA NoCallType == NoCall \in Calls
BY DEF NoCall, Calls

-----------------------------------------------------------------------------
(* simple_init and the client's calls *)

\* simple_init sets the heap up.
LEMMA BootStep ==
  ASSUME SInv, Boot
  PROVE  SInv'
<1>1. /\ heap \in Heap /\ live = {} /\ req \in [Cells -> Nat] /\ call \in Calls
      /\ stale \subseteq Cells \cup {NULL}
      /\ heap' = simple_init(heap) /\ pc' = "idle"
      /\ call' = call /\ live' = live /\ req' = req /\ stale' = stale
      /\ stale = {} /\ \A c \in Cells \ live : req[c] = 0
  BY DEF Boot, SInv, IInv, TypeOK, Unpromised
<1>2. heap' \in Heap /\ HeapOK(heap') /\ UsedBlocks(heap') = {}
  BY <1>1, InitOK
<1> QED
  BY <1>1, <1>2, BackInClient

\* align_requested_size neither wraps nor falls short.
LEMMA AlignOK ==
  ASSUME NEW n \in Nat, n + CELL * (HeadCells + 1) <= SizeMod
  PROVE  LET w == align_requested_size(n)
         IN  /\ w \in Nat /\ w >= 1
             /\ w + HeadCells < SizeCells
             /\ n <= CELL * w
<1>1. /\ SizeMod \in Nat /\ HeadCells \in Nat /\ SizeMod = CELL * SizeCells /\ SizeCells \in Nat
      /\ 2 * HeadCells + 1 < SizeCells
  BY HeadAssumption, HeapAssumption DEF SizeCells, CELL
<1>2. CASE n < CELL
  <2>1. align_requested_size(n) = 1
    BY <1>2 DEF align_requested_size
  <2> QED
    BY <1>1, <1>2, <2>1, HeadAssumption DEF CELL
<1>3. CASE n >= CELL
  <2> DEFINE w == CellsOf(n)
  <2>1. w \in Nat /\ w >= 1 /\ n <= 8 * w /\ 8 * w <= n + 7
    BY <1>3 DEF CellsOf, CELL
  <2> HIDE DEF w
  <2>2. n + 8 * HeadCells + 8 <= 8 * SizeCells
    BY <1>1 DEF CELL
  <2>3. w + HeadCells < SizeCells
    BY <1>1, <2>1, <2>2
  <2>4. w % SizeCells = w
    BY <1>1, <2>1, <2>3, ModSmall
  <2>5. align_requested_size(n) = w
    BY <1>3, <2>4 DEF align_requested_size, w, CELL
  <2> QED
    BY <2>1, <2>3, <2>5 DEF CELL
<1> QED
  BY <1>2, <1>3 DEF CELL

\* Entering simple_malloc: the scan starts at a free block or at the head.
LEMMA EnterStep ==
  ASSUME SInv, pc = "idle", NEW fn \in {"malloc", "calloc", "realloc"},
         NEW n \in Nat, n + CELL * (HeadCells + 1) <= SizeMod,
         NEW src \in Cells \cup {NULL},
         src # NULL => /\ src \in live
                       /\ CELL * heap.mem[src - HeadCells].size < n
                       /\ fn # "calloc",
         EnterMalloc(fn, n, n, src)
  PROVE  SInv'
<1> DEFINE w  == align_requested_size(n)
           it == heap.lst.next[free_mem_list_head]
<1>1. /\ TypeOK /\ heap \in Heap /\ HeapOK(heap) /\ Held /\ CapacityHonoured
      /\ Unpromised /\ \A p \in stale : FreeInside(heap, p - HeadCells)
  BY Running DEF SInv, IInv
<1>2. /\ call' = [fn |-> fn, need |-> n, want |-> w, it |-> it, src |-> src, dst |-> NULL]
      /\ pc' = "scan" /\ heap' = heap /\ live' = live /\ req' = req /\ stale' = stale
  BY DEF EnterMalloc
<1>3. w \in Nat /\ w >= 1 /\ w + HeadCells < SizeCells /\ n <= CELL * w
  BY AlignOK
<1>4. it \in FreeBlocks(heap) \cup {free_mem_list_head} /\ it \in Nodes
  BY <1>1, FreeListNodes DEF HeapOK, Listed, WellLinked
<1> HIDE DEF w, it
<1>5. TypeOK'
  <2>1. call' \in Calls
    BY <1>2, <1>3, <1>4 DEF Calls
  <2> QED
    BY <1>1, <1>2, <2>1 DEF TypeOK
<1>6. CallOK'
  <2>1. GoodWant'
    BY <1>2, <1>3 DEF GoodWant
  <2>2. src # NULL => GoodSrc'
    BY <1>2 DEF GoodSrc
  <2>3. (call.it \in FreeBlocks(heap) \cup {free_mem_list_head})'
    BY <1>2, <1>4
  <2>4. call'.src = src /\ call'.fn = fn /\ pc' = "scan"
    BY <1>2
  <2> QED
    BY <2>1, <2>2, <2>3, <2>4 DEF CallOK
<1>7. Held'
  BY <1>1, <1>2 DEF Held, Holders
<1>8. CapacityHonoured'
  BY <1>1, <1>2 DEF CapacityHonoured
<1>9. Unpromised' /\ StaleFree'
  BY <1>1, <1>2 DEF Unpromised, StaleFree
<1> QED
  BY <1>1, <1>2, <1>5, <1>6, <1>7, <1>8, <1>9 DEF SInv, IInv, NeverPanics

\* The call of kmalloc.
LEMMA MallocStep ==
  ASSUME WellBehaved, SInv, NEW n \in Requests, kmalloc(n)
  PROVE  SInv'
<1>1. n \in Nat /\ n + CELL * (HeadCells + 1) <= SizeMod
  BY ClientAssumption, HeapAssumption DEF WellBehaved, NoWrap
<1> QED
  BY <1>1, EnterStep DEF kmalloc

\* Nothing happens.
LEMMA StutterStep ==
  ASSUME SInv, UNCHANGED vars
  PROVE  SInv'
BY DEF SInv, IInv, TypeOK, Held, Holders, CapacityHonoured, CallOK, GoodWant, GoodSrc,
       NeverPanics, CopyLen, Unpromised, StaleFree, vars

\* The call of kcalloc.
LEMMA CallocStep ==
  ASSUME WellBehaved, SInv, NEW k \in Counts, NEW n \in Requests, kcalloc(k, n)
  PROVE  SInv'
<1>1. CASE Overflows(k, n)
  BY <1>1, StutterStep DEF kcalloc
<1>2. CASE ~Overflows(k, n)
  <2> DEFINE kn == k * n
  <2>1. k \in Nat /\ n \in Nat /\ SizeMod \in Nat /\ CELL * (HeadCells + 1) \in Nat
    BY ClientAssumption, HeapAssumption, HeadAssumption DEF CELL
  <2>2. CELL * (HeadCells + 1) > 0
    BY HeadAssumption DEF CELL
  <2>3. kn \in Nat /\ kn + CELL * (HeadCells + 1) <= SizeMod
    BY <1>2, <2>1 DEF WellBehaved, NoWrap
  <2>4. pc = "idle" /\ EnterMalloc("calloc", kn, kn % SizeMod, NULL)
    BY <1>2 DEF kcalloc
  <2> HIDE DEF kn
  <2>5. kn % SizeMod = kn
    BY <2>1, <2>2, <2>3, ModSmall
  <2> QED
    BY <2>3, <2>4, <2>5, EnterStep
<1> QED
  BY <1>1, <1>2

\* kfree, or krealloc to size 0, of a held pointer: no panic, one block less.
LEMMA FreeStep ==
  ASSUME SInv, pc = "idle", NEW p \in live, FreePtr(p)
  PROVE  SInv'
<1> DEFINE b == p - HeadCells
           r == simple_free(heap, p)
<1>1. /\ TypeOK /\ heap \in Heap /\ HeapOK(heap) /\ Held /\ Holders = live
      /\ live \subseteq Cells /\ req \in [Cells -> Nat]
      /\ \A q \in live : req[q] <= CELL * Payload(heap, q)
      /\ stale \subseteq Cells \cup {NULL}
      /\ \A c \in Cells \ live : req[c] = 0
      /\ \A q \in stale : FreeInside(heap, q - HeadCells)
  BY Running DEF Holders
<1>2. b \in UsedBlocks(heap) /\ b + HeadCells = p
  BY <1>1, HeldBlock
<1>3. /\ r.panic = FALSE /\ r.heap \in Heap /\ HeapOK(r.heap)
      /\ UsedBlocks(r.heap) = UsedBlocks(heap) \ {b}
      /\ \A c \in UsedBlocks(heap) \ {b} : r.heap.mem[c].size = heap.mem[c].size
      /\ \A c : FreeInside(heap, c) \/ c = b => FreeInside(r.heap, c)
  <2>1. r = simple_free(heap, b + HeadCells)
    BY <1>2
  <2> HIDE DEF b, r
  <2>2. \A c : FreeInside(heap, c) \/ c = b => FreeInside(simple_free(heap, b + HeadCells).heap, c)
    BY <1>1, <1>2, FreeKeepsInside
  <2>3. \A c : FreeInside(heap, c) \/ c = b => FreeInside(r.heap, c)
    BY <2>1, <2>2
  <2> QED
    BY <1>1, <1>2, <2>1, <2>3, FreeOK, ZenonT(60)
<1>4. /\ heap' = r.heap /\ live' = live \ {p}
      /\ req' = [c \in Cells |-> IF c = p THEN 0 ELSE req[c]]
      /\ stale' \subseteq stale \cup {p} /\ pc' = "idle" /\ call' = NoCall
  <2>1. ~r.panic
    BY <1>3
  <2> HIDE DEF r
  <2> QED
    BY <2>1 DEF FreePtr, Freed, Return, r
<1> HIDE DEF r, b
<1>5. req' \in [Cells -> Nat]
  BY <1>1, <1>4
<1>6. ASSUME NEW q \in live'
      PROVE  /\ q - HeadCells \in UsedBlocks(heap')
             /\ req'[q] <= CELL * Payload(heap', q)
  <2>1. q \in live /\ q # p /\ q \in Cells
    BY <1>1, <1>4, <1>6
  <2>2. /\ q - HeadCells \in UsedBlocks(heap)
        /\ q - HeadCells # b
    <3>1. q - HeadCells \in UsedBlocks(heap) /\ (q - HeadCells) + HeadCells = q
      BY <1>1, <2>1, HeldBlock
    <3> QED
      BY <1>2, <2>1, <3>1
  <2>3. q - HeadCells \in UsedBlocks(heap')
    BY <1>3, <1>4, <2>2
  <2>4. Payload(heap', q) = Payload(heap, q)
    BY <1>3, <1>4, <2>2 DEF Payload
  <2>5. req'[q] = req[q]
    BY <1>4, <2>1
  <2> QED
    BY <1>1, <2>1, <2>3, <2>4, <2>5
<1>7. ASSUME NEW c \in UsedBlocks(heap')
      PROVE  c + HeadCells \in live'
  <2>1. c \in UsedBlocks(heap) /\ c # b
    BY <1>3, <1>4, <1>7
  <2>2. c + HeadCells \in live
    BY <1>1, <2>1 DEF Held
  <2>3. c \in Nat /\ b \in Nat
    BY <1>1, <1>2, <2>1, BlockPointer DEF UsedBlocks
  <2>4. c + HeadCells # p
    BY <1>2, <2>1, <2>3, Geometry
  <2> QED
    BY <1>4, <2>2, <2>4
<1>8. \A c \in Cells \ live' : req'[c] = 0
  BY <1>1, <1>4
<1>9. ASSUME NEW q \in stale'
      PROVE  FreeInside(heap', q - HeadCells) /\ q \in Cells \cup {NULL}
  <2>1. CASE q = p
    BY <1>1, <1>3, <1>4, <2>1 DEF b
  <2>2. CASE q # p
    BY <1>1, <1>3, <1>4, <1>9, <2>2
  <2> QED
    BY <2>1, <2>2
<1> QED
  BY <1>1, <1>3, <1>4, <1>5, <1>6, <1>7, <1>8, <1>9, NoCallType, BackInClient

\* The call of krealloc, the cases that return at once included.
LEMMA ReallocStep ==
  ASSUME WellBehaved, SInv, NEW p \in live \cup {NULL}, NEW n \in Resizes, krealloc(p, n)
  PROVE  SInv'
<1> DEFINE s == heap.mem[p - HeadCells].size
<1>1. n \in Nat /\ n + CELL * (HeadCells + 1) <= SizeMod /\ pc = "idle"
  BY ClientAssumption, HeapAssumption DEF WellBehaved, NoWrap, krealloc
<1>2. /\ TypeOK /\ heap \in Heap /\ HeapOK(heap) /\ Held /\ live \subseteq Holders
      /\ Holders = live /\ live \subseteq Cells /\ req \in [Cells -> Nat] /\ call \in Calls
      /\ \A q \in live : req[q] <= CELL * Payload(heap, q)
      /\ stale \subseteq Cells \cup {NULL}
      /\ \A c \in Cells \ live : req[c] = 0
      /\ \A q \in stale : FreeInside(heap, q - HeadCells)
  BY <1>1, Running DEF Holders
<1>3. CASE p = NULL
  BY <1>1, <1>3, EnterStep DEF krealloc
<1>4. CASE p # NULL
  <2>1. p \in live /\ ~InGap(p, n)
    BY <1>4 DEF krealloc, WellBehaved
  <2>2. s \in Nat /\ s > HeadCells /\ p \in Cells
    BY <1>2, <2>1, HeldBlock
  <2>3. CASE n = 0
    BY <1>1, <1>4, <2>1, <2>3, FreeStep DEF krealloc
  <2>4. CASE n # 0 /\ heap.mem[p - HeadCells].magic # 1
    BY <1>4, <2>4, StutterStep DEF krealloc
  <2>5. CASE n # 0 /\ heap.mem[p - HeadCells].magic = 1 /\ n <= CELL * s
    <3>1. /\ req' = [req EXCEPT ![p] = n]
          /\ heap' = heap /\ pc' = "idle" /\ call' = call /\ live' = live /\ stale' = stale
      BY <1>1, <1>4, <2>5 DEF krealloc
    <3>2. n <= CELL * Payload(heap, p)
      <4>1. ~(CELL * (s - HeadCells) < n)
        BY <2>1, <2>5 DEF InGap
      <4> HIDE DEF s
      <4>2. n <= CELL * (s - HeadCells)
        BY <1>1, <2>2, <4>1, Geometry DEF CELL
      <4> QED
        BY <4>2 DEF Payload, s
    <3>3. req' \in [Cells -> Nat]
      BY <1>1, <1>2, <3>1
    <3>4. ASSUME NEW q \in live'
          PROVE  /\ q - HeadCells \in UsedBlocks(heap')
                 /\ req'[q] <= CELL * Payload(heap', q)
      <4>1. q \in live /\ q \in Cells /\ q - HeadCells \in UsedBlocks(heap)
        BY <1>2, <3>1, <3>4, HeldBlock
      <4>2. req'[q] = IF q = p THEN n ELSE req[q]
        BY <1>2, <3>1, <4>1
      <4> QED
        BY <1>2, <3>1, <3>2, <4>1, <4>2
    <3>5. \A c \in UsedBlocks(heap') : c + HeadCells \in live'
      BY <1>2, <3>1 DEF Held
    <3>6. heap' \in Heap /\ HeapOK(heap') /\ call' \in Calls /\ live' \subseteq Cells
          /\ stale' \subseteq Cells \cup {NULL} /\ pc' = "idle"
          /\ \A q \in stale' : FreeInside(heap', q - HeadCells)
      BY <1>2, <3>1
    <3>7. \A c \in Cells \ live' : req'[c] = 0
      BY <1>2, <2>1, <3>1
    <3> HIDE DEF s
    <3> QED
      BY <3>3, <3>4, <3>5, <3>6, <3>7, BackInClient
  <2>6. CASE n # 0 /\ heap.mem[p - HeadCells].magic = 1 /\ ~(n <= CELL * s)
    <3>1. EnterMalloc("realloc", n, n, p)
      BY <1>4, <2>6 DEF krealloc
    <3>2. CELL * s < n
      <4> HIDE DEF s
      <4> QED
        BY <1>1, <2>2, <2>6 DEF CELL
    <3> QED
      BY <1>1, <2>1, <2>2, <3>1, <3>2, EnterStep
  <2> QED
    BY <2>3, <2>4, <2>5, <2>6
<1> QED
  BY <1>3, <1>4

\* The client's stores stay inside what it was promised, hence in a payload.
LEMMA WriteStep ==
  ASSUME SInv, NEW p \in live, NEW d \in Data, ClientWrite(p, d)
  PROVE  SInv'
<1> DEFINE b == p - HeadCells
           n == CellsOf(req[p])
<1>1. /\ TypeOK /\ heap \in Heap /\ HeapOK(heap) /\ Held /\ live \subseteq Holders
      /\ Holders = live /\ live \subseteq Cells /\ req \in [Cells -> Nat] /\ call \in Calls
      /\ \A q \in live : req[q] <= CELL * Payload(heap, q)
      /\ stale \subseteq Cells \cup {NULL}
      /\ \A c \in Cells \ live : req[c] = 0
      /\ \A q \in stale : FreeInside(heap, q - HeadCells)
  BY Running DEF Holders, ClientWrite
<1>2. /\ heap' = Fill(heap, Span(p, n), d) /\ pc' = "idle"
      /\ call' = call /\ live' = live /\ req' = req /\ stale' = stale
  BY DEF ClientWrite
<1>3. /\ b \in UsedBlocks(heap) /\ b + HeadCells = p
      /\ heap.mem[b].size \in Nat /\ heap.mem[b].size > HeadCells /\ p \in Cells
  BY <1>1, HeldBlock
<1>4. n \in Nat /\ n <= heap.mem[b].size - HeadCells
  <2>1. req[p] \in Nat /\ req[p] <= 8 * (heap.mem[b].size - HeadCells)
    BY <1>1, <1>3 DEF Payload, CELL
  <2> DEFINE r == req[p]
             s == heap.mem[b].size - HeadCells
  <2>2. s \in Nat
    BY <1>3, Geometry
  <2> HIDE DEF r, s
  <2>3. (r + 8 - 1) \div 8 \in Nat /\ (r + 8 - 1) \div 8 <= s
    BY <2>1, <2>2 DEF r, s
  <2> QED
    BY <2>3 DEF CellsOf, CELL, r, s
<1>5. StoredIn(heap, heap', b)
  <2>1. d \in Cell
    BY DataAssumption
  <2> HIDE DEF b, n
  <2>2. StoredIn(heap, Fill(heap, Span(b + HeadCells, n), d), b)
    BY <1>1, <1>3, <1>4, <2>1, FillOK
  <2> QED
    BY <1>2, <1>3, <2>2
<1> HIDE DEF n, b
<1>6. /\ HeapOK(heap') /\ UsedBlocks(heap') = UsedBlocks(heap)
      /\ \A c \in heap.blocks : heap'.mem[c] = heap.mem[c]
      /\ heap' \in Heap
      /\ \A q \in stale' : FreeInside(heap', q - HeadCells)
  BY <1>1, <1>2, <1>3, <1>5, StoredInOK, StoreKeepsInside DEF StoredIn
<1>7. ASSUME NEW q \in live'
      PROVE  /\ q - HeadCells \in UsedBlocks(heap')
             /\ req'[q] <= CELL * Payload(heap', q)
  <2>1. q \in live /\ q - HeadCells \in UsedBlocks(heap) /\ q - HeadCells \in heap.blocks
    BY <1>1, <1>2, <1>7, HeldBlock
  <2>2. Payload(heap', q) = Payload(heap, q)
    BY <1>6, <2>1 DEF Payload
  <2> QED
    BY <1>1, <1>2, <1>6, <2>1, <2>2
<1>8. \A c \in UsedBlocks(heap') : c + HeadCells \in live'
  BY <1>1, <1>2, <1>6 DEF Held
<1> QED
  BY <1>1, <1>2, <1>6, <1>7, <1>8, BackInClient

-----------------------------------------------------------------------------
(* The steps of a call in progress *)

\* No block fits: the call returns NULL and has changed nothing.
LEMMA ScanFailStep ==
  ASSUME SInv, ScanFail
  PROVE  SInv'
<1>1. /\ TypeOK /\ heap \in Heap /\ HeapOK(heap) /\ Held /\ Holders = live
      /\ live \subseteq Cells /\ req \in [Cells -> Nat]
      /\ \A q \in live : req[q] <= CELL * Payload(heap, q)
      /\ stale \subseteq Cells \cup {NULL}
      /\ \A c \in Cells \ live : req[c] = 0
      /\ \A q \in stale : FreeInside(heap, q - HeadCells)
  BY Running DEF Holders, ScanFail
<1>2. /\ heap' = heap /\ live' = live /\ req' = req /\ stale' = stale
      /\ pc' = "idle" /\ call' = NoCall
  BY DEF ScanFail, Return
<1> QED
  BY <1>1, <1>2, NoCallType, BackInClient DEF Held

\* The scan moves on: the next node is a free block or the head.
LEMMA ScanNextStep ==
  ASSUME SInv, ScanNext
  PROVE  SInv'
<1>1. /\ TypeOK /\ heap \in Heap /\ HeapOK(heap) /\ Held /\ CapacityHonoured /\ CallOK
      /\ call \in Calls /\ pc = "scan"
      /\ Unpromised /\ \A p \in stale : FreeInside(heap, p - HeadCells)
  BY Running DEF SInv, IInv, ScanNext
<1> DEFINE S  == FreeBlocks(heap) \cup {free_mem_list_head}
           it == heap.lst.next[call.it]
<1>2. call.it \in S /\ GoodWant /\ (call.src # NULL => GoodSrc) /\ (call.fn = "calloc" => call.src = NULL)
  BY <1>1 DEF CallOK
<1>3. it \in S /\ it \in Nodes
  BY <1>1, <1>2, FreeListNodes DEF HeapOK, Listed, WellLinked
<1>4. /\ call' = [call EXCEPT !.it = it]
      /\ heap' = heap /\ pc' = pc /\ live' = live /\ req' = req /\ stale' = stale
  BY DEF ScanNext
<1> HIDE DEF it
<1>5. /\ call' \in Calls /\ call'.it = it /\ call'.fn = call.fn /\ call'.need = call.need
      /\ call'.want = call.want /\ call'.src = call.src /\ call'.dst = call.dst
  BY <1>1, <1>3, <1>4 DEF Calls
<1>6. TypeOK'
  BY <1>1, <1>4, <1>5 DEF TypeOK
<1>7. CallOK'
  <2>1. GoodWant'
    BY <1>2, <1>5 DEF GoodWant
  <2>2. call'.src # NULL => GoodSrc'
    BY <1>2, <1>4, <1>5 DEF GoodSrc
  <2>3. pc' = "scan" /\ (call.it \in FreeBlocks(heap) \cup {free_mem_list_head})'
    BY <1>1, <1>3, <1>4, <1>5
  <2> QED
    BY <1>2, <1>5, <2>1, <2>2, <2>3 DEF CallOK
<1>8. Held' /\ CapacityHonoured' /\ Unpromised' /\ StaleFree'
  BY <1>1, <1>4 DEF Held, Holders, CapacityHonoured, Unpromised, StaleFree
<1> QED
  BY <1>1, <1>4, <1>6, <1>7, <1>8 DEF SInv, IInv, NeverPanics

\* The block a call takes, cleared or not: one block more is in use.
LEMMA Taken ==
  ASSUME SInv, ScanTake
  PROVE  LET b == call.it
             p == b + HeadCells
         IN  /\ TakenPtr(heap, b, call.want) = p
             /\ b \in FreeBlocks(heap)
             /\ heap' \in Heap
             /\ HeapOK(heap')
             /\ UsedBlocks(heap') = UsedBlocks(heap) \cup {b}
             /\ b \in heap'.blocks \ {EndBlock}
             /\ call.need <= CELL * (heap'.mem[b].size - HeadCells)
             /\ \A c \in UsedBlocks(heap) : heap'.mem[c].size = heap.mem[c].size
<1> DEFINE b == call.it
           p == b + HeadCells
           w == call.want
           g == TakenHeap(heap, b, w)
           n == CellsOf(call.need)
<1>1. /\ heap \in Heap /\ HeapOK(heap) /\ call \in Calls /\ pc = "scan"
  BY Running DEF ScanTake
<1>2. /\ b \in FreeBlocks(heap) /\ Fits(heap, b, w)
      /\ w >= 1 /\ w + HeadCells < SizeCells /\ call.need <= CELL * w
  BY <1>1 DEF ScanTake, SInv, IInv, CallOK, GoodWant
<1>3. w \in Nat /\ call.need \in Nat
  BY <1>1 DEF Calls
<1> HIDE DEF b, w
<1>4. /\ g \in Heap /\ HeapOK(g)
      /\ TakenPtr(heap, b, w) = p
      /\ UsedBlocks(g) = UsedBlocks(heap) \cup {b}
      /\ g.mem[b].size >= w + HeadCells
      /\ \A c \in UsedBlocks(heap) : g.mem[c].size = heap.mem[c].size
  <2>1. Takes(heap, b, w)
    BY <1>1, <1>2, <1>3 DEF Takes
  <2> QED
    BY <2>1, TakenOK
<1>5. /\ b \in UsedBlocks(g) /\ b \in g.blocks \ {EndBlock}
      /\ b \in Nat /\ g.mem[b].size \in Nat /\ p # NULL
      /\ UsedBlocks(heap) \subseteq UsedBlocks(g) /\ UsedBlocks(g) \subseteq g.blocks
  <2>1. b \in UsedBlocks(g) /\ b \in g.blocks \ {EndBlock}
    BY <1>4 DEF UsedBlocks
  <2>2. UsedBlocks(heap) \subseteq UsedBlocks(g) /\ UsedBlocks(g) \subseteq g.blocks
    BY <1>4 DEF UsedBlocks
  <2> HIDE DEF g
  <2> QED
    BY <1>4, <2>1, <2>2, BlockPointer
<1>6. heap' = IF call.fn = "calloc" /\ p # NULL THEN Fill(g, Span(p, n), Zero) ELSE g
  BY <1>4 DEF ScanTake, b, w
<1> HIDE DEF g
<1>7. n \in Nat /\ n <= g.mem[b].size - HeadCells
      /\ call.need <= CELL * (g.mem[b].size - HeadCells)
  <2>1. n \in Nat /\ n <= w
    BY <1>2, <1>3 DEF CellsOf, CELL
  <2> HIDE DEF n
  <2> QED
    BY <1>2, <1>3, <1>4, <1>5, <2>1, Geometry DEF CELL
<1> HIDE DEF n
<1>8. CASE call.fn # "calloc"
  <2>1. heap' = g
    BY <1>6, <1>8
  <2> QED
    BY <1>2, <1>4, <1>5, <1>7, <2>1 DEF b, w
<1>9. CASE call.fn = "calloc"
  <2>1. heap' = Fill(g, Span(p, n), Zero)
    BY <1>5, <1>6, <1>9
  <2>2. Zero \in Cell
    BY DEF Zero, Cell, Bit
  <2>3. StoredIn(g, heap', b)
    BY <1>4, <1>5, <1>7, <2>1, <2>2, FillOK
  <2>4. /\ HeapOK(heap') /\ heap' \in Heap
        /\ UsedBlocks(heap') = UsedBlocks(g)
        /\ heap'.blocks = g.blocks
        /\ \A c \in g.blocks : heap'.mem[c] = g.mem[c]
    BY <1>4, <1>5, <2>3, StoredInOK DEF StoredIn
  <2>5. heap'.mem[b] = g.mem[b]
    BY <1>5, <2>4
  <2>6. \A c \in UsedBlocks(heap) : heap'.mem[c].size = heap.mem[c].size
    BY <1>4, <1>5, <2>4
  <2> QED
    BY <1>2, <1>4, <1>5, <1>7, <2>4, <2>5, <2>6 DEF b, w
<1> QED
  BY <1>8, <1>9

\* malloc and calloc return the block; realloc goes on to the copy.
LEMMA ScanTakeStep ==
  ASSUME SInv, ScanTake
  PROVE  SInv'
<1> DEFINE b == call.it
           p == b + HeadCells
<1>1. /\ TypeOK /\ heap \in Heap /\ HeapOK(heap) /\ Held /\ Holders = live
      /\ live \subseteq Cells /\ req \in [Cells -> Nat] /\ call \in Calls
      /\ \A q \in live : req[q] <= CELL * Payload(heap, q)
      /\ pc = "scan" /\ CallOK /\ Unpromised /\ \A c \in Cells \ live : req[c] = 0
  BY Running DEF Holders, ScanTake, SInv, IInv
<1>2. /\ TakenPtr(heap, b, call.want) = p
      /\ b \in FreeBlocks(heap)
      /\ heap' \in Heap /\ HeapOK(heap')
      /\ UsedBlocks(heap') = UsedBlocks(heap) \cup {b}
      /\ b \in heap'.blocks \ {EndBlock}
      /\ call.need <= CELL * (heap'.mem[b].size - HeadCells)
      /\ \A c \in UsedBlocks(heap) : heap'.mem[c].size = heap.mem[c].size
  BY Taken
<1> HIDE DEF b
<1>3. p \in Cells /\ p # NULL /\ p - HeadCells = b /\ call.need \in Nat /\ b \in Nat
  BY <1>1, <1>2, BlockPointer DEF Calls
<1>4. call.need <= CELL * Payload(heap', p)
  BY <1>2, <1>3 DEF Payload
<1>5. ASSUME NEW q \in live
      PROVE  /\ q - HeadCells \in UsedBlocks(heap) /\ q - HeadCells \in UsedBlocks(heap')
             /\ Payload(heap', q) = Payload(heap, q)
             /\ heap'.mem[q - HeadCells].size = heap.mem[q - HeadCells].size
             /\ req[q] <= CELL * Payload(heap', q)
             /\ q # p
  <2>1. q - HeadCells \in UsedBlocks(heap) /\ q - HeadCells \in UsedBlocks(heap')
    BY <1>1, <1>2, HeldBlock
  <2>2. heap'.mem[q - HeadCells].size = heap.mem[q - HeadCells].size
    BY <1>2, <2>1
  <2>3. Payload(heap', q) = Payload(heap, q)
    BY <2>2 DEF Payload
  <2>4. b \notin UsedBlocks(heap)
    BY <1>2 DEF UsedBlocks
  <2>5. q # p
    BY <1>3, <2>1, <2>4
  <2> QED
    BY <1>1, <2>1, <2>2, <2>3, <2>5
<1>6. \A c \in UsedBlocks(heap') : c + HeadCells \in live \cup {p}
  BY <1>1, <1>2 DEF Held
<1>7. CASE call.src = NULL
  <2>1. /\ pc' = "idle" /\ call' = NoCall /\ live' = live \cup {p}
        /\ req' = [req EXCEPT ![p] = call.need] /\ stale' = {}
    BY <1>2, <1>3, <1>7 DEF ScanTake, Return, b
  <2>2. live' \subseteq Cells /\ req' \in [Cells -> Nat] /\ stale' \subseteq Cells \cup {NULL}
    BY <1>1, <1>3, <2>1
  <2>3. ASSUME NEW q \in live'
        PROVE  /\ q - HeadCells \in UsedBlocks(heap')
               /\ req'[q] <= CELL * Payload(heap', q)
    <3> HIDE DEF p
    <3>1. CASE q = p
      <4>1. req'[q] = call.need
        BY <1>1, <1>3, <2>1, <3>1
      <4> QED
        BY <1>2, <1>3, <1>4, <3>1, <4>1
    <3>2. CASE q \in live
      <4>1. req'[q] = req[q] /\ q # p
        BY <1>1, <1>5, <2>1, <3>2
      <4> QED
        BY <1>5, <3>2, <4>1
    <3> QED
      BY <2>1, <2>3, <3>1, <3>2
  <2>4. \A c \in UsedBlocks(heap') : c + HeadCells \in live'
    BY <1>6, <2>1
  <2>5. \A c \in Cells \ live' : req'[c] = 0
    <3> HIDE DEF p
    <3> QED
      BY <1>1, <2>1
  <2> QED
    BY <1>2, <2>1, <2>2, <2>3, <2>4, <2>5, NoCallType, BackInClient
<1>8. CASE call.src # NULL
  <2>1. /\ pc' = "copy" /\ call' = [call EXCEPT !.dst = p]
        /\ live' = live /\ req' = req /\ stale' = {}
    BY <1>2, <1>3, <1>8 DEF ScanTake, b
  <2>2. GoodSrc
    BY <1>1, <1>8 DEF CallOK
  <2> HIDE DEF p
  <2>3. call' \in Calls /\ call'.dst = p /\ call'.src = call.src /\ call'.need = call.need
    BY <1>1, <1>3, <2>1 DEF Calls
  <2>4. TypeOK'
    BY <1>1, <1>2, <2>1, <2>3 DEF TypeOK
  <2>5. Holders' = live \cup {p}
    BY <2>1, <2>3 DEF Holders
  <2>6. Held'
    <3>1. ASSUME NEW q \in live \cup {p}
          PROVE  q - HeadCells \in UsedBlocks(heap')
      BY <1>2, <1>3, <1>5
    <3> QED
      BY <1>6, <2>5, <3>1 DEF Held
  <2>7. CapacityHonoured'
    BY <1>5, <2>1 DEF CapacityHonoured
  <2>8. CallOK'
    <3>1. GoodSrc'
      BY <1>5, <2>1, <2>2, <2>3 DEF GoodSrc
    <3>2. p \in Cells \ live
      BY <1>3, <1>5
    <3> QED
      BY <1>4, <2>1, <2>3, <3>1, <3>2 DEF CallOK
  <2>9. Unpromised' /\ StaleFree'
    BY <1>1, <2>1 DEF Unpromised, StaleFree
  <2> QED
    BY <1>2, <2>1, <2>4, <2>6, <2>7, <2>8, <2>9 DEF SInv, IInv, NeverPanics
<1> QED
  BY <1>7, <1>8

\* The copy reads inside the heap and writes inside the new buffer.
LEMMA CopyFits ==
  ASSUME SInv, pc = "copy"
  PROVE  LET bs == call.src - HeadCells
             bd == call.dst - HeadCells
         IN  /\ bs \in UsedBlocks(heap) /\ bs + HeadCells = call.src /\ bs \in Nat
             /\ bd \in UsedBlocks(heap) /\ bd + HeadCells = call.dst /\ bd \in Nat
             /\ call.src \in live /\ call.dst \notin live /\ bs # bd
             /\ CopyLen \in Nat
             /\ call.src + CopyLen <= HeapCells
             /\ CopyLen <= heap.mem[bd].size - HeadCells
             /\ call.src \in Cells /\ call.src \in Nat /\ call.dst \in Cells /\ call.need \in Nat
             /\ call.need <= CELL * Payload(heap, call.dst)
<1> DEFINE bs == call.src - HeadCells
           bd == call.dst - HeadCells
           n  == CopyLen
<1>1. TypeOK /\ heap \in Heap /\ HeapOK(heap) /\ Held /\ call \in Calls /\ CallOK
  BY Running DEF SInv, IInv
<1>2. /\ call.src \in live /\ CELL * heap.mem[bs].size < call.need
      /\ call.dst \in Cells \ live /\ call.need <= CELL * Payload(heap, call.dst)
  BY <1>1 DEF CallOK, GoodSrc
<1>3. call.src \in Holders /\ call.dst \in Holders
  BY <1>2 DEF Holders
<1>4. /\ bs \in UsedBlocks(heap) /\ bs \in Nat /\ bs + HeadCells = call.src
      /\ call.src \in Cells /\ call.src \in Nat
      /\ heap.mem[bs].size \in Nat /\ call.src + heap.mem[bs].size <= HeapCells
  BY <1>1, <1>3, HeldBlock
<1>5. /\ bd \in UsedBlocks(heap) /\ bd \in Nat /\ bd + HeadCells = call.dst
      /\ heap.mem[bd].size \in Nat /\ heap.mem[bd].size > HeadCells
  BY <1>1, <1>3, HeldBlock
<1>6. call.need \in Nat /\ bs # bd
  BY <1>1, <1>2, <1>4, <1>5 DEF Calls
<1>7. n = heap.mem[bs].size
  BY DEF CopyLen
<1>8. Payload(heap, call.dst) = heap.mem[bd].size - HeadCells
  BY DEF Payload
<1> HIDE DEF bs, bd, n
<1>9. n <= heap.mem[bd].size - HeadCells
  BY <1>2, <1>4, <1>5, <1>6, <1>7, <1>8, Geometry DEF CELL
<1> QED
  BY <1>2, <1>4, <1>5, <1>6, <1>7, <1>9 DEF bs, bd, n

\* The end of krealloc: the old buffer is freed, the new one is the client's.
LEMMA CopyStep ==
  ASSUME SInv, CopyAndFree
  PROVE  SInv'
<1> DEFINE src == call.src
           dst == call.dst
           bs == src - HeadCells
           bd == dst - HeadCells
           n  == CopyLen
           g  == memcpy(heap, dst, src, n)
           r  == simple_free(g, src)
<1>1. /\ TypeOK /\ heap \in Heap /\ HeapOK(heap) /\ Held /\ pc = "copy"
      /\ live \subseteq Cells /\ req \in [Cells -> Nat] /\ live \subseteq Holders
      /\ \A q \in live : req[q] <= CELL * Payload(heap, q)
      /\ \A c \in Cells \ live : req[c] = 0
  BY Running DEF CopyAndFree
<1>2. /\ bs \in UsedBlocks(heap) /\ bs + HeadCells = src /\ bs \in Nat
      /\ bd \in UsedBlocks(heap) /\ bd + HeadCells = dst /\ bd \in Nat
      /\ src \in live /\ dst \notin live /\ bs # bd
      /\ n \in Nat /\ src + n <= HeapCells /\ n <= heap.mem[bd].size - HeadCells
      /\ src \in Cells /\ src \in Nat /\ dst \in Cells /\ call.need \in Nat
      /\ call.need <= CELL * Payload(heap, dst)
  BY <1>1, CopyFits
<1>3. Holders = live \cup {dst}
  BY <1>1 DEF Holders
<1>4. ~r.panic => /\ heap' = r.heap
                  /\ live' = (live \ {src}) \cup {dst}
                  /\ req' = [req EXCEPT ![src] = 0, ![dst] = call.need]
                  /\ stale' \subseteq {src} /\ pc' = "idle" /\ call' = NoCall
  BY DEF CopyAndFree, Return, Freed
<1> HIDE DEF bs, bd, n, src, dst
<1>5. StoredIn(heap, g, bd)
  <2>1. StoredIn(heap, memcpy(heap, bd + HeadCells, src, n), bd)
    BY <1>1, <1>2, CopyOK
  <2> QED
    BY <1>2, <2>1
<1> HIDE DEF g
<1>6. /\ HeapOK(g) /\ UsedBlocks(g) = UsedBlocks(heap) /\ g \in Heap
      /\ \A c \in heap.blocks : g.mem[c] = heap.mem[c]
  BY <1>1, <1>2, <1>5, StoredInOK DEF StoredIn
<1>7. /\ r.panic = FALSE /\ r.heap \in Heap /\ HeapOK(r.heap)
      /\ UsedBlocks(r.heap) = UsedBlocks(g) \ {bs}
      /\ \A c \in UsedBlocks(g) \ {bs} : r.heap.mem[c].size = g.mem[c].size
      /\ FreeInside(r.heap, bs)
  <2>1. r = simple_free(g, bs + HeadCells)
    BY <1>2
  <2> HIDE DEF r
  <2>2. FreeInside(simple_free(g, bs + HeadCells).heap, bs)
    BY <1>2, <1>6, FreeKeepsInside
  <2>3. FreeInside(r.heap, bs)
    BY <2>1, <2>2
  <2> QED
    BY <1>2, <1>6, <2>1, <2>3, FreeOK, ZenonT(60)
<1> HIDE DEF r
<1>8. /\ heap' = r.heap
      /\ live' = (live \ {src}) \cup {dst}
      /\ req' = [req EXCEPT ![src] = 0, ![dst] = call.need]
      /\ stale' \subseteq {src} /\ pc' = "idle" /\ call' = NoCall
  BY <1>4, <1>7
<1>9. UsedBlocks(heap') = UsedBlocks(heap) \ {bs}
  BY <1>6, <1>7, <1>8
<1>10. ASSUME NEW c \in UsedBlocks(heap) \ {bs}
       PROVE  heap'.mem[c].size = heap.mem[c].size
  <2>1. c \in heap.blocks
    BY DEF UsedBlocks
  <2> QED
    BY <1>6, <1>7, <1>8, <2>1
<1>11. live' \subseteq Cells /\ req' \in [Cells -> Nat]
  BY <1>1, <1>2, <1>8
<1>12. ASSUME NEW q \in live'
       PROVE  /\ q - HeadCells \in UsedBlocks(heap')
              /\ req'[q] <= CELL * Payload(heap', q)
  <2>1. q \in Holders /\ q # src /\ q \in Cells
    BY <1>1, <1>2, <1>3, <1>8, <1>12
  <2>2. q - HeadCells \in UsedBlocks(heap) /\ (q - HeadCells) + HeadCells = q
    BY <1>1, <2>1, HeldBlock
  <2>3. q - HeadCells # bs
    BY <1>2, <2>1, <2>2
  <2>4. Payload(heap', q) = Payload(heap, q)
    BY <1>10, <2>2, <2>3 DEF Payload
  <2>5. req'[q] = IF q = dst THEN call.need ELSE req[q]
    BY <1>1, <1>2, <1>8, <2>1
  <2>6. CASE q = dst
    BY <1>2, <1>9, <2>2, <2>3, <2>4, <2>5, <2>6
  <2>7. CASE q # dst
    <3>1. q \in live
      BY <1>3, <2>1, <2>7
    <3> QED
      BY <1>1, <1>9, <2>2, <2>3, <2>4, <2>5, <2>7, <3>1
  <2> QED
    BY <2>6, <2>7
<1>13. ASSUME NEW c \in UsedBlocks(heap')
       PROVE  c + HeadCells \in live'
  <2>1. c \in UsedBlocks(heap) /\ c # bs
    BY <1>9, <1>13
  <2>2. c + HeadCells \in live \cup {dst}
    BY <1>1, <1>3, <2>1 DEF Held
  <2>3. c \in Nat
    BY <1>1, <2>1, BlockPointer DEF UsedBlocks
  <2>4. c + HeadCells # src
    BY <1>2, <2>1, <2>3, Geometry
  <2> QED
    BY <1>8, <2>2, <2>4
<1>14. \A c \in Cells \ live' : req'[c] = 0
  BY <1>1, <1>2, <1>8
<1>15. \A q \in stale' : FreeInside(heap', q - HeadCells) /\ q \in Cells
  BY <1>2, <1>7, <1>8 DEF bs
<1> QED
  BY <1>7, <1>8, <1>11, <1>12, <1>13, <1>14, <1>15, NoCallType, BackInClient

-----------------------------------------------------------------------------
(* The theorems *)

\* The heap as the boot code finds it, before simple_init has run.
LEMMA InitInv ==
  ASSUME Init
  PROVE  SInv
<1>1. heap \in Heap
  BY DEF Init, Heap, Links, Zero, Cell, Bit
<1>2. TypeOK
  BY <1>1, NoCallType DEF Init, TypeOK
<1> QED
  BY <1>2 DEF Init, SInv, IInv, CapacityHonoured, CallOK, NeverPanics, Unpromised, StaleFree

(***************************************************************************)
(* simple_free of NULL, or of a pointer whose header lies in a free block, *)
(* stops at its first check.                                               *)
(***************************************************************************)
LEMMA BadFreeCaught ==
  ASSUME NEW p, p = NULL \/ FreeInside(heap, p - HeadCells), kfree(p)
  PROVE  /\ pc' = "halt" /\ heap' = heap /\ call' = call /\ live' = live \ {p}
         /\ req' = [c \in Cells |-> IF c = p THEN 0 ELSE req[c]]
         /\ stale' = Freed(stale, p)
<1>1. simple_free(heap, p) = Panic(heap)
  BY DEF simple_free, FreeInside
<1> QED
  BY <1>1 DEF kfree, FreePtr, Panic

\* A bad free halts the machine in a state of the invariant's.
LEMMA BadFreeStep ==
  ASSUME SInv, BadFrees, NEW p \in stale \cup {NULL}, kfree(p)
  PROVE  IInv' /\ pc' = "halt" /\ heap' = heap
<1>1. /\ TypeOK /\ Unpromised /\ stale \subseteq Cells \cup {NULL}
      /\ \A q \in stale : FreeInside(heap, q - HeadCells)
  BY Running DEF kfree
<1>2. /\ pc' = "halt" /\ heap' = heap /\ call' = call /\ live' = live \ {p}
      /\ req' = [c \in Cells |-> IF c = p THEN 0 ELSE req[c]]
      /\ stale' = stale \cup {p}
  BY <1>1, BadFreeCaught DEF Freed
<1>3. TypeOK'
  BY <1>1, <1>2 DEF TypeOK
<1>4. Unpromised' /\ StaleFree' /\ CapacityHonoured' /\ CallOK'
  BY <1>1, <1>2 DEF Unpromised, StaleFree, CapacityHonoured, CallOK
<1> QED
  BY <1>2, <1>3, <1>4 DEF IInv

\* The machine has halted only for a client that frees what it does not hold.
HInv == IInv /\ (pc = "halt" => BadFrees)

\* Every step of the allocator and of its client keeps the invariant.
LEMMA NextInv ==
  ASSUME WellBehaved, HInv, [Next]_vars
  PROVE  HInv'
<1> SUFFICES ASSUME SInv
             PROVE  HInv'
  <2>1. CASE pc = "halt"
    <3>1. UNCHANGED vars
      BY <2>1 DEF Next, AllocatorStep, Boot, ScanFail, ScanNext, ScanTake, CopyAndFree,
                  kmalloc, kcalloc, kfree, krealloc, ClientWrite, Halt
    <3> QED
      BY <3>1 DEF HInv, IInv, TypeOK, Held, Holders, CapacityHonoured, CallOK, GoodWant,
                  GoodSrc, CopyLen, Unpromised, StaleFree, vars
  <2>2. CASE pc # "halt"
    BY <2>2 DEF HInv, SInv, NeverPanics
  <2> QED
    BY <2>1, <2>2
<1> SUFFICES SInv' \/ (IInv' /\ BadFrees)
  <2>1. BadFrees' = BadFrees
    OBVIOUS
  <2> QED
    BY <2>1 DEF HInv, SInv, NeverPanics
<1>1. CASE Boot
  BY <1>1, BootStep
<1>2. CASE ScanFail
  BY <1>2, ScanFailStep
<1>3. CASE ScanNext
  BY <1>3, ScanNextStep
<1>4. CASE ScanTake
  BY <1>4, ScanTakeStep
<1>5. CASE CopyAndFree
  BY <1>5, CopyStep
<1>6. CASE \E n \in Requests : kmalloc(n)
  BY <1>6, MallocStep
<1>7. CASE \E k \in Counts, n \in Requests : kcalloc(k, n)
  BY <1>7, CallocStep
<1>8. CASE \E p \in Freeable : kfree(p)
  <2>1. PICK p \in Freeable : kfree(p)
    BY <1>8
  <2>2. CASE p \in live
    BY <2>1, <2>2, FreeStep DEF kfree
  <2>3. CASE p \notin live
    <3>1. BadFrees /\ p \in stale \cup {NULL}
      BY <2>1, <2>3 DEF Freeable
    <3> QED
      BY <2>1, <3>1, BadFreeStep
  <2> QED
    BY <2>2, <2>3
<1>9. CASE \E p \in live \cup {NULL}, n \in Resizes : krealloc(p, n)
  BY <1>9, ReallocStep
<1>10. CASE \E p \in live, d \in Data : ClientWrite(p, d)
  BY <1>10, WriteStep
<1>11. CASE Halt
  BY <1>11 DEF Halt, SInv, NeverPanics
<1>12. CASE UNCHANGED vars
  BY <1>12, StutterStep
<1> QED
  BY <1>1, <1>2, <1>3, <1>4, <1>5, <1>6, <1>7, <1>8, <1>9, <1>10, <1>11, <1>12
     DEF Next, AllocatorStep

(***************************************************************************)
(* The inductive invariant IInv, which the runs check, holds in every      *)
(* state the kernel heap can reach; it halts only after a bad free.        *)
(***************************************************************************)
THEOREM InvariantHolds ==
  ASSUME WellBehaved
  PROVE  Spec => [](IInv /\ (pc = "halt" => BadFrees))
<1>1. Init => HInv
  BY InitInv DEF SInv, HInv, NeverPanics
<1>2. HInv /\ [Next]_vars => HInv'
  BY NextInv
<1>3. Spec => []HInv
  BY <1>1, <1>2, PTL DEF Spec
<1> QED
  BY <1>3, PTL DEF HInv

\* Every variable keeps its type: no link, block or pointer leaves the heap.
THEOREM TypeCorrect ==
  ASSUME WellBehaved
  PROVE  Spec => []TypeOK
<1>1. IInv => TypeOK
  BY DEF IInv
<1> QED
  BY <1>1, InvariantHolds, PTL

(***************************************************************************)
(* Headers tile the heap, boundary tags agree with headers, no two free    *)
(* blocks touch and the free list links the free blocks, in every state    *)
(* between two steps, whatever a client stores in its buffers.             *)
(***************************************************************************)
THEOREM HeapStaysIntact ==
  ASSUME WellBehaved
  PROVE  Spec => []HeapIntact
<1>1. IInv => HeapIntact
  BY DEF IInv, HeapIntact
<1> QED
  BY <1>1, InvariantHolds, PTL

(***************************************************************************)
(* simple_mm_get_free_memory is exact: its walk is back at the head of the *)
(* list after fewer rounds than there are cells, no sum wraps, and what it *)
(* counts and the blocks in use make up the heap.                          *)
(***************************************************************************)
THEOREM FreeMemoryIsExact ==
  ASSUME WellBehaved
  PROVE  Spec => []FreeMemoryExact
<1>1. ASSUME IInv
      PROVE  FreeMemoryExact
  <2> SUFFICES ASSUME pc \in {"idle", "scan", "copy"}
               PROVE  /\ FreeWalk(heap)[HeapCells].it = free_mem_list_head
                      /\ simple_mm_get_free_memory(heap)
                           + SumSizes(heap, heap.blocks \ FreeBlocks(heap)) = EndBlock
    BY DEF FreeMemoryExact
  <2>1. heap \in Heap /\ Tiled(heap) /\ Listed(heap)
    BY <1>1 DEF IInv, TypeOK, HeapOK
  <2> QED
    BY <2>1, FreeMemoryCounts
<1> QED
  BY <1>1, InvariantHolds, PTL

\* The blocks in use are the buffers that are held: none is lost or shared.
THEOREM NothingLeaks ==
  ASSUME WellBehaved
  PROVE  Spec => []NoLeak
<1>1. ASSUME IInv
      PROVE  NoLeak
  <2> SUFFICES ASSUME pc \in {"idle", "scan", "copy"}
               PROVE  {b + HeadCells : b \in UsedBlocks(heap)} = Holders
    BY DEF NoLeak
  <2>1. TypeOK /\ heap \in Heap /\ HeapOK(heap) /\ Held
    BY <1>1 DEF IInv, TypeOK
  <2>2. \A p \in Holders : p - HeadCells \in UsedBlocks(heap) /\ (p - HeadCells) + HeadCells = p
    BY <2>1, HeldBlock
  <2>3. \A b \in UsedBlocks(heap) : b + HeadCells \in Holders
    BY <2>1 DEF Held
  <2> QED
    BY <2>2, <2>3
<1> QED
  BY <1>1, InvariantHolds, PTL

(***************************************************************************)
(* When the client holds nothing the heap is one free block: the first     *)
(* block is free, so is none next to it, so the next is the end block.     *)
(***************************************************************************)
THEOREM FreedHeapIsWhole ==
  ASSUME WellBehaved
  PROVE  Spec => []Unified
<1>1. ASSUME IInv
      PROVE  Unified
  <2> SUFFICES ASSUME pc = "idle", live = {}
               PROVE  /\ heap.blocks = {0, EndBlock}
                      /\ heap.mem[0].size = EndBlock
                      /\ heap.mem[0].free = 1
    BY DEF Unified
  <2>1. /\ heap \in Heap /\ Tiled(heap) /\ Coalesced(heap) /\ Held /\ Holders = {}
    BY <1>1 DEF IInv, TypeOK, HeapOK, Holders
  <2>2. \A b \in heap.blocks \ {EndBlock} : b \in FreeBlocks(heap)
    BY <2>1 DEF Held, UsedBlocks
  <2>3. 0 \in heap.blocks \ {EndBlock} /\ EndBlock \in heap.blocks
    BY <2>1, Geometry DEF Tiled
  <2>4. 0 \in FreeBlocks(heap) /\ heap.mem[0].free = 1
    BY <2>2, <2>3 DEF FreeBlocks
  <2> DEFINE s == heap.mem[0].size
  <2>5. /\ s \in Nat /\ 0 + s = s /\ s > 0
        /\ 0 + s \in heap.blocks /\ 0 + s <= EndBlock
        /\ \A c \in heap.blocks : c \in Int /\ (c <= 0 \/ 0 + s <= c)
    BY <2>1, <2>3, BlockBounds, Geometry
  <2>6. heap.mem[0 + s].free = 0
    BY <2>1, <2>4 DEF Coalesced
  <2> HIDE DEF s
  <2>7. s = EndBlock
    <3>1. s \notin FreeBlocks(heap)
      BY <2>5, <2>6 DEF FreeBlocks
    <3> QED
      BY <2>2, <2>5, <3>1
  <2>8. \A c \in heap.blocks : c \in 0 .. EndBlock
    BY <2>1 DEF Tiled
  <2>9. \A c \in heap.blocks : c = 0 \/ c = EndBlock
    BY <2>5, <2>7, <2>8, Geometry
  <2> QED
    BY <2>3, <2>4, <2>7, <2>9 DEF s
<1> QED
  BY <1>1, InvariantHolds, PTL

\* A buffer is never shorter than the client was promised.
THEOREM CapacityIsHonoured ==
  ASSUME WellBehaved
  PROVE  Spec => []CapacityHonoured
<1>1. IInv => CapacityHonoured
  BY DEF IInv
<1> QED
  BY <1>1, InvariantHolds, PTL

\* A client that frees only what it holds never meets simple_free's panics.
THEOREM NoPanic ==
  ASSUME WellBehaved, ~BadFrees
  PROVE  Spec => []NeverPanics
<1>1. (pc = "halt" => BadFrees) => NeverPanics
  BY DEF NeverPanics
<1> QED
  BY <1>1, InvariantHolds, PTL

(***************************************************************************)
(* A second kfree of a pointer, with no allocation since the first, halts  *)
(* the machine before the heap is touched, also when the block has been    *)
(* merged into a neighbour; so does kfree(NULL).                           *)
(***************************************************************************)
THEOREM DoubleFreesAreCaught ==
  ASSUME WellBehaved
  PROVE  Spec => DoubleFreeCaught
<1>1. ASSUME IInv, NEW p \in stale \cup {NULL}, kfree(p)
      PROVE  pc' = "halt" /\ heap' = heap
  <2>1. p = NULL \/ FreeInside(heap, p - HeadCells)
    BY <1>1 DEF IInv, StaleFree, kfree
  <2> QED
    BY <1>1, <2>1, BadFreeCaught
<1>2. IInv /\ [Next]_vars
        => [\A p \in stale \cup {NULL} : kfree(p) => pc' = "halt" /\ heap' = heap]_vars
  BY <1>1
<1>3. Spec => []IInv /\ [][Next]_vars
  BY InvariantHolds, PTL DEF Spec
<1> QED
  BY <1>2, <1>3, PTL DEF DoubleFreeCaught

\* krealloc's copy, a header longer than the old payload, stays in bounds.
THEOREM CopyStaysInBounds ==
  ASSUME WellBehaved
  PROVE  Spec => []CopyInBounds
<1>1. ASSUME IInv
      PROVE  CopyInBounds
  BY <1>1, CopyFits DEF CopyInBounds, SInv, NeverPanics, Payload
<1> QED
  BY <1>1, InvariantHolds, PTL
=============================================================================
