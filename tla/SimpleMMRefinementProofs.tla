---------------------- MODULE SimpleMMRefinementProofs ----------------------
(***************************************************************************)
(* The kernel heap implements the abstract allocator, for every heap size, *)
(* header size, set of requests and stored data: with heap.mem for the     *)
(* store, each of its steps is a step of the allocator, or its bookkeeping *)
(* outside every buffer.  The argument: a buffer lies in the payload of    *)
(* its own block in use, and simple_malloc, simple_free and the copy of    *)
(* krealloc write to no other payload than the one they are about.         *)
(***************************************************************************)
EXTENDS SimpleMMProofs

\* The bytes promised at a block in use lie in its payload.
LEMMA RegionInBlock ==
  ASSUME NEW h \in Heap, HeapOK(h), NEW b \in UsedBlocks(h),
         NEW n \in Nat, n <= CELL * (h.mem[b].size - HeadCells),
         NEW c \in Abstract!Region(b + HeadCells, n)
  PROVE  /\ c \in Cells /\ c \in Nat /\ b \in Nat /\ h.mem[b].size \in Nat
         /\ b + HeadCells <= c /\ b < c
         /\ c < b + h.mem[b].size
<1>1. b \in h.blocks \ {EndBlock} /\ Tiled(h)
  BY DEF UsedBlocks, HeapOK
<1> DEFINE s == h.mem[b].size
           k == IF n = 0 THEN 1 ELSE CellsOf(n)
<1>2. b \in Nat /\ s \in Nat /\ s > HeadCells /\ b + s <= EndBlock
  BY <1>1, BlockBounds
<1> HIDE DEF s
<1>3. k \in Nat /\ k <= s - HeadCells
  BY <1>2, Geometry DEF CellsOf, CELL, s
<1>4. c \in (b + HeadCells) .. (b + HeadCells) + k - 1
  BY DEF Abstract!Region
<1> HIDE DEF k
<1>5. c \in Nat /\ b + HeadCells <= c /\ b < c /\ c < b + s
  BY <1>2, <1>3, <1>4, Geometry
<1> QED
  BY <1>2, <1>5, Geometry DEF s, Cells

\* Promises at two blocks in use do not overlap.
LEMMA RegionsApart ==
  ASSUME NEW h \in Heap, HeapOK(h), NEW b \in UsedBlocks(h), NEW d \in UsedBlocks(h) \ {b},
         NEW n \in Nat, n <= CELL * (h.mem[b].size - HeadCells),
         NEW m \in Nat, m <= CELL * (h.mem[d].size - HeadCells)
  PROVE  Abstract!Region(b + HeadCells, n) \cap Abstract!Region(d + HeadCells, m) = {}
<1> SUFFICES ASSUME NEW c \in Abstract!Region(b + HeadCells, n),
                    c \in Abstract!Region(d + HeadCells, m)
             PROVE  FALSE
  OBVIOUS
<1>1. /\ c \in Nat /\ b \in Nat /\ h.mem[b].size \in Nat /\ b < c /\ c < b + h.mem[b].size
      /\ d \in Nat /\ h.mem[d].size \in Nat /\ d < c /\ c < d + h.mem[d].size
  BY RegionInBlock
<1>2. /\ Tiled(h) /\ b \in h.blocks \ {EndBlock} /\ d \in h.blocks \ {EndBlock}
  BY DEF HeapOK, UsedBlocks
<1>3. d + h.mem[d].size <= b \/ b + h.mem[b].size <= d
  BY <1>2, OutsideBlock
<1> QED
  BY <1>1, <1>3

\* An owned cell lies in the payload of the block of a buffer that is held.
LEMMA OwnedCells ==
  ASSUME SInv, pc # "boot", NEW S \in SUBSET live, NEW c \in Abstract!Owned(S)
  PROVE  \E p \in S :
           /\ c \in Abstract!Region(p, req[p]) /\ c \in Cells /\ c \in Nat
           /\ p - HeadCells \in UsedBlocks(heap)
           /\ p - HeadCells < c
           /\ p <= c
           /\ c < (p - HeadCells) + heap.mem[p - HeadCells].size
<1>1. PICK p \in S : c \in Abstract!Region(p, req[p])
  BY DEF Abstract!Owned
<1> DEFINE b == p - HeadCells
<1>2. /\ heap \in Heap /\ HeapOK(heap) /\ Held /\ TypeOK /\ live \subseteq Holders
      /\ req \in [Cells -> Nat] /\ live \subseteq Cells
      /\ \A q \in live : req[q] <= CELL * Payload(heap, q)
  BY Running
<1>3. b \in UsedBlocks(heap) /\ b + HeadCells = p /\ p \in Cells
  BY <1>2, HeldBlock
<1>4. req[p] \in Nat /\ req[p] <= CELL * (heap.mem[b].size - HeadCells)
  BY <1>2, <1>3 DEF Payload
<1> HIDE DEF b
<1>5. /\ c \in Cells /\ c \in Nat /\ b + HeadCells <= c /\ b < c
      /\ c < b + heap.mem[b].size
  <2>1. c \in Abstract!Region(b + HeadCells, req[p])
    BY <1>1, <1>3
  <2> QED
    BY <1>2, <1>3, <1>4, <2>1, RegionInBlock
<1> QED
  BY <1>1, <1>3, <1>5 DEF b

\* A buffer at a block of its own is clear of the buffers that are held.
LEMMA FreshAt ==
  ASSUME SInv, pc # "boot", NEW S \in SUBSET live,
         NEW h \in Heap, HeapOK(h), NEW b \in UsedBlocks(h),
         NEW n \in Nat, n <= CELL * (h.mem[b].size - HeadCells),
         \A p \in S : /\ p - HeadCells \in UsedBlocks(h) \ {b}
                      /\ h.mem[p - HeadCells].size = heap.mem[p - HeadCells].size
  PROVE  Abstract!Fresh(b + HeadCells, n, S)
<1>1. Abstract!Region(b + HeadCells, n) \subseteq Cells
  BY RegionInBlock
<1>2. ASSUME NEW c \in Abstract!Region(b + HeadCells, n), c \in Abstract!Owned(S)
      PROVE  FALSE
  <2>1. PICK p \in S : /\ p - HeadCells \in UsedBlocks(heap)
                       /\ p - HeadCells < c
                       /\ c < (p - HeadCells) + heap.mem[p - HeadCells].size
    BY <1>2, OwnedCells
  <2> DEFINE u == p - HeadCells
  <2>2. u \in UsedBlocks(h) \ {b} /\ h.mem[u].size = heap.mem[u].size
    OBVIOUS
  <2>3. u < c /\ c < u + h.mem[u].size
    BY <2>1, <2>2
  <2> HIDE DEF u
  <2>4. /\ Tiled(h) /\ b \in h.blocks \ {EndBlock} /\ u \in h.blocks \ {EndBlock} /\ u # b
    BY <2>2 DEF HeapOK, UsedBlocks
  <2>5. u + h.mem[u].size <= b \/ b + h.mem[b].size <= u
    BY <2>4, OutsideBlock
  <2>6. u \in Nat /\ h.mem[u].size \in Nat
    BY <2>4, BlockBounds
  <2>7. /\ c \in Nat /\ b \in Nat /\ h.mem[b].size \in Nat /\ b < c /\ c < b + h.mem[b].size
    BY RegionInBlock
  <2> QED
    BY <2>3, <2>5, <2>6, <2>7
<1> QED
  BY <1>1, <1>2 DEF Abstract!Fresh

\* What the client, or a call in progress, does without writing to the heap.
LEMMA QuietStep ==
  ASSUME heap' = heap, live' = live, req' = req
  PROVE  [Abstract!Next]_Abstract!vars
BY DEF Abstract!vars

-----------------------------------------------------------------------------
(* The steps that write *)

\* simple_malloc, with the memset of calloc, leaves the held buffers alone.
LEMMA TakenKeeps ==
  ASSUME SInv, ScanTake
  PROVE  Abstract!Keeps(live)
<1> DEFINE b == call.it
           p == b + HeadCells
           w == call.want
           g == TakenHeap(heap, b, w)
           n == CellsOf(call.need)
<1>1. /\ heap \in Heap /\ HeapOK(heap) /\ call \in Calls /\ pc = "scan"
  BY Running DEF ScanTake
<1>2. /\ b \in FreeBlocks(heap) /\ Fits(heap, b, w)
      /\ w >= 1 /\ w + HeadCells < SizeCells /\ call.need <= CELL * w
  BY <1>1 DEF ScanTake, SInv, IInv, CallOK, GoodWant
<1>3. w \in Nat /\ call.need \in Nat
  BY <1>1 DEF Calls
<1>4. heap' = IF call.fn = "calloc" /\ TakenPtr(heap, b, w) # NULL
              THEN Fill(g, Span(TakenPtr(heap, b, w), n), Zero) ELSE g
  BY DEF ScanTake
<1> HIDE DEF b, w
<1>5. Takes(heap, b, w)
  BY <1>1, <1>2, <1>3 DEF Takes
<1>6. /\ g \in Heap /\ HeapOK(g)
      /\ TakenPtr(heap, b, w) = p
      /\ UsedBlocks(g) = UsedBlocks(heap) \cup {b}
      /\ g.mem[b].size >= w + HeadCells
      /\ \A c \in UsedBlocks(heap) : g.mem[c].size = heap.mem[c].size
  BY <1>5, TakenOK
<1> SUFFICES ASSUME NEW c \in Abstract!Owned(live)
             PROVE  heap'.mem[c] = heap.mem[c]
  BY DEF Abstract!Keeps
<1>7. PICK q \in live : /\ q - HeadCells \in UsedBlocks(heap) /\ c \in Cells /\ c \in Nat
                        /\ q - HeadCells < c
                        /\ c < (q - HeadCells) + heap.mem[q - HeadCells].size
  BY <1>1, OwnedCells
<1> DEFINE u  == q - HeadCells
           su == heap.mem[u].size
<1>8. g.mem[c] = heap.mem[c]
  <2>1. /\ Tiled(heap) /\ u \in heap.blocks \ {EndBlock} /\ b \in heap.blocks \ {EndBlock}
        /\ u # b
    BY <1>1, <1>2, <1>7 DEF HeapOK, UsedBlocks, FreeBlocks, Tiled
  <2>2. /\ u \in Nat /\ su \in Nat /\ b \in Nat /\ heap.mem[b].size \in Nat
        /\ u + su <= b \/ b + heap.mem[b].size <= u
    BY <1>1, <2>1, BlockBounds, OutsideBlock
  <2>3. u < c /\ c < u + su
    BY <1>7
  <2> HIDE DEF u, su
  <2>4. c < b \/ b + heap.mem[b].size < c
    BY <1>7, <2>2, <2>3
  <2> QED
    BY <1>5, <1>7, <2>4, TakeFrame
<1> HIDE DEF g, p
<1>9. CASE heap' = g
  BY <1>8, <1>9
<1>10. CASE heap' = Fill(g, Span(p, n), Zero)
  <2>1. /\ b \in UsedBlocks(g) /\ u \in UsedBlocks(g) /\ g.mem[u].size = su
        /\ b \notin UsedBlocks(heap)
    BY <1>2, <1>6, <1>7 DEF UsedBlocks
  <2>2. /\ Tiled(g) /\ u \in g.blocks \ {EndBlock} /\ b \in g.blocks \ {EndBlock} /\ u # b
    BY <1>6, <1>7, <2>1 DEF HeapOK, UsedBlocks
  <2>3. /\ u \in Nat /\ su \in Nat /\ b \in Nat /\ g.mem[b].size \in Nat
        /\ u + su <= b \/ b + g.mem[b].size <= u
    BY <1>6, <2>1, <2>2, BlockBounds, OutsideBlock
  <2>4. n \in Nat /\ n <= g.mem[b].size - HeadCells
    <3>1. n \in Nat /\ n <= w
      BY <1>2, <1>3 DEF CellsOf, CELL
    <3> HIDE DEF n
    <3> QED
      BY <1>3, <1>6, <2>3, <3>1, Geometry
  <2> HIDE DEF n
  <2>5. StoredIn(g, Fill(g, Span(b + HeadCells, n), Zero), b)
    <3>1. Zero \in Cell
      BY DEF Zero, Cell, Bit
    <3> QED
      BY <1>6, <2>1, <2>4, <3>1, FillOK
  <2>6. StoredIn(g, heap', b)
    BY <1>10, <2>5 DEF p
  <2>7. u < c /\ c < u + su
    BY <1>7
  <2> HIDE DEF u, su
  <2>8. c < b + HeadCells \/ b + g.mem[b].size <= c
    BY <1>7, <2>3, <2>7, Geometry
  <2> QED
    BY <1>7, <1>8, <2>6, <2>8 DEF StoredIn
<1> QED
  BY <1>4, <1>6, <1>9, <1>10

\* A successful kmalloc or kcalloc hands out a buffer clear of all others.
LEMMA TakeStep ==
  ASSUME SInv, ScanTake
  PROVE  Abstract!Next
<1> DEFINE b == call.it
           p == b + HeadCells
<1>1. /\ TakenPtr(heap, b, call.want) = p
      /\ b \in FreeBlocks(heap)
      /\ heap' \in Heap /\ HeapOK(heap')
      /\ UsedBlocks(heap') = UsedBlocks(heap) \cup {b}
      /\ b \in heap'.blocks \ {EndBlock}
      /\ call.need <= CELL * (heap'.mem[b].size - HeadCells)
      /\ \A c \in UsedBlocks(heap) : heap'.mem[c].size = heap.mem[c].size
  BY Taken
<1>2. Abstract!Keeps(live)
  BY TakenKeeps
<1>3. /\ TypeOK /\ heap \in Heap /\ HeapOK(heap) /\ Held /\ live \subseteq Holders /\ pc = "scan"
      /\ req \in [Cells -> Nat] /\ call \in Calls
  BY Running DEF ScanTake
<1> HIDE DEF b
<1>4. p \in Cells /\ p # NULL /\ p - HeadCells = b /\ call.need \in Nat
  BY <1>1, <1>3, BlockPointer DEF Calls
<1>5. CASE call.src # NULL
  <2>1. live' = live /\ req' = req
    BY <1>1, <1>4, <1>5 DEF ScanTake, b
  <2> QED
    BY <1>2, <2>1 DEF Abstract!Next, Abstract!Internal
<1>6. CASE call.src = NULL
  <2>1. live' = live \cup {p} /\ req' = [req EXCEPT ![p] = call.need]
    BY <1>1, <1>4, <1>6 DEF ScanTake, b
  <2>2. ASSUME NEW q \in live
        PROVE  /\ q - HeadCells \in UsedBlocks(heap') \ {b}
               /\ heap'.mem[q - HeadCells].size = heap.mem[q - HeadCells].size
    <3>1. q - HeadCells \in UsedBlocks(heap)
      BY <1>3, HeldBlock
    <3>2. b \notin UsedBlocks(heap)
      BY <1>1 DEF UsedBlocks
    <3> QED
      BY <1>1, <3>1, <3>2
  <2>3. b \in UsedBlocks(heap')
    BY <1>1
  <2>4. Abstract!Fresh(p, call.need, live)
    BY <1>1, <1>3, <1>4, <2>2, <2>3, FreshAt
  <2>5. p \notin live
    BY <1>4, <2>2
  <2> HIDE DEF p
  <2>6. req'[p] = call.need /\ p \in live'
    BY <1>3, <1>4, <2>1
  <2>7. Abstract!Alloc(p, req'[p])
    BY <1>2, <2>1, <2>4, <2>5, <2>6 DEF Abstract!Alloc
  <2> QED
    BY <2>6, <2>7 DEF Abstract!Next
<1> QED
  BY <1>5, <1>6

\* kfree of a held pointer gives the buffer up and leaves the others alone.
LEMMA FreeImplements ==
  ASSUME SInv, pc = "idle", NEW p \in live, FreePtr(p)
  PROVE  Abstract!Next
<1> DEFINE b == p - HeadCells
           g == simple_free(heap, p).heap
<1>1. /\ TypeOK /\ heap \in Heap /\ HeapOK(heap) /\ Held /\ live \subseteq Holders
      /\ req \in [Cells -> Nat]
  BY Running
<1>2. b \in UsedBlocks(heap) /\ b + HeadCells = p /\ b \in Nat
  BY <1>1, HeldBlock
<1>3. /\ heap' = g /\ live' = live \ {p}
      /\ req' = [req EXCEPT ![p] = 0]
  BY <1>1 DEF FreePtr
<1>4. ASSUME NEW c \in Abstract!Owned(live \ {p})
      PROVE  heap'.mem[c] = heap.mem[c]
  <2>1. PICK q \in live \ {p} :
           /\ q - HeadCells \in UsedBlocks(heap) /\ c \in Cells
           /\ q - HeadCells < c
           /\ c < (q - HeadCells) + heap.mem[q - HeadCells].size
    BY <1>4, OwnedCells
  <2>2. (q - HeadCells) + HeadCells = q
    BY <1>1, HeldBlock
  <2>3. q - HeadCells # b
    BY <1>2, <2>1, <2>2
  <2> HIDE DEF b
  <2>4. simple_free(heap, b + HeadCells).heap.mem[c] = heap.mem[c]
    BY <1>1, <1>2, <2>1, <2>3, FreeKeepsBuffers
  <2> QED
    BY <1>2, <1>3, <2>4
<1>5. Abstract!Free(p)
  BY <1>3, <1>4 DEF Abstract!Free, Abstract!Keeps
<1> QED
  BY <1>5 DEF Abstract!Next

\* krealloc: in place, by freeing, or by entering simple_malloc.
LEMMA ReallocImplements ==
  ASSUME WellBehaved, SInv, NEW p \in live \cup {NULL}, NEW n \in Resizes, krealloc(p, n)
  PROVE  [Abstract!Next]_Abstract!vars
<1> DEFINE b == p - HeadCells
           s == heap.mem[b].size
<1>1. n \in Nat /\ pc = "idle"
  BY ClientAssumption, HeapAssumption DEF krealloc
<1>2. /\ TypeOK /\ heap \in Heap /\ HeapOK(heap) /\ Held /\ live \subseteq Holders
      /\ req \in [Cells -> Nat]
  BY <1>1, Running
<1>3. CASE p = NULL
  BY <1>3, QuietStep DEF krealloc, EnterMalloc
<1>4. CASE p # NULL /\ n = 0
  BY <1>1, <1>4, FreeImplements DEF krealloc
<1>5. CASE p # NULL /\ n # 0 /\ heap.mem[b].magic # 1
  BY <1>5, QuietStep DEF krealloc, vars
<1>6. CASE p # NULL /\ n # 0 /\ heap.mem[b].magic = 1 /\ ~(n <= CELL * s)
  BY <1>6, QuietStep DEF krealloc, EnterMalloc
<1>7. CASE p # NULL /\ n # 0 /\ heap.mem[b].magic = 1 /\ n <= CELL * s
  <2>1. p \in live /\ ~InGap(p, n)
    BY <1>7 DEF krealloc, WellBehaved
  <2>2. /\ req' = [req EXCEPT ![p] = n]
        /\ heap' = heap /\ live' = live
    BY <1>1, <1>7 DEF krealloc
  <2>3. /\ b \in UsedBlocks(heap) /\ b + HeadCells = p
        /\ s \in Nat /\ s > HeadCells /\ p \in Cells
    BY <1>2, <2>1, HeldBlock
  <2>4. n <= CELL * (s - HeadCells)
    <3>1. ~(CELL * (s - HeadCells) < n)
      BY <1>7, <2>1 DEF InGap
    <3> HIDE DEF s
    <3> QED
      BY <1>1, <2>3, <3>1, Geometry DEF CELL
  <2>5. ASSUME NEW q \in live \ {p}
        PROVE  q - HeadCells \in UsedBlocks(heap) \ {b}
    <3>1. q - HeadCells \in UsedBlocks(heap) /\ (q - HeadCells) + HeadCells = q
      BY <1>2, HeldBlock
    <3> QED
      BY <2>3, <3>1
  <2>6. Abstract!Fresh(p, n, live \ {p})
    <3> HIDE DEF b
    <3> QED
      BY <1>1, <1>2, <2>3, <2>4, <2>5, FreshAt DEF s
  <2>7. req'[p] = n /\ p \in live'
    BY <1>2, <2>1, <2>2, <2>3
  <2>8. Abstract!Resize(p, req'[p])
    BY <2>1, <2>2, <2>6, <2>7 DEF Abstract!Resize, Abstract!Keeps
  <2> QED
    BY <2>7, <2>8 DEF Abstract!Next
<1> QED
  BY <1>3, <1>4, <1>5, <1>6, <1>7

\* The client's stores stay in the buffer they are meant for.
LEMMA WriteImplements ==
  ASSUME SInv, NEW p \in live, NEW d \in Data, ClientWrite(p, d)
  PROVE  Abstract!Next
<1> DEFINE n == req[p]
           S == Span(p, CellsOf(n))
<1>1. /\ TypeOK /\ heap \in Heap /\ HeapOK(heap) /\ Held /\ live \subseteq Holders
      /\ req \in [Cells -> Nat] /\ live \subseteq Cells
  BY Running DEF ClientWrite
<1>2. heap' = Fill(heap, S, d) /\ live' = live /\ req' = req
  BY DEF ClientWrite
<1>3. n \in Nat /\ p \in Nat
  BY <1>1 DEF Cells
<1>4. S \subseteq Abstract!Region(p, n)
  <2> DEFINE k == CellsOf(n)
  <2>1. k \in Nat /\ (n = 0 => k = 0)
    BY <1>3 DEF CellsOf, CELL
  <2> HIDE DEF k, n
  <2>2. ASSUME NEW c \in Span(p, k)
        PROVE  c \in p .. p + (IF n = 0 THEN 1 ELSE k) - 1
    BY <1>3, <2>1, <2>2 DEF Span, Cells
  <2> QED
    BY <2>2 DEF Abstract!Region, n, k
<1> HIDE DEF S
<1>5. heap'.mem = [c \in Cells |-> IF c \in S THEN d ELSE heap.mem[c]]
  <2>1. heap = [mem |-> heap.mem, lst |-> heap.lst, blocks |-> heap.blocks]
    BY <1>1 DEF Heap
  <2> QED
    BY <1>2, <2>1 DEF Fill
<1>6. Abstract!Write(p)
  BY <1>2, <1>4, <1>5 DEF Abstract!Write
<1> QED
  BY <1>6 DEF Abstract!Next

(***************************************************************************)
(* The end of krealloc: the new buffer is clear of the old ones and holds  *)
(* the old contents, also after simple_free of the old block.              *)
(***************************************************************************)
LEMMA CopyImplements ==
  ASSUME SInv, CopyAndFree
  PROVE  Abstract!Next
<1> DEFINE src == call.src
           dst == call.dst
           bs == src - HeadCells
           bd == dst - HeadCells
           n  == CopyLen
           g  == memcpy(heap, dst, src, n)
           r  == simple_free(g, src).heap
<1>1. /\ TypeOK /\ heap \in Heap /\ HeapOK(heap) /\ Held /\ pc = "copy"
      /\ live \subseteq Cells /\ req \in [Cells -> Nat] /\ live \subseteq Holders
      /\ \A q \in live : req[q] <= CELL * Payload(heap, q)
  BY Running DEF CopyAndFree
<1>2. /\ bs \in UsedBlocks(heap) /\ bs + HeadCells = src /\ bs \in Nat
      /\ bd \in UsedBlocks(heap) /\ bd + HeadCells = dst /\ bd \in Nat
      /\ src \in live /\ dst \notin live /\ bs # bd
      /\ n \in Nat /\ src + n <= HeapCells /\ n <= heap.mem[bd].size - HeadCells
      /\ src \in Cells /\ src \in Nat /\ dst \in Cells /\ call.need \in Nat
      /\ call.need <= CELL * Payload(heap, dst)
  BY <1>1, CopyFits
<1>3. /\ heap' = r
      /\ live' = (live \ {src}) \cup {dst}
      /\ req' = [req EXCEPT ![src] = 0, ![dst] = call.need]
  BY DEF CopyAndFree
<1>4. call.need <= CELL * (heap.mem[bd].size - HeadCells) /\ n = heap.mem[bs].size
  BY <1>2 DEF Payload, CopyLen
<1>5. heap.mem[bs].size \in Nat /\ heap.mem[bd].size \in Nat /\ dst \in Nat
  BY <1>1, <1>2, BlockPointer DEF UsedBlocks, Cells
<1>6. /\ req[src] \in Nat /\ req[src] <= CELL * (n - HeadCells)
  BY <1>1, <1>2, <1>4 DEF Payload
<1> HIDE DEF bs, bd, n, src, dst
<1>7. StoredIn(heap, g, bd)
  <2>1. StoredIn(heap, memcpy(heap, bd + HeadCells, src, n), bd)
    BY <1>1, <1>2, CopyOK
  <2> QED
    BY <1>2, <2>1
<1>8. g.mem = [c \in Cells |-> IF c \in Span(dst, n) THEN heap.mem[src + (c - dst)]
                               ELSE heap.mem[c]]
  <2>1. heap = [mem |-> heap.mem, lst |-> heap.lst, blocks |-> heap.blocks]
    BY <1>1 DEF Heap
  <2> QED
    BY <2>1 DEF memcpy
<1> HIDE DEF g
<1>9. /\ HeapOK(g) /\ UsedBlocks(g) = UsedBlocks(heap) /\ g \in Heap
      /\ \A c \in heap.blocks : g.mem[c] = heap.mem[c]
  BY <1>1, <1>2, <1>7, StoredInOK DEF StoredIn
<1>10. r = simple_free(g, bs + HeadCells).heap
  BY <1>2
<1> HIDE DEF r
\* simple_free keeps what the copy, and the client, put into other blocks.
<1>11. ASSUME NEW u \in UsedBlocks(heap) \ {bs}, NEW c \in Cells,
              u < c, c < u + heap.mem[u].size
       PROVE  heap'.mem[c] = g.mem[c]
  <2>1. g.mem[u] = heap.mem[u] /\ u \in UsedBlocks(g) \ {bs}
    BY <1>9 DEF UsedBlocks
  <2>2. simple_free(g, bs + HeadCells).heap.mem[c] = g.mem[c]
    BY <1>2, <1>9, <1>11, <2>1, FreeKeepsBuffers, ZenonT(60)
  <2> QED
    BY <1>3, <1>10, <2>2
<1>12. ASSUME NEW q \in live
       PROVE  /\ q - HeadCells \in UsedBlocks(heap) \ {bd}
              /\ q # src => q - HeadCells # bs
  <2>1. q - HeadCells \in UsedBlocks(heap) /\ (q - HeadCells) + HeadCells = q
    BY <1>1, HeldBlock
  <2> QED
    BY <1>2, <2>1
<1>13. Abstract!Fresh(dst, call.need, live)
  <2>1. Abstract!Fresh(bd + HeadCells, call.need, live)
    BY <1>1, <1>2, <1>4, <1>12, FreshAt
  <2> QED
    BY <1>2, <2>1
<1>14. Abstract!Keeps(live \ {src})
  <2> SUFFICES ASSUME NEW c \in Abstract!Owned(live \ {src})
               PROVE  heap'.mem[c] = heap.mem[c]
    BY DEF Abstract!Keeps
  <2>1. PICK q \in live \ {src} :
           /\ q - HeadCells \in UsedBlocks(heap) /\ c \in Cells /\ c \in Nat
           /\ q - HeadCells < c
           /\ c < (q - HeadCells) + heap.mem[q - HeadCells].size
    BY <1>1, OwnedCells
  <2> DEFINE u == q - HeadCells
  <2>2. u \in UsedBlocks(heap) \ {bs} /\ u # bd /\ u < c /\ c < u + heap.mem[u].size
    BY <1>12, <2>1
  <2> HIDE DEF u
  <2>3. heap'.mem[c] = g.mem[c]
    BY <1>11, <2>1, <2>2
  <2>4. /\ Tiled(heap) /\ u \in heap.blocks \ {EndBlock} /\ bd \in heap.blocks \ {EndBlock}
    BY <1>1, <1>2, <2>2 DEF HeapOK, UsedBlocks
  <2>5. /\ u \in Nat /\ heap.mem[u].size \in Nat
        /\ u + heap.mem[u].size <= bd \/ bd + heap.mem[bd].size <= u
    BY <1>1, <2>2, <2>4, BlockBounds, OutsideBlock
  <2>6. c < bd + HeadCells \/ bd + heap.mem[bd].size <= c
    BY <1>2, <1>5, <2>1, <2>2, <2>5, Geometry
  <2> QED
    BY <1>7, <2>1, <2>3, <2>6 DEF StoredIn
<1>15. ASSUME NEW i \in 0 .. CellsOf(req[src]) - 1
       PROVE  heap'.mem[dst + i] = heap.mem[src + i]
  <2>1. CellsOf(req[src]) \in Nat /\ CellsOf(req[src]) <= n - HeadCells
    <3> DEFINE m == req[src]
    <3> HIDE DEF m
    <3>1. (m + 8 - 1) \div 8 \in Nat /\ (m + 8 - 1) \div 8 <= n - HeadCells
      BY <1>2, <1>4, <1>5, <1>6, Geometry DEF CELL, m
    <3> QED
      BY <3>1 DEF CellsOf, CELL, m
  <2> DEFINE c == dst + i
  <2>2. i \in Nat /\ i < n
    BY <1>2, <1>15, <2>1, Geometry
  <2>3. /\ c \in Nat /\ dst <= c /\ c < dst + n /\ bd < c /\ c < bd + heap.mem[bd].size
        /\ src + (c - dst) = src + i
    BY <1>2, <1>5, <2>2, Geometry
  <2>4. bd + heap.mem[bd].size <= EndBlock
    BY <1>1, <1>2, BlockBounds DEF HeapOK, UsedBlocks
  <2>5. c \in Cells
    BY <1>2, <1>5, <2>3, <2>4, Geometry DEF Cells
  <2> HIDE DEF c
  <2>6. c \in Span(dst, n)
    BY <2>3, <2>5 DEF Span
  <2>7. g.mem[c] = heap.mem[src + i]
    BY <1>8, <2>3, <2>5, <2>6
  <2>8. heap'.mem[c] = g.mem[c]
    BY <1>2, <1>11, <2>3, <2>5
  <2> QED
    BY <2>7, <2>8 DEF c
<1>16. req'[dst] = call.need /\ dst \in live'
  BY <1>1, <1>2, <1>3
<1>17. Abstract!Move(src, dst, req'[dst])
  BY <1>2, <1>3, <1>13, <1>14, <1>15, <1>16 DEF Abstract!Move
<1> QED
  BY <1>2, <1>16, <1>17 DEF Abstract!Next

-----------------------------------------------------------------------------
(* The theorem *)

\* Every step of the kernel heap is one of the allocator's, or a stutter.
LEMMA NextImplements ==
  ASSUME WellBehaved, HInv, [Next]_vars
  PROVE  [Abstract!Next]_Abstract!vars
<1>1. CASE UNCHANGED vars
  BY <1>1, QuietStep DEF vars
<1> SUFFICES ASSUME Next, pc # "halt"
             PROVE  [Abstract!Next]_Abstract!vars
  <2>1. CASE Next /\ pc = "halt"
    <3>1. UNCHANGED vars
      BY <2>1 DEF Next, AllocatorStep, Boot, ScanFail, ScanNext, ScanTake, CopyAndFree,
                  kmalloc, kcalloc, kfree, krealloc, ClientWrite, Halt
    <3> QED
      BY <1>1, <3>1
  <2> QED
    BY <1>1, <2>1
<1>2. SInv
  BY DEF HInv, SInv, NeverPanics
<1>3. CASE Boot
  <2>1. live = {} /\ live' = live /\ req' = req
    BY <1>2, <1>3 DEF SInv, IInv, Boot
  <2>2. Abstract!Internal
    BY <2>1 DEF Abstract!Internal, Abstract!Keeps, Abstract!Owned
  <2> QED
    BY <2>2 DEF Abstract!Next
<1>4. CASE ScanFail \/ ScanNext
  BY <1>4, QuietStep DEF ScanFail, ScanNext
<1>5. CASE ScanTake
  BY <1>2, <1>5, TakeStep
<1>6. CASE CopyAndFree
  BY <1>2, <1>6, CopyImplements
<1>7. CASE \E n \in Requests : kmalloc(n)
  BY <1>7, QuietStep DEF kmalloc, EnterMalloc
<1>8. CASE \E k \in Counts, n \in Requests : kcalloc(k, n)
  BY <1>8, QuietStep DEF kcalloc, EnterMalloc, vars
<1>9. CASE \E p \in Freeable : kfree(p)
  <2>1. PICK p \in Freeable : kfree(p)
    BY <1>9
  <2>2. CASE p \in live
    BY <1>2, <2>1, <2>2, FreeImplements DEF kfree
  <2>3. CASE p \notin live
    <3>1. /\ p \in stale \cup {NULL} /\ pc = "idle"
      BY <2>1, <2>3 DEF Freeable, kfree
    <3>2. /\ \A q \in stale : FreeInside(heap, q - HeadCells)
          /\ req \in [Cells -> Nat] /\ \A c \in Cells \ live : req[c] = 0
      BY <1>2, <3>1, Running
    <3>3. /\ heap' = heap /\ live' = live \ {p}
          /\ req' = [c \in Cells |-> IF c = p THEN 0 ELSE req[c]]
      BY <2>1, <3>1, <3>2, BadFreeCaught
    <3>4. live' = live
      BY <2>3, <3>3
    <3>5. req' = req
      BY <2>3, <3>2, <3>3
    <3> QED
      BY <3>3, <3>4, <3>5, QuietStep
  <2> QED
    BY <2>2, <2>3
<1>10. CASE \E p \in live \cup {NULL}, n \in Resizes : krealloc(p, n)
  BY <1>2, <1>10, ReallocImplements
<1>11. CASE \E p \in live, d \in Data : ClientWrite(p, d)
  BY <1>2, <1>11, WriteImplements
<1>12. CASE Halt
  BY <1>12 DEF Halt
<1> QED
  BY <1>3, <1>4, <1>5, <1>6, <1>7, <1>8, <1>9, <1>10, <1>11, <1>12 DEF Next, AllocatorStep

(***************************************************************************)
(* simple_mm behind kmalloc, kcalloc, krealloc and kfree keeps what the    *)
(* abstract allocator promises: buffers never overlap, no buffer changes   *)
(* but by its client, and a buffer that krealloc moves keeps its contents. *)
(***************************************************************************)
THEOREM HeapImplementsAllocator ==
  ASSUME WellBehaved
  PROVE  Spec => Implements
<1>1. Init => Abstract!Init
  BY DEF Init, Abstract!Init
<1>2. HInv /\ [Next]_vars => [Abstract!Next]_Abstract!vars
  BY NextImplements
<1>3. Spec => []HInv /\ [][Next]_vars /\ Init
  BY InvariantHolds, PTL DEF Spec, HInv
<1> QED
  BY <1>1, <1>2, <1>3, PTL DEF Implements, Abstract!Spec
=============================================================================
