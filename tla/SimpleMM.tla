------------------------------ MODULE SimpleMM ------------------------------
(***************************************************************************)
(* The kernel heap: mm/simple_mm.c behind the kmalloc interface of         *)
(* mm/kmalloc.c, on the list of lib/mylib/list/list.h, with a client that  *)
(* allocates, fills, resizes and frees buffers in any order.               *)
(*                                                                         *)
(* The heap is an array of 8-byte cells (CELL = MIN_BLOCK_SIZE), the grain *)
(* of every block size and address in the allocator; an address is a cell  *)
(* index relative to the heap's base.  A cell is two 32-bit words.  Read   *)
(* as a header (or as a footer, which is the second word of a block's last *)
(* cell) they are magic and size_flag, so a cell is the record             *)
(*     magic     1 when the first word is SIMPLE_MM_MAGIC, else 0          *)
(*     size      EXTRACT_SIZE of the second word, in cells                 *)
(*     free      its FLAG_FREE bit                                         *)
(*     prevFree  its FLAG_PREV_FREE bit                                    *)
(* whatever the cell really holds: client data is a cell too.  The         *)
(* FLAG_POISONED bit is left out (no code reads it).  The list_node of a   *)
(* header is kept in heap.lst, at the header's address.                    *)
(***************************************************************************)
EXTENDS LinkedList

CONSTANTS
  HeapBytes,   \* the size handed to simple_init
  HeadCells,   \* BLOCK_HEAD_SIZE in cells: 3 on 64-bit targets, 2 on 32-bit
  SizeMod,     \* 2^w for the w bits of size_t
  Requests,    \* the sizes, in bytes, the client passes to kmalloc and kcalloc
  Resizes,     \* the sizes it passes to krealloc
  Counts,      \* the element counts it passes to kcalloc
  Data,        \* the cells it stores in its buffers
  GapRealloc,  \* may it ask krealloc for a size in (payload, payload + header]?
  BadFrees     \* may it free NULL, or a pointer it has already freed?

CELL == 8

ASSUME HeadAssumption == HeadCells \in Nat /\ HeadCells >= 2

(***************************************************************************)
(* The linker scripts give simple_init a heap of megabytes at a non-null   *)
(* base, so its two early returns are never taken: there is room for the   *)
(* first header, the end header and more than a header's worth of payload. *)
(***************************************************************************)
ASSUME HeapAssumption ==
  /\ HeapBytes \in Nat
  /\ SizeMod \in Nat
  /\ SizeMod % CELL = 0
  /\ CELL * (2 * HeadCells + 1) <= HeapBytes
  /\ HeapBytes < SizeMod

ASSUME ClientAssumption ==
  /\ Requests \subseteq 0 .. SizeMod - 1
  /\ Resizes \subseteq 0 .. SizeMod - 1
  /\ Counts \subseteq 0 .. SizeMod - 1
  /\ GapRealloc \in BOOLEAN
  /\ BadFrees \in BOOLEAN

-----------------------------------------------------------------------------
(* Addresses, cells and the heap record *)

SizeCells == SizeMod \div CELL            \* size_t arithmetic, in cells
HeapCells == HeapBytes \div CELL          \* size &= SIZE_MASK
EndBlock  == HeapCells - HeadCells        \* the size 0 header
Cells     == 0 .. HeapCells - 1

free_mem_list_head == -2
Nodes == Cells \cup {free_mem_list_head}

Bit  == {0, 1}
Cell == [magic : Bit, size : Nat, free : Bit, prevFree : Bit]

ASSUME DataAssumption == Data \subseteq Cell

Links == [Nodes -> Nodes \cup {NULL}]
Heap  == [mem : [Cells -> Cell], lst : [next : Links, prev : Links], blocks : SUBSET Cells]

Zero   == [magic |-> 0, size |-> 0, free |-> 0, prevFree |-> 0]
\* SIMPLE_MM_POISON: size_flag 0xAAAAAAAA has FLAG_FREE off, FLAG_PREV_FREE on.
Poison == [magic |-> 0, size |-> 357913941, free |-> 0, prevFree |-> 1]

\* The stores to a header: its size bits, its FLAG_FREE, its FLAG_PREV_FREE.
WithSize(c, s)     == [c EXCEPT !.size = s]
WithFree(c, f)     == [c EXCEPT !.free = f]
WithPrevFree(c, f) == [c EXCEPT !.prevFree = f]

\* The 32-bit store *ptr_footer = s: all of a cell's second word.
Footer(c, s) == [c EXCEPT !.size = s, !.free = 0, !.prevFree = 0]

\* A new header.
Header(s, f, pf) == [magic |-> 1, size |-> s, free |-> f, prevFree |-> pf]

\* Cells taken by n bytes.
CellsOf(n) == (n + CELL - 1) \div CELL

-----------------------------------------------------------------------------
(***************************************************************************)
(* The allocator's routines, as functions of a heap record                 *)
(*     mem     [Cells -> Cell]                                             *)
(*     lst     the free list                                               *)
(*     blocks  where the headers are, the end block's included: a history  *)
(*             component, written with each header and read by no routine  *)
(***************************************************************************)

\* align_requested_size, in cells; size + 7 wraps as size_t does.
align_requested_size(n) ==
  IF n < CELL THEN 1 ELSE CellsOf(n) % SizeCells

simple_init(h) ==
  [mem |-> [[c \in Cells |-> IF c \in HeadCells .. EndBlock - 1 THEN Poison ELSE h.mem[c]]
              EXCEPT ![0] = Header(EndBlock, 1, 0), ![EndBlock] = Header(0, 0, 1)],
   lst |-> list_add(list_init(h.lst, free_mem_list_head), 0, free_mem_list_head),
   blocks |-> {0, EndBlock}]

\* Seeded fault: the header's room is forgotten.
FitsWithoutHeader(h, b, want) == h.mem[b].free = 1 /\ h.mem[b].size >= want

\* The test of simple_malloc's loop: can block b hold want cells?
Fits(h, b, want) ==
  h.mem[b].free = 1 /\ h.mem[b].size >= (want + HeadCells) % SizeCells

Remaining(h, b, want) == (h.mem[b].size - HeadCells - want) % SizeCells

\* Seeded fault: the new block's footer is not written.
SplitWithoutFooter(h, b, want) ==
  LET rem == Remaining(h, b, want)
      new == (b + HeadCells + want) % SizeCells
  IN  [mem |-> [h.mem EXCEPT
                  ![new] = Header(rem, 1, 0),
                  ![b] = WithFree(WithSize(@, (want + HeadCells) % SizeCells), 0)],
       lst |-> list_add(list_del(h.lst, b), new, free_mem_list_head),
       blocks |-> h.blocks \cup {new}]

\* Lines 96-111: the rest of b becomes a free block of its own.
SplitBlock(h, b, want) ==
  LET rem == Remaining(h, b, want)
      new == (b + HeadCells + want) % SizeCells
  IN  [mem |-> [h.mem EXCEPT
                  ![new + rem - 1] = Footer(@, rem),
                  ![new] = Header(rem, 1, 0),
                  ![b] = WithFree(WithSize(@, (want + HeadCells) % SizeCells), 0)],
       lst |-> list_add(list_del(h.lst, b), new, free_mem_list_head),
       blocks |-> h.blocks \cup {new}]

\* Lines 90-91: b is taken off the list, whatever happens next.
TakeOff(h, b) ==
  [mem    |-> [h.mem EXCEPT ![b] = WithFree(@, 0)],
   lst    |-> list_del(h.lst, b),
   blocks |-> h.blocks]

\* Seeded fault: FLAG_FREE of the block handed out stays set.
WholeStillFree(h, b) ==
  LET next == b + h.mem[b].size
  IN  [mem    |-> [h.mem EXCEPT ![next] = WithPrevFree(@, 0)],
       lst    |-> list_del(h.lst, b),
       blocks |-> h.blocks]

\* Lines 112-123: b is handed out whole and the next header is told.
WholeBlock(h, b) ==
  LET next == b + h.mem[b].size
  IN  [mem    |-> [h.mem EXCEPT ![b] = WithFree(@, 0), ![next] = WithPrevFree(@, 0)],
       lst    |-> list_del(h.lst, b),
       blocks |-> h.blocks]

\* Seeded fault: a remainder with no room for data is split off.
MustSplitAnyRest(h, b, want) == Remaining(h, b, want) > 0

\* The pointer simple_malloc returns, and the heap it leaves, when b fits.
MustSplit(h, b, want) == Remaining(h, b, want) > HeadCells + 1

NextCorrupt(h, b) == h.mem[b + h.mem[b].size].magic # 1

TakenHeap(h, b, want) ==
  IF MustSplit(h, b, want) THEN SplitBlock(h, b, want)
  ELSE IF NextCorrupt(h, b) THEN TakeOff(h, b)
  ELSE WholeBlock(h, b)

TakenPtr(h, b, want) ==
  IF ~MustSplit(h, b, want) /\ NextCorrupt(h, b) THEN NULL ELSE b + HeadCells

\* Lines 183-185 of simple_free.
MarkFree(h, b) ==
  [mem    |-> [h.mem EXCEPT ![b] = WithFree(@, 1)],
   lst    |-> list_add(h.lst, b, free_mem_list_head),
   blocks |-> h.blocks]

\* Seeded fault: the next header is not told.
TellNobody(h, b) ==
  LET s == h.mem[b].size
  IN  [mem    |-> [h.mem EXCEPT ![b + s - 1] = Footer(@, s)],
       lst    |-> h.lst,
       blocks |-> h.blocks]

\* Lines 192-197: the next block is in use; tell it, and leave a footer.
TellNext(h, b) ==
  LET s == h.mem[b].size
  IN  [mem    |-> [h.mem EXCEPT ![b + s] = WithPrevFree(@, 1), ![b + s - 1] = Footer(@, s)],
       lst    |-> h.lst,
       blocks |-> h.blocks]

\* Lines 199-208: the next block is free; absorb it.
MergeNext(h, b) ==
  LET next == b + h.mem[b].size
      s    == h.mem[b].size + h.mem[next].size
  IN  [mem    |-> [h.mem EXCEPT ![b] = WithSize(@, s), ![b + s - 1] = Footer(@, s)],
       lst    |-> list_del(h.lst, next),
       blocks |-> h.blocks \ {next}]

\* Seeded fault: the block above is never absorbed.
JoinNever(h, b) == TellNext(h, b)

JoinNext(h, b) ==
  IF h.mem[b + h.mem[b].size].free = 1 THEN MergeNext(h, b) ELSE TellNext(h, b)

\* The block below b, found through its footer.
PrevBlock(h, b) == b - h.mem[b - 1].size

PrevCorrupt(h, b) ==
  LET p == h.mem[PrevBlock(h, b)]
  IN  p.magic # 1 \/ p.free # 1

\* Seeded fault: the absorbed block stays on the free list.
MergePrevStillListed(h, b) ==
  LET prev == PrevBlock(h, b)
      s    == h.mem[prev].size + h.mem[b].size
  IN  [mem    |-> [h.mem EXCEPT ![prev] = WithSize(@, s), ![prev + s - 1] = Footer(@, s)],
       lst    |-> h.lst,
       blocks |-> h.blocks \ {b}]

\* ensure_prev_block_coalescing, past its two checks.
MergePrev(h, b) ==
  LET prev == PrevBlock(h, b)
      s    == h.mem[prev].size + h.mem[b].size
  IN  [mem    |-> [h.mem EXCEPT ![prev] = WithSize(@, s), ![prev + s - 1] = Footer(@, s)],
       lst    |-> list_del(h.lst, b),
       blocks |-> h.blocks \ {b}]

Done(h)  == [heap |-> h, panic |-> FALSE]
Panic(h) == [heap |-> h, panic |-> TRUE]

\* Seeded fault: a block that is already free is freed again.
FreeUnchecked(h, p) ==
  LET b  == p - HeadCells
      h1 == MarkFree(h, b)
      h2 == JoinNext(h1, b)
  IN  IF p = NULL \/ h.mem[b].magic # 1 THEN Panic(h)
      ELSE IF NextCorrupt(h1, b) THEN Panic(h1)
      ELSE IF h2.mem[b].prevFree = 0 THEN Done(h2)
      ELSE IF PrevCorrupt(h2, b) THEN Panic(h2)
      ELSE Done(MergePrev(h2, b))

simple_free(h, p) ==
  LET b  == p - HeadCells
      h1 == MarkFree(h, b)
      h2 == JoinNext(h1, b)
  IN  IF p = NULL \/ h.mem[b].magic # 1 \/ h.mem[b].free = 1 THEN Panic(h)
      ELSE IF NextCorrupt(h1, b) THEN Panic(h1)
      ELSE IF h2.mem[b].prevFree = 0 THEN Done(h2)
      ELSE IF PrevCorrupt(h2, b) THEN Panic(h2)
      ELSE Done(MergePrev(h2, b))

\* The loop of simple_mm_get_free_memory: its iterator, and the sizes added up
\* so far, in cells, after i rounds.
FreeWalk(h) ==
  LET walk[i \in Nat] ==
        IF i = 0 THEN [it |-> h.lst.next[free_mem_list_head], total |-> 0]
        ELSE LET w == walk[i - 1]
             IN  IF w.it = free_mem_list_head THEN w
                 ELSE [it    |-> h.lst.next[w.it],
                       total |-> (w.total + h.mem[w.it].size) % SizeCells]
  IN  walk

\* There are fewer blocks than cells: the loop has ended by round HeapCells.
simple_mm_get_free_memory(h) == FreeWalk(h)[HeapCells].total

\* The cells of n bytes from p on, and the heap after a memset or a memcpy there.
Span(p, n) == {c \in Cells : p <= c /\ c < p + n}

Fill(h, S, d) == [h EXCEPT !.mem = [c \in Cells |-> IF c \in S THEN d ELSE @[c]]]

memcpy(h, dst, src, n) ==
  [h EXCEPT !.mem =
     [c \in Cells |-> IF c \in Span(dst, n) THEN @[src + (c - dst)] ELSE @[c]]]

-----------------------------------------------------------------------------
(* The state machine *)

VARIABLES
  heap,    \* the heap record
  pc,      \* "boot", "idle" (in the client), "scan" or "copy" (in a call), "halt"
  call,    \* the arguments and locals of the call in progress
  live,    \* the pointers the client holds
  req,     \* for a held pointer, the bytes the client was promised
  stale    \* the pointers freed since the last successful allocation

vars == <<heap, pc, call, live, req, stale>>

(***************************************************************************)
(* need is the number of bytes the caller means, a mathematical integer;   *)
(* want is what simple_malloc makes of it; it is the loop's iterator; src  *)
(* and dst are ptr and new_ptr of simple_realloc.                          *)
(***************************************************************************)
NoCall ==
  [fn |-> "none", need |-> 0, want |-> 0, it |-> NULL, src |-> NULL, dst |-> NULL]

Init ==
  /\ heap = [mem    |-> [c \in Cells |-> Zero],
             lst    |-> [next |-> [x \in Nodes |-> NULL],
                         prev |-> [x \in Nodes |-> NULL]],
             blocks |-> {}]
  /\ pc = "boot"
  /\ call = NoCall
  /\ live = {}
  /\ req = [c \in Cells |-> 0]
  /\ stale = {}

\* main calls simple_init.
Boot ==
  /\ pc = "boot"
  /\ heap' = simple_init(heap)
  /\ pc' = "idle"
  /\ UNCHANGED <<call, live, req, stale>>

\* Enter simple_malloc(n) for a caller that means need bytes.
EnterMalloc(fn, need, n, src) ==
  /\ call' = [fn |-> fn, need |-> need, want |-> align_requested_size(n),
              it |-> heap.lst.next[free_mem_list_head], src |-> src, dst |-> NULL]
  /\ pc' = "scan"
  /\ UNCHANGED <<heap, live, req, stale>>

\* Leave the allocator, back to the client.
Return == pc' = "idle" /\ call' = NoCall

kmalloc(n) ==
  /\ pc = "idle"
  /\ EnterMalloc("malloc", n, n, NULL)

\* Seeded fault: num * size is multiplied without a check.
NeverOverflows(k, n) == FALSE

\* simple_calloc returns NULL at once when num * size overflows size_t.
Overflows(k, n) == k # 0 /\ n > (SizeMod - 1) \div k

kcalloc(k, n) ==
  /\ pc = "idle"
  /\ IF Overflows(k, n) THEN UNCHANGED vars
     ELSE EnterMalloc("calloc", k * n, (k * n) % SizeMod, NULL)

\* The history of freed pointers, kept only for a client that may reuse them.
Freed(S, p) == IF BadFrees THEN S \cup {p} ELSE {}

FreePtr(p) ==
  LET r == simple_free(heap, p)
  IN  /\ heap' = r.heap
      /\ live' = live \ {p}
      /\ req' = [c \in Cells |-> IF c = p THEN 0 ELSE req[c]]
      /\ stale' = Freed(stale, p)
      /\ IF r.panic THEN pc' = "halt" /\ UNCHANGED call ELSE Return

kfree(p) ==
  /\ pc = "idle"
  /\ FreePtr(p)

(***************************************************************************)
(* simple_realloc compares the new size with the size of the whole block,  *)
(* header included.  A client with GapRealloc FALSE never asks for a size  *)
(* on which that differs from a comparison with the payload.               *)
(***************************************************************************)
InGap(p, n) ==
  LET s == heap.mem[p - HeadCells].size
  IN  CELL * (s - HeadCells) < n /\ n <= CELL * s

krealloc(p, n) ==
  /\ pc = "idle"
  /\ p # NULL => GapRealloc \/ ~InGap(p, n)
  /\ IF p = NULL THEN EnterMalloc("realloc", n, n, NULL)
     ELSE IF n = 0 THEN FreePtr(p)
     ELSE IF heap.mem[p - HeadCells].magic # 1 THEN UNCHANGED vars
     ELSE IF n <= CELL * heap.mem[p - HeadCells].size
          THEN /\ req' = [req EXCEPT ![p] = n]
               /\ UNCHANGED <<heap, pc, call, live, stale>>
     ELSE EnterMalloc("realloc", n, n, p)

\* list_for_each came back to the head: no block fits, NULL is returned.
ScanFail ==
  /\ pc = "scan"
  /\ call.it = free_mem_list_head
  /\ Return
  /\ UNCHANGED <<heap, live, req, stale>>

\* Seeded fault: the iterator goes back to the start of the list.
ScanRestarts ==
  /\ pc = "scan"
  /\ call.it # free_mem_list_head
  /\ ~Fits(heap, call.it, call.want)
  /\ call' = [call EXCEPT !.it = heap.lst.next[free_mem_list_head]]
  /\ UNCHANGED <<heap, pc, live, req, stale>>

ScanNext ==
  /\ pc = "scan"
  /\ call.it # free_mem_list_head
  /\ ~Fits(heap, call.it, call.want)
  /\ call' = [call EXCEPT !.it = heap.lst.next[@]]
  /\ UNCHANGED <<heap, pc, live, req, stale>>

(***************************************************************************)
(* The first block that fits is taken.  malloc returns it, calloc clears   *)
(* it first, and realloc goes on to copy unless the pointer is NULL.       *)
(***************************************************************************)
ScanTake ==
  /\ pc = "scan"
  /\ call.it # free_mem_list_head
  /\ Fits(heap, call.it, call.want)
  /\ LET h == TakenHeap(heap, call.it, call.want)
         p == TakenPtr(heap, call.it, call.want)
     IN  /\ heap' = IF call.fn = "calloc" /\ p # NULL
                    THEN Fill(h, Span(p, CellsOf(call.need)), Zero) ELSE h
         /\ IF p = NULL THEN Return /\ UNCHANGED <<live, req, stale>>
            ELSE IF call.src # NULL
            THEN /\ pc' = "copy"
                 /\ call' = [call EXCEPT !.dst = p]
                 /\ stale' = {}
                 /\ UNCHANGED <<live, req>>
            ELSE /\ Return
                 /\ live' = live \cup {p}
                 /\ req' = [req EXCEPT ![p] = call.need]
                 /\ stale' = {}

\* Seeded faults: the new block's size is copied; two headers too few are.
CopyNewBlock == heap.mem[call.dst - HeadCells].size
CopyShort    == heap.mem[call.src - HeadCells].size - 2 * HeadCells

\* How many cells simple_realloc copies: old_size, the whole block's.
CopyLen == heap.mem[call.src - HeadCells].size

\* Seeded fault: the old buffer is not freed.
CopyAndKeep ==
  /\ pc = "copy"
  /\ heap' = memcpy(heap, call.dst, call.src, CopyLen)
  /\ live' = (live \ {call.src}) \cup {call.dst}
  /\ req' = [req EXCEPT ![call.src] = 0, ![call.dst] = call.need]
  /\ stale' = Freed({}, call.src)
  /\ Return

\* The end of simple_realloc: memcpy, then simple_free of the old buffer.
CopyAndFree ==
  /\ pc = "copy"
  /\ LET h == memcpy(heap, call.dst, call.src, CopyLen)
         r == simple_free(h, call.src)
     IN  /\ heap' = r.heap
         /\ live' = (live \ {call.src}) \cup {call.dst}
         /\ req' = [req EXCEPT ![call.src] = 0, ![call.dst] = call.need]
         /\ stale' = Freed({}, call.src)
         /\ IF r.panic THEN pc' = "halt" /\ UNCHANGED call ELSE Return

\* The client stores d throughout the buffer it was promised at p.
ClientWrite(p, d) ==
  /\ pc = "idle"
  /\ heap' = Fill(heap, Span(p, CellsOf(req[p])), d)
  /\ UNCHANGED <<pc, call, live, req, stale>>

\* kernel_fatal_error ends in arch_halt's endless wait.
Halt == pc = "halt" /\ UNCHANGED vars

Freeable == live \cup (IF BadFrees THEN stale \cup {NULL} ELSE {})

AllocatorStep == Boot \/ ScanFail \/ ScanNext \/ ScanTake \/ CopyAndFree

Next ==
  \/ AllocatorStep
  \/ \E n \in Requests : kmalloc(n)
  \/ \E k \in Counts, n \in Requests : kcalloc(k, n)
  \/ \E p \in Freeable : kfree(p)
  \/ \E p \in live \cup {NULL}, n \in Resizes : krealloc(p, n)
  \/ \E p \in live, d \in Data : ClientWrite(p, d)
  \/ Halt

\* The allocator runs to the end of every call; the client may stop any time.
Spec == Init /\ [][Next]_vars /\ WF_vars(AllocatorStep)

-----------------------------------------------------------------------------
(* Properties *)

Calls ==
  [fn : {"none", "malloc", "calloc", "realloc"}, need : Nat, want : Nat,
   it : Nodes \cup {NULL}, src : Cells \cup {NULL}, dst : Cells \cup {NULL}]

\* The type of every variable.
TypeOK ==
  /\ heap \in Heap
  /\ pc \in {"boot", "idle", "scan", "copy", "halt"}
  /\ call \in Calls
  /\ live \subseteq Cells
  /\ req \in [Cells -> Nat]
  /\ stale \subseteq Cells \cup {NULL}

FreeBlocks(h) == {b \in h.blocks : h.mem[b].free = 1}
UsedBlocks(h) == (h.blocks \ {EndBlock}) \ FreeBlocks(h)

\* The buffers in use: the client's, and the one krealloc is about to return.
Holders == live \cup (IF pc = "copy" THEN {call.dst} ELSE {})

\* The room for data in the buffer at p, in cells.
Payload(h, p) == h.mem[p - HeadCells].size - HeadCells

(***************************************************************************)
(* Walking from header to header by size, from the base, visits intact     *)
(* headers and ends at the end block: simple_free and simple_malloc        *)
(* compute a neighbour's address from a size and trust what they find.     *)
(***************************************************************************)
Tiled(h) ==
  /\ 0 \in h.blocks
  /\ EndBlock \in h.blocks
  /\ h.blocks \subseteq 0 .. EndBlock
  /\ \A b \in h.blocks : h.mem[b].magic = 1
  /\ h.mem[EndBlock].size = 0
  /\ h.mem[EndBlock].free = 0
  /\ \A b \in h.blocks \ {EndBlock} :
       /\ h.mem[b].size > HeadCells
       /\ b + h.mem[b].size \in h.blocks
       /\ \A c \in h.blocks : c <= b \/ b + h.mem[b].size <= c

(***************************************************************************)
(* Boundary tags: a header's FLAG_PREV_FREE is its predecessor's           *)
(* FLAG_FREE, and the footer below such a header gives the predecessor's   *)
(* size.  (The end block is never freed, so the footer below it is never   *)
(* read; simple_init does not write it.)                                   *)
(***************************************************************************)
Tagged(h) ==
  /\ h.mem[0].prevFree = 0
  /\ \A b \in h.blocks \ {EndBlock} :
       LET next == b + h.mem[b].size
       IN  /\ h.mem[next].prevFree = h.mem[b].free
           /\ h.mem[b].free = 1 /\ next # EndBlock
                => h.mem[next - 1].size = h.mem[b].size

\* simple_free leaves no two free blocks side by side.
Coalesced(h) ==
  \A b \in FreeBlocks(h) : h.mem[b + h.mem[b].size].free = 0

\* The free list links exactly the free blocks.
Listed(h) == WellLinked(h.lst, FreeBlocks(h) \cup {free_mem_list_head})

HeapOK(h) == Tiled(h) /\ Tagged(h) /\ Coalesced(h) /\ Listed(h)

(***************************************************************************)
(* Between two of its steps the allocator's structure is whole: headers    *)
(* tile the heap, boundary tags agree with headers, free neighbours are    *)
(* merged and the free list links the free blocks, whatever the client     *)
(* wrote into its buffers.                                                 *)
(***************************************************************************)
HeapIntact == pc \in {"idle", "scan", "copy"} => HeapOK(heap)

(***************************************************************************)
(* Every block in use is a buffer the client holds, or the one krealloc is *)
(* about to return: no path of kmalloc, kcalloc or krealloc loses a block  *)
(* or hands one out twice.                                                 *)
(***************************************************************************)
NoLeak ==
  pc \in {"idle", "scan", "copy"} =>
    {b + HeadCells : b \in UsedBlocks(heap)} = Holders

(***************************************************************************)
(* A held buffer is at least as long as the client was promised by the     *)
(* last kmalloc, kcalloc or krealloc that returned it.                     *)
(***************************************************************************)
CapacityHonoured ==
  pc # "halt" => \A p \in live : req[p] <= CELL * Payload(heap, p)

(***************************************************************************)
(* align_requested_size rounds up: the cells that simple_malloc looks for  *)
(* hold the bytes its caller asked for.                                    *)
(***************************************************************************)
RoundedUp == pc = "scan" => call.need <= CELL * call.want

\* A client that frees only what it holds never trips a corruption check.
NeverPanics == pc # "halt"

(***************************************************************************)
(* Once everything is freed the heap is one free block again, whatever the *)
(* order of the frees (the last phase of init/test.c expects it).          *)
(***************************************************************************)
Unified ==
  pc = "idle" /\ live = {} =>
    /\ heap.blocks = {0, EndBlock}
    /\ heap.mem[0].size = EndBlock
    /\ heap.mem[0].free = 1

\* The sizes of the blocks in S, added up by address.
SumSizes(h, S) ==
  LET sum[k \in Nat] ==
        IF k = 0 THEN 0
        ELSE sum[k - 1] + (IF k - 1 \in S THEN h.mem[k - 1].size ELSE 0)
  IN  sum[HeapCells]

(***************************************************************************)
(* The free memory simple_mm_get_free_memory reports and the blocks in use *)
(* add up to the heap: its walk visits every free block exactly once, and  *)
(* is back at the head before it could have counted a cell twice.          *)
(***************************************************************************)
FreeMemoryExact ==
  pc \in {"idle", "scan", "copy"} =>
    /\ FreeWalk(heap)[HeapCells].it = free_mem_list_head
    /\ simple_mm_get_free_memory(heap)
         + SumSizes(heap, heap.blocks \ FreeBlocks(heap)) = EndBlock

(***************************************************************************)
(* simple_realloc copies the whole block size from the old payload, a      *)
(* header further than the payload goes, yet stays inside the heap, and    *)
(* inside the new buffer.                                                  *)
(***************************************************************************)
CopyInBounds ==
  pc = "copy" =>
    /\ call.src + CopyLen <= HeapCells
    /\ CopyLen <= Payload(heap, call.dst)

(***************************************************************************)
(* Freeing NULL, or freeing again a pointer since whose free there was no  *)
(* allocation, is caught by simple_free's checks before it changes the     *)
(* heap, also when the first free merged the block into a neighbour.       *)
(***************************************************************************)
DoubleFreeCaught ==
  [][\A p \in stale \cup {NULL} :
       kfree(p) => pc' = "halt" /\ heap' = heap]_vars

\* Every call returns (or halts the machine): the scan of the list ends.
CallsReturn == pc \in {"boot", "scan", "copy"} ~> pc \in {"idle", "halt"}

(***************************************************************************)
(* The kernel heap implements the abstract allocator: buffers never        *)
(* overlap, splits, merges, footers and copies never touch a buffer that   *)
(* is in use, and krealloc carries the old contents over.                  *)
(***************************************************************************)
Abstract == INSTANCE Allocator WITH store <- heap.mem

Implements == Abstract!Spec

-----------------------------------------------------------------------------
(***************************************************************************)
(* The inductive invariant.  HeapIntact is preserved because the client    *)
(* stores only inside payloads (CapacityHonoured, Held) and because a call *)
(* in progress works on a block of the free list (CallOK); that in turn    *)
(* needs the requests not to wrap around size_t (NoWrap).                  *)
(***************************************************************************)

\* Every size that reaches simple_malloc leaves room for the rounding and
\* the header below 2^w.
NoWrap ==
  /\ \A n \in Requests \cup Resizes : n + CELL * (HeadCells + 1) <= SizeMod
  /\ \A k \in Counts, n \in Requests :
       ~Overflows(k, n) => k * n + CELL * (HeadCells + 1) <= SizeMod

\* Held buffers and blocks in use are the same thing.
Held ==
  /\ \A p \in Holders : p - HeadCells \in UsedBlocks(heap)
  /\ \A b \in UsedBlocks(heap) : b + HeadCells \in Holders

\* A request of simple_malloc that neither wraps nor falls short.
GoodWant ==
  /\ call.want >= 1
  /\ call.want + HeadCells < SizeCells
  /\ call.need <= CELL * call.want

\* The old buffer of a krealloc that has to move is held, and too short.
GoodSrc ==
  /\ call.src \in live
  /\ CELL * heap.mem[call.src - HeadCells].size < call.need

CallOK ==
  /\ pc = "scan" =>
       /\ call.it \in FreeBlocks(heap) \cup {free_mem_list_head}
       /\ GoodWant
       /\ call.src # NULL => GoodSrc
       /\ call.fn = "calloc" => call.src = NULL
  /\ pc = "copy" =>
       /\ GoodSrc
       /\ call.dst \in Cells \ live
       /\ call.need <= CELL * Payload(heap, call.dst)

\* The client was promised nothing at an address it does not hold.
Unpromised == \A c \in Cells \ live : req[c] = 0

\* A cell of a free block, below its last HeadCells cells, where FLAG_FREE is set.
FreeInside(h, c) ==
  /\ c \in Cells
  /\ h.mem[c].free = 1
  /\ \E f \in FreeBlocks(h) : f <= c /\ c + HeadCells < f + h.mem[f].size

(***************************************************************************)
(* The header behind a freed pointer still says free: it is the header of  *)
(* a free block, or was absorbed by one and lies too far below the block's *)
(* footer to be overwritten.                                               *)
(***************************************************************************)
StaleFree ==
  pc \in {"idle", "scan", "copy"} => \A p \in stale : FreeInside(heap, p - HeadCells)

IInv ==
  /\ TypeOK
  /\ pc \in {"idle", "scan", "copy"} => HeapOK(heap) /\ Held
  /\ pc = "boot" => live = {} /\ stale = {}
  /\ CapacityHonoured
  /\ CallOK
  /\ Unpromised
  /\ StaleFree
=============================================================================
