# A TLA+ model of QemuRTOS

QemuRTOS is a small kernel for QEMU's `virt` machines. The configured build
(`include/generated/autoconf.h`) is aarch64 with the PL011 driver, the
`simple_mm` heap, its debug messages and assertions; the RISC-V code builds from
the same tree. There are no threads: one hart runs `main`, interrupts and
exceptions come on top of it, and a UART works beside it.

## The system and its parts

| part | state | operations | talks to |
|---|---|---|---|
| heap, `mm/` | the heap's memory (headers, footers, payloads), the free list | `kmalloc kcalloc krealloc kfree`, the free-memory count | list, `k_panic` |
| list, `lib/mylib/list` | next and prev of each node | `list_init list_add list_del`, iteration | - |
| platform bus, `kernel/device.c` | the list of devices, their states and drivers | enumerate, match and probe, get a device | device tree, heap, drivers |
| serial drivers, `drivers/serial` | private data of a device, the UART's registers | `probe`, `put_char` | heap, device tree |
| console and `printk`, `kernel/printk.c` | `system_console`, the parser's place and fields | `console_init`, `printk` | bus, drivers |
| exceptions, `arch/arm64` | registers, PSTATE.I, ELR, SPSR, the stack | vectors, handlers, `irq_lock`/`irq_unlock`, `k_panic`, `arch_halt` | everything |
| device trees, `lib/libfdt` | the blob: header, reservations, structure, strings, in a buffer | write in sequence, read, edit, pack, apply overlays | bus, drivers |
| start-up, `chip/`, `init/main.c` | - | set up EL1, stack, vectors; the boot order | all of the above |
| RISC-V traps and CPU access, `arch/riscv` | the trap frame, nesting count, ISR stack | trap entry and exit, ecall table, `mcycle` | - |

What is hard in it:

* the heap keeps its structure in the memory it hands out. A footer, a flag or a
  link that is wrong after some order of splits and merges shows many calls
  later; a client may free twice; sizes may wrap; the allocation inside
  `krealloc` may fail;
* booting has a failure path at every allocation and probe, and depends on a
  device tree nobody in the kernel controls;
* interrupts come between any two instructions, also inside the vectors, and
  critical sections nest;
* `printk` has many flags that interact, and waits for a device per character;
* libfdt keeps three blocks in one buffer, moves them about with every edit and
  finds its way by offsets, so an error shows only in a later lookup; any call may
  run out of room half way; an overlay is merged in seven passes over two blobs
  whose phandles were chosen apart.

`PROJECT.json` lists these hazards at their lines, with the properties that
would catch them.

## Modules

| module | models |
|---|---|
| `LinkedList` | `list.h`, as pure operators on next/prev functions |
| `SimpleMM` | the heap behind `kmalloc`, and its client |
| `Allocator` | the abstract specification: what a heap promises its clients |
| `PlatformBus` | `main`'s boot sequence after the heap: bus, probes, console choice |
| `Arm64Trap` | vectors, handlers, interrupt locks, panic |
| `Printk` | the format parser, the engines, `console_putc` and a UART; the 64-bit division of `helper.c` |
| `Fdt` | a blob in memory; `fdt.c`: header checks, tags, the walk over nodes |
| `FdtRo` | `fdt_ro.c`, `fdt_check.c`, the reading half of `fdt_addresses.c` |
| `FdtSw` | `fdt_sw.c`: writing a tree in sequence |
| `FdtRw` | `fdt_rw.c`, `fdt_wip.c`, `fdt_empty_tree.c`: editing a tree |
| `FdtOverlay` | `fdt_overlay.c` |
| `FdtMeaning` | what the bytes of a blob say, independently of libfdt's walks |
| `DeviceTree` | the abstract specification: a tree and the changes a call may make to it |
| `FdtLife` | one blob and its caller: written, opened, edited, packed |
| `FdtApply` | a base tree and overlays applied to it |
| `MC...` | instances for TLC |
| `Recursion` | lemmas: induction over the natural numbers, and that functions defined by recursion exist |
| `SimpleMMHeapProofs` | lemmas: what each list and heap operation keeps, and what the walk over the free list counts |
| `SimpleMMProofs`, `SimpleMMRefinementProofs` | the heap's invariant, its safety and action properties; that it implements `Allocator` |
| `Arm64TrapProofs`, `PlatformBusProofs`, `PrintkProofs`, `FdtProofs` | theorems about the module of that name; the last about `FdtLife`: writing, and edits that fail |

Definitions called "seeded fault" are not part of any specification. Each is a
plausible mistake in the definition after it, kept to show that the property
named for it in `PROJECT.json` ("mutants") notices the mistake.

### SimpleMM

The heap is an array of 8-byte cells (`MIN_BLOCK_SIZE`), the grain of every
address and size. A cell is what the allocator would read there as a header or
footer: whether the magic word is there, the size, and the two flags. Data that
the client stores is a cell of the same form, so a client that imitates a header
is part of the model. The list nodes of headers are kept apart in `heap.lst`;
`heap.blocks` records where blocks begin, and only properties use it to say what
the memory should look like.

`kmalloc`, `kcalloc` and `krealloc` start a call; `ScanNext`, `ScanTake` and
`ScanFail` are the loop of `simple_malloc`; `CopyAndFree` is the end of
`simple_realloc`; `kfree` is a step. The client may also write any of its cells
(`Data`). `Halt` is a panic: on arm64 `k_panic` ends in `arch_halt` (see
`Arm64Trap`). `size_t` arithmetic is modulo `SizeMod`.

Left out: `FLAG_POISONED`, which nothing reads; messages; the early returns of
`simple_init` for a null or tiny heap, which the linker scripts exclude
(`HeapAssumption`); and that `size_flag` is 32 bits wide while sizes are
`size_t`, so heaps are below 4 GiB.

Three constants say how well the client behaves: `Requests` may contain sizes
that wrap, `GapRealloc` allows `krealloc` to sizes between the payload and the
whole block, and `BadFrees` allows `NULL` and pointers that were freed before, with no
allocation since.

### PlatformBus

The device tree is data that `Init` picks from `Trees` and no step changes: nodes
with a name, the same name cut to 31 characters, the strings of `compatible`,
a status and a `reg` of some cells; and `stdout-path`. libfdt appears
as what the code gets from it: the length that `fdt_getprop` gives for `reg`
(`RegLen`) and the answer of `fdt_node_check_compatible` (`Matches`); the `Fdt`
modules are about libfdt itself. Any `kcalloc` may fail. Enumeration, matching and
probing go one node or driver at a time.

A `stdout-path` is the sequence of its parts between slashes, as long as it is in
the tree (`path`) and as long as `console_init`'s 128 bytes hold it (`path127`). A
path that is cut leads to whatever bears the name left at its end, or nowhere; one
that ends in a slash is looked up whole and never found, so the kernel panics
although the node is there. `ChosenConsole` says both, beside what it says of the
paths that fit. The model takes the colon of a baud rate off both texts, since
the code does so right after the cut.

### Arm64Trap

The processor is at a place (`pc`): the kernel's code, a handler, or a step of the
vectors. The `printk` dumps of `do_sync_el1_spx` and of the fatal-error path are part
of the step that calls them, so a fault inside one of them is not seen. Registers that `kernel_entry` and `kernel_exit` treat alike are one
register of the model. An interrupt may come at every step while PSTATE.I is
clear. `open` counts the `irq_lock`s that each context has not undone; `saved`
is a history variable with the interrupted contexts.

### Printk

A format is a line of text, one directive and the text after it. The directive is
a record, rendered into the format that the parser then reads, so that its output
can be compared with what ISO C says of the record, without the parser.

A format may end inside its directive, as `%` and `%5` do: its conversion is then
the NUL. The `default` case prints it as a character and the loop steps over
it, so `printk` reads on behind the format up to the next NUL (`kernel/printk.c:322`
and `:229`). `after` is then what memory holds there: any text but one with a `%`,
which would make `printk` take arguments that nobody passed. `%c` of 0 puts a NUL,
too. `TypeOK` says that these are the only ways past the end of a format and the
only NULs on the wire.

Arguments are bits; `va_arg` takes as many as the type has. Characters go through
`console_putc` and the driver's `put_char` into a holding register that the UART
empties in its own time. `NumBuf` divides with `udivdi3` and `umoddi3`, the
shift-and-subtract helpers that 32-bit targets link. `Char` is the set of
characters that a caller may print, `LLBits` the bits of `long long` (64 in the
code), `IntMod` and `LongMod` the ranges of the shorter types. Width and
precision are numbers that an `int` holds; the parser does not guard against
others, and ISO C does not ask for them.

### Fdt, FdtRo, FdtSw, FdtRw

A blob is a record: the fields of its header, and `mem`, a cell per byte of its
buffer. A 32-bit field is whole in the last of its four cells and 0 in the others,
as a small big-endian number is; the names libfdt itself looks for are strings of
one symbol. All sizes, alignments and offsets are the real ones, since who
overwrites whom depends on them. Writing outside the buffer makes `mem`'s domain
larger, which `WritesInBuffer` sees; reading outside of it stops TLC.

Each C function is an operator of the same name. A reading function returns its
result, or a record where the code also returns by reference; a changing function
returns `[ret |-> ..., fdt |-> ...]`, the blob as the code leaves it, also when it
fails. Loops are recursive functions. All checks are compiled in
(`FDT_ASSUME_MASK` is 0). Phandles are modulo `PhandleMod` (2^32 in the code), so
that they can run out.

Left out: blobs that are not aligned, versions before 16 (paths as node names,
values aligned to 8), and wrappers that only add `strlen` or a byte order.

### FdtLife and DeviceTree

`FdtLife` has one action per libfdt call that changes a blob, for every node and
small sets of names and values; `granted` is the room the caller has said the
buffer has, and `Budget` bounds the changes other than begin, end and finish. `view`
is what `FdtMeaning` decodes from the new blob after each step; it is computed from `fdt`
and holds nothing of its own. `ForeignLayout` stands for a tree that came from
another program: version 16, strings before the structure.

The caller keeps libfdt's contract, which the guards state: properties before
subnodes and each name once while writing, nodes with different names, no
renaming to the name of a sibling, edits on a finished tree whose nodes are all
ended. Writing may fail at any call, and calls out of turn (`fdt_resize` of a finished
tree, `fdt_finish` with open nodes) are tried too.

`DeviceTree` knows a stage, a set of paths with their properties, the reservations
and the stack of open nodes, and no bytes. Its actions are what a call promises;
`Implements` says that each step of `FdtLife` is one of them or changes nothing.

### FdtOverlay and FdtApply

`fdt_overlay_apply` is an operator that takes both blobs through the seven passes
of the code and returns both. `Apply` is one step, since nothing runs between the
passes, but any pass may be the one that fails. Each tree comes twice: as the calls
that write it (`Writing`), and as what its author means by it (`Intent`: nodes,
values, cells that refer to a node, labels, aliases, with paths for phandles). The
properties compare the merged blob with the intents. `FdtOverlay` uses recursive
operators where the code recurses on nodes, so nothing is proved about it.

## Runs

| run | bounds | shows |
|---|---|---|
| `heap_fragment` | 64-bit headers (3 cells), 19 cells, requests of one and three cells, pointers freed again | every order of allocating and freeing: `HeapIntact`, `Unified`, `FreeMemoryExact`, `CallsReturn`, `DoubleFreeCaught` |
| `heap_client` | 2-cell headers, 12 cells, one request size, a resize, `kcalloc` with a count whose product wraps, client data that looks like a free header | `IInv` (of which `HeapIntact` is a part), `NoLeak`, `CapacityHonoured`, `NeverPanics`, `CopyInBounds`, and that the heap implements `Allocator` |
| `bus_boot` | up to three nodes of every kind that the code tells apart, two drivers, failing allocations; a `stdout-path` to each node, whole, cut inside the name or before it, or with a slash at its end, an alias, a lone slash, an empty one or none | `BusMirrorsTree`, `NoProbeLeaks`, `FirstDriverWins`, `ConsoleUsable`, `ChosenConsole`, `BootEnds` |
| `trap_context` | two register values, three contexts, one section | `Transparent`, `SectionsAtomic`, `StackBalanced`, `PanicHalts`, `InterruptsEnd` |
| `printk_format` | 6-bit int, 10-bit long and long long; about 2200 directives, `%c` of 0 and formats without an end among them, no console and each driver | `FormatsAsISO`, `NewlinesReturn`, `PrintkReturns` |
| `fdt_life` | a buffer of 200 bytes of which 68, 100 or all are granted; two node names, one the other with a unit address; three properties, one name the end of another; one reservation; three changes | `WritesInBuffer`, `LayoutSound`, `SoundWhenBalanced`, `NavigationAgrees`, `LookupsAgree`, `FailuresLeaveNoTrace`, and that libfdt implements `DeviceTree` |
| `fdt_overlay` | 640 bytes; three bases (one with high phandles, one with aliases and no symbols), seven overlays (two malformed), seven amounts of room, 14 phandles | `OnlyWholeOverlays`, `ReferencesHold`, `SymbolsResolve`, `PhandlesKept` |

Why the bounds are enough: three blocks with both neighbours free, one and none
are what `simple_free` tells apart, and the fragmenting run has room for three
blocks and a rest that is too small to split; the client run has room for two
blocks, so a resize both succeeds and fails. Three nodes give a device before
and after the one of interest, and two with one name. Three contexts allow an
interrupt, a panic in its handler and the kernel under both; the vectors do not
depend on the depth. In `fdt_life`, 68 bytes are enough for a header and reservations only and 100 for
a tree that ends in the middle of an edit, so that every call also fails for want
of room; three changes are a property added, one removed and one added again, or a
node in the middle of two others taken out. The overlays refer to the base, to
themselves and to each other, bring a node a phandle that it has, add the same
node twice, and target by path and by phandle. Two are malformed: one has a local
fixup for a property that it has not, one a fragment without target. With these,
the orders and the rooms, each pass is the one that fails somewhere, except the
first, the search for the highest phandle, which fails only on a damaged base. In
`two` the nodes have such sizes that making room for a symbol moves another node
to where the target was, so that a stale offset gives a wrong label and no error. The directives take each flag and the pairs that the code
lets interact, widths and precisions of one and two digits, and the boundary
values of each type.

Five runs show the code doing something else than a comment or test says:

* `realloc_gap`: `krealloc` compares the new size with the whole block, header
  included ("If the new size is smaller or equal, we can just return the same
  pointer", `mm/simple_mm.c:256`), so a buffer can be promised that is too small;
* `malloc_wrap`: "Rounding up to %zu." (`mm/simple_mm.c:27`) rounds a size near
  `SIZE_MAX` down to 0;
* `bus_encodings`: "Support both 1-cell (32-bit) and 2-cell (64-bit) encodings"
  (`drivers/serial/ns16550.c:130`), but one address and one size cell are read as
  a 64-bit address;
* `trap_nested_lock`: "Unlock interrupts using the previously saved state."
  (`include/kernel/irq.h:37`), but arm64's `irq_unlock` ignores the key;
* `printk_prefix`: "Automatically attaches '0x'" (`init/test_printk.c:14`), but the
  prefix is decided after the number has been divided down to 0.

`FormatsAsISO` leaves out the directives on which `printk` is known to differ
from ISO C (`Agreed`): `#` on a hexadecimal number, zero with precision zero
(printed as `0`, ISO C prints nothing), the width of `%c`, `%p`, which ISO C
leaves to the implementation, and a negative number printed with `z` where
`long` is shorter than `long long` (`%zd` takes the argument as unsigned, so on
RV32 the sign is lost). The PL011 driver adds a carriage return to the one
`console_putc` sends, so lines end in `\r\r\n`; `NewlinesReturn` asks for one at
least.

`Transparent`, `InterruptsEnd` and `SectionsAtomic` are checked with
`HandlerLocks` FALSE and one level of sections, as the code stands: its handler
locks nothing. A handler that used `irq_lock` and `irq_unlock` would be left with
interrupts open, and an interrupt in `kernel_exit` would then overwrite
ELR_EL1.

What the libfdt properties say:

* `LayoutSound`, `WritesInBuffer`: at every moment the state has its types (`TypeOK`;
  a finished tree has no negative offset left), and the blocks lie apart, inside what
  the header claims, inside what was granted;
* `SoundWhenBalanced`: `fdt_check_full` accepts a finished tree exactly if all nodes
  are ended. `fdt_finish` itself accepts both;
* `NavigationAgrees`, `LookupsAgree`: each walk and lookup finds what the decoded tree
  has. A path leads to its node unless a sibling answers to a name in it, too: `/n`
  is followed to the first of `n` and `n@1`, without turning back;
* `FailuresLeaveNoTrace`: whatever call is tried in a reachable state, if it fails the
  blob is the same to the byte;
* `OnlyWholeOverlays`, `ReferencesHold`, `SymbolsResolve`, `PhandlesKept`: see
  `FdtApply`.

`console_init` looks for a node of the name `stdout-path` has, and never for an alias
of it, though a comment says "by node name or alias" (`kernel/printk.c:60`);
`PlatformBus` models it so, and `ChosenConsole` is about names.

Deadlock is checked in every run but `fdt_life`, whose caller may be out of budget;
where else the system may rest, an action says so (`Rest`, `arch_halt`, `Halt`).

## Fairness

Only steps of the hart inside a call, and of the UART, are fair; the client, the
kernel's own code and interrupts never have to happen. `SimpleMM`: weak fairness of
the steps of a call, `PlatformBus`: of the boot steps, `Arm64Trap`: of the vectors and
handlers, since nothing schedules the single hart away. An interrupt storm cannot
starve the vectors, which run with interrupts masked. `Printk`: of the next step of
the hart or the UART; the wait for the UART relies on QEMU's UART sending
what it holds.

## What is proved

Each theorem holds for every value of the constants that the named assumptions
of its module allow; TLC evaluates those assumptions in the runs, and it has
checked each inductive invariant on the runs' instances. Definitions that only
an invariant needs stand at the end of the module they are about, or at the
head of the proof module.

### The heap

For every heap size, header size, set of requests and client data, and for a
client that is `WellBehaved` (no request wraps, no resize into the gap);
`BadFrees` may be TRUE, so the client may free a pointer twice:

* `InvariantHolds`: `IInv` always holds, and the machine halts only because
  of a bad free;
* `TypeCorrect`, `HeapStaysIntact`, `NothingLeaks`, `FreedHeapIsWhole` (`Unified`),
  `CapacityIsHonoured`, `CopyStaysInBounds`, and `NoPanic` for a client without
  bad frees;
* `FreeMemoryIsExact`: what `simple_mm_get_free_memory` counts and the blocks in
  use make up the heap;
* `DoubleFreesAreCaught`: freeing `NULL`, or a pointer that was freed before with no
  allocation since, panics and leaves the heap as it is;
* `HeapImplementsAllocator`: `Spec => Implements`, with `heap.mem` for the store.

The runs `realloc_gap` and `malloc_wrap` show that `WellBehaved` is needed.

`HeapIntact` alone is not inductive: the client's writes preserve it only because
they stay inside payloads, which needs `CapacityHonoured` and that live pointers
are those of blocks in use (`Held`); and a call in progress must be at a block of
the free list, with a want that did not wrap (`CallOK`). `IInv` is the conjunction.
`HeapOK` has four parts, each with its lemma per heap operation in
`SimpleMMHeapProofs`: blocks tile the heap (`Tiled`), footers and `PREV_FREE` flags
agree with headers (`Tagged`), no free neighbours (`Coalesced`), and the free
list links exactly the free blocks (`Listed`). Inserting and deleting keep next
and prev inverse to each other and the list one cycle (`ListAddLinks`,
`ListDelLinks`). One cycle means here that no proper part of the list is closed
under next, which needs no recursion to say and gives the induction along the
list: the nodes a walk has met are all of them once it is back at the head.

`FreeMemoryIsExact` is that induction. After i rounds the walk has met i blocks,
all different, and its total is the sum of their sizes (`WalkExact`); the sum of
the sizes of any set of blocks is defined over addresses, splits over disjoint
sets and is the whole heap for all blocks, since they tile it (`SumSplit`,
`SumTiled`); and what is below the heap's size does not wrap.

A double free is caught because the old header still says free: it is the header
of a free block, or was absorbed by one and lies too far below that block's footer
to be overwritten (`StaleFree`). Merges and splits keep this, since only handing
the cells out again takes the pointer from the stale ones.

The refinement needs frame lemmas: a buffer lies in the payload of its own block
in use (`RegionInBlock`), and taking a block, freeing one and the copy of `krealloc`
write to no other payload. A step of the scan changes nothing the abstract
allocator sees.

### The other components

* `Arm64TrapProofs`, with `~HandlerLocks` as the code stands, for every register
  contents, number of contexts and number of sections: `TrapInvariant`,
  `TrapTypeCorrect`, `StackStaysBalanced`, and the action property
  `InterruptsAreTransparent`; and `SectionsStayAtomic` for sections that do not nest
  (`MaxSections <= 1`; `trap_nested_lock` shows why). `Transparent` is about one
  `eret`, but what it restores was saved many steps before: `TrapInv` relates, for
  each place in the vectors, which part of the interrupted context is in
  registers, on the stack or in ELR and SPSR (`ContextKept`), and that handlers
  nest only as the mask allows (`Nesting`).
* `PlatformBusProofs`, for every array of the two drivers and every set of trees:
  `BusAlwaysMirrorsTree`, `ProbesNeverLeak`, `FirstDriverAlwaysWins`,
  `ConsoleAlwaysUsable`, `ChosenConsoleIsFound`, and the types. `BusInv` follows the
  two loops: which nodes have been enumerated, which devices are settled, that
  allocations held are the devices and the private data of the ready ones, and how
  far the search for a console got.
* `PrintkProofs`: see below.
* `FdtProofs`, `WritersStayInBuffer`: for every buffer, every grant, and names and
  values of any length (property names below 64 bytes), as long as nobody calls
  `fdt_finish`, `WritesInBuffer` holds and the structure that grows up does not meet
  the strings that grow down (`WriterFits`). Calls may come in any order, out of
  turn, and fail. The bound on names is `fdt_add_string_`'s: it subtracts before it
  compares, in `uint32_t`, so its test is only meaningful for a name that fits
  in the buffer at all; the header and the end of the reservations are 64 bytes
  that the strings never reach. `fdt_finish` is left out since it walks the tree.
* `FdtProofs`, `FailedEditsLeaveNoTrace`: in every state with a sound layout
  (`LayoutSound`, which `fdt_life` checks and the theorem assumes), for every node,
  name and value, `FailuresLeaveNoTrace`. Each call is shown to be `Careful`: it
  returns no error, or the blob has the same header and the same bytes in use. For
  most calls the failing ones have not written anything (`SplicesFail`). Two need
  more: `fdt_add_property_` has put a name behind the strings when the property does
  not fit, and taking it off again must restore every byte in use
  (`StringRolledBack`); `fdt_add_subnode` returns the offset it has written at, which
  is no error because the walk over the parent's properties only goes up and ends
  (`AfterPropertiesFacts`, from `WalkUp` in `Recursion`).

### printk

For every set of characters, every directive whose parts are strings of the right
characters, finished or not, every text behind it and every argument, every width of `int`, `long` and `long long` with
`int` the shortest and `long long` the longest, and no console or either driver:

* `DivisionHelpersDivide`: `__udivdi3` is the quotient and `__umoddi3` the
  remainder. The invariant of the loop: after n rounds, q and r are quotient and
  remainder of the top n bits of a by b. The remainder is at most those n bits,
  so the shift loses nothing even for a divisor above 2^63;
* `ParserStaysInFormat`: each loop of the parser ends where the field of the
  directive ends, so no loop runs over the NUL and State 5 reads the conversion at
  its own place; only a format that ends inside its directive is left, in State 5,
  and then the parser stops at the next NUL;
* `NewlinesAlwaysReturn`, from `ReturnsPending`, which follows the carriage return
  through `todo` and the holding register;
* `TypeCorrect`: also that a NUL is printed only for `%c` of 0 or a format that ends
  inside its directive;
* `PrintkFormatsAsISO`: what `printk` prints for an `Agreed` directive is what
  ISO C says.

`FormatsAsISO` speaks of the end, when all is sent. Its inductive invariant
`PrintkInv` says at every step what has been read and what is under way:
`ParserInv` (the place in the format or behind it), `SpecInv` (the flags, width, precision and
size read so far are those of the part of the directive before that place),
`CharsInv` (only characters or, where `PrintsNUL`, NULs, and none without a console) and `ShownInv` (what the
wire, the holding register, `todo` and `text` hold, carriage returns left out, is
what the parser has handed on).
What remains is that `Converted` and `IsoText` agree for each directive, without
states: the digit loop leaves as many digits as the number has, the same as
`DigitCount` and the digits of `IsoDigits` (`DigitsAgree`); the sign is that of
the value, also for the most negative one (`Magnitude`, `SignedFacts`); precision,
zero padding and justification lay out the same field (`PrintNumberLays`,
`LaidOut`, `NumbersAgree`, `StringsAgree`, `ConversionAgrees`).

### Induction

The library's induction theorems take the predicate as an operator, which the
installed provers cannot instantiate. `Recursion` derives, from the library's
theorem on well-founded relations, the same with a set for the predicate:
`Induct` (a set that holds 0 and with each number the next holds all) and
`Recursion`, `RecursionTo` (a function defined by recursion with a given step
exists and is equal to its equation), and `WalkUp` (so does the function that says
where a walk ends that only goes up to a limit). The loops that are proved about are
therefore recursive functions whose step is a function, such as `Iteration`.

### Only model-checked

* Liveness, which is beyond the prover: `CallsReturn`, `BootEnds`, `InterruptsEnd`,
  `PanicHalts`, `PrintkReturns`.
* What libfdt's walks find in the bytes of a tree: `LayoutSound` (which counts
  the reservations), `SoundWhenBalanced`, `NavigationAgrees`, `LookupsAgree`,
  libfdt's `Implements`, and `WritesInBuffer` after `fdt_finish`. Their proof would
  be one about the encoding of every reachable tree, and there is none yet.
* Overlays: `FdtOverlay` uses recursive operators, which the prover cannot use:
  `OnlyWholeOverlays`, `ReferencesHold`, `SymbolsResolve`, `PhandlesKept`.

## Not modelled

* RISC-V traps: not in the configured build. The trap entry loads `sp` from
  `xISRStackTop[0]` (`arch/riscv/core/portContext.h:116`), a word of `.bss`, where it
  means the address of the array's end: the first store of the handler goes below
  address 0 and traps again, so there is no behaviour after it to state
  properties of. The RISC-V exception handler, if it ran, would return behind the
  failing instruction. The first is listed as a hazard.
* RISC-V CSR accessors: one register each. On RV32 `mcycle` is read in two halves and
  the upper one again, with a retry if it has changed
  (`arch/riscv/core/riscv_cpu.c:111`); nothing calls it.
* System-call wrappers: nothing dispatches them on arm64.
* The start-up loops over `.bss` and `.data` and the PMP set-up: they run once, before
  anything they could interfere with. (On arm64 the test for an empty `.bss` looks at
  its end address, so one word too many would be cleared if it were empty.)
* The receive side of the UARTs and their set-up; libfdt's error texts; the boot
  tests (callers of what is modelled); build files, boards and scripts.

## Plan

1. Proofs: that `fdt_splice_` keeps the blocks of a finished tree in the buffer for
   any place and length, since it tests them itself, and from it the edits that
   only write where they have spliced.
2. Output of a handler in the middle of another `printk`; several directives.
3. `PlatformBus` on blobs of `Fdt` in place of abstract trees.
