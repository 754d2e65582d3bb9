--------------------------------- MODULE Fdt ---------------------------------
(***************************************************************************)
(* The flattened device tree of lib/libfdt as a blob in memory, and the    *)
(* functions of fdt.c that walk it.                                        *)
(*                                                                         *)
(* A blob is a record: the fields of its header, and mem, the cells of the *)
(* buffer that holds it, one per byte.  A 32-bit field is kept whole in    *)
(* the last of its four cells, the others are 0, so that a cell is what a  *)
(* big-endian byte is for small values.  A string is a sequence of cells   *)
(* followed by a cell that is 0; the names libfdt itself looks for are     *)
(* strings of one symbol.  Writing outside the buffer makes the domain of  *)
(* mem larger, reading outside of it is an error of the evaluation.        *)
(*                                                                         *)
(* Blobs are 8-byte aligned and of version 16 or 17: the branches for      *)
(* older ones (paths as node names, realigned values) are left out.        *)
(***************************************************************************)
EXTENDS Integers, Sequences, FiniteSets

CONSTANT PhandleMod    \* 2^32: the values of a cell that holds a phandle

ASSUME PhandleModAssumption == PhandleMod \in Nat /\ PhandleMod >= 8

FDT_ERR_NOTFOUND     == 1
FDT_ERR_EXISTS       == 2
FDT_ERR_NOSPACE      == 3
FDT_ERR_BADOFFSET    == 4
FDT_ERR_BADPATH      == 5
FDT_ERR_BADPHANDLE   == 6
FDT_ERR_BADSTATE     == 7
FDT_ERR_TRUNCATED    == 8
FDT_ERR_BADMAGIC     == 9
FDT_ERR_BADVERSION   == 10
FDT_ERR_BADSTRUCTURE == 11
FDT_ERR_BADLAYOUT    == 12
FDT_ERR_INTERNAL     == 13
FDT_ERR_BADNCELLS    == 14
FDT_ERR_BADVALUE     == 15
FDT_ERR_BADOVERLAY   == 16
FDT_ERR_NOPHANDLES   == 17
FDT_ERR_BADFLAGS     == 18
FDT_ERR_ALIGNMENT    == 19

\* Valid phandles are 1 .. FDT_MAX_PHANDLE; the value above it is (uint32_t)-1.
FDT_MAX_PHANDLE == PhandleMod - 2

FDT_BEGIN_NODE == 1
FDT_END_NODE   == 2
FDT_PROP       == 3
FDT_NOP        == 4
FDT_END        == 9

FDT_TAGSIZE == 4

\* sizeof(struct fdt_header), struct fdt_reserve_entry and struct fdt_property
HeaderSize  == 40
ReserveSize == 16
PropSize    == 12

\* The header's magic, and what it is before fdt_finish and once it is erased.
FDT_MAGIC    == "FDT_MAGIC"
FDT_SW_MAGIC == "FDT_SW_MAGIC"
NO_MAGIC     == "erased"

\* The separators of paths, unit addresses and fixups.
Slash == 47
At    == 64
Colon == 58

FDT_ALIGN(x, a) == ((x + a - 1) \div a) * a

FDT_TAGALIGN(x) == FDT_ALIGN(x, FDT_TAGSIZE)

-----------------------------------------------------------------------------
(* Memory. *)

\* A big-endian field is whole in its last cell.
fdt32_ld(mem, o) == mem[o + 3]

Bytes(mem, o, n) == [i \in 1..n |-> mem[o + i - 1]]

\* The cells there are once n of them at o have been written.
Span(mem, o, n) ==
    LET size == Cardinality(DOMAIN mem)
    IN  (IF o < 0 THEN o ELSE 0)..((IF o + n > size THEN o + n ELSE size) - 1)

\* memcpy of the string s to o.
Put(mem, o, s) ==
    [i \in Span(mem, o, Len(s)) |-> IF i >= o /\ i < o + Len(s) THEN s[i - o + 1] ELSE mem[i]]

Word(v) == <<0, 0, 0, v>>

fdt32_st(mem, o, v) == Put(mem, o, Word(v))

memmove(mem, dst, src, n) ==
    [i \in Span(mem, dst, n) |-> IF i >= dst /\ i < dst + n THEN mem[i - dst + src] ELSE mem[i]]

\* The first cell at or after o that is 0, looked for up to limit.
StringEnd(mem, o, limit) ==
    CHOOSE e \in o..limit : mem[e] = 0 /\ \A i \in o..(e - 1) : mem[i] # 0

HasNul(mem, o, limit) == \E e \in o..limit : mem[e] = 0

-----------------------------------------------------------------------------
(* fdt.c: what the header has to say before anything is read. *)

\* Negative: the error every reading function returns; else the total size.
fdt_ro_probe_(fdt) ==
    IF fdt.magic \notin {FDT_MAGIC, FDT_SW_MAGIC} THEN -FDT_ERR_BADMAGIC
    ELSE IF fdt.magic = FDT_MAGIC /\ (fdt.version < 2 \/ fdt.last_comp_version > 17) THEN
            -FDT_ERR_BADVERSION
    ELSE IF fdt.magic = FDT_SW_MAGIC /\ fdt.size_dt_struct = 0 THEN -FDT_ERR_BADSTATE
    ELSE fdt.totalsize

check_off_(hdrsize, totalsize, off) == off >= hdrsize /\ off <= totalsize

check_block_(hdrsize, totalsize, base, size) ==
    check_off_(hdrsize, totalsize, base) /\ check_off_(hdrsize, totalsize, base + size)

fdt_header_size_(version) ==
    CASE version <= 1 -> 28
      [] version = 2 -> 32
      [] version \in 3..16 -> 36
      [] OTHER -> 40

fdt_check_header(fdt) ==
    LET hdrsize == fdt_header_size_(fdt.version)
        total == fdt.totalsize
        unsupported == \/ fdt.version < 2
                       \/ fdt.last_comp_version > 17
                       \/ fdt.version < fdt.last_comp_version
        unaligned == fdt.off_mem_rsvmap % 8 # 0 \/ fdt.off_dt_struct % FDT_TAGSIZE # 0
        structsize == IF fdt.version < 17 THEN 0 ELSE fdt.size_dt_struct
        inside == /\ check_off_(hdrsize, total, fdt.off_mem_rsvmap)
                  /\ check_block_(hdrsize, total, fdt.off_dt_struct, structsize)
                  /\ check_block_(hdrsize, total, fdt.off_dt_strings, fdt.size_dt_strings)
    IN  IF fdt.magic # FDT_MAGIC THEN -FDT_ERR_BADMAGIC
        ELSE IF unsupported THEN -FDT_ERR_BADVERSION
        ELSE IF total < hdrsize THEN -FDT_ERR_TRUNCATED
        ELSE IF unaligned THEN -FDT_ERR_ALIGNMENT
        ELSE IF ~inside THEN -FDT_ERR_TRUNCATED
        ELSE 0

-----------------------------------------------------------------------------
(* fdt.c: walking the structure block.  Offsets are relative to it. *)

\* Whether the pointer is not NULL: the range lies in the structure block.
fdt_offset_ptr(fdt, offset, len) ==
    /\ offset >= 0
    /\ fdt.off_dt_struct + offset + len <= fdt.totalsize
    /\ fdt.version >= 17 => offset + len <= fdt.size_dt_struct

\* The offset behind the last byte fdt_offset_ptr allows.
StructLimit(fdt) ==
    LET room == fdt.totalsize - fdt.off_dt_struct
    IN  IF fdt.version >= 17 /\ fdt.size_dt_struct < room THEN fdt.size_dt_struct ELSE room

\* The cell of the structure block at an offset.
At32(fdt, offset) == fdt32_ld(fdt.mem, fdt.off_dt_struct + offset)

\* The offset behind a tag and what belongs to it, or an error.
TagEnd(fdt, offset, tag) ==
    LET abs == fdt.off_dt_struct
        from == offset + FDT_TAGSIZE
        NameEnd(last) == IF HasNul(fdt.mem, abs + from, last)
                         THEN StringEnd(fdt.mem, abs + from, last) + 1 - abs
                         ELSE -FDT_ERR_BADSTRUCTURE
    IN  CASE tag = FDT_BEGIN_NODE -> NameEnd(abs + StructLimit(fdt) - 1)
          [] tag = FDT_PROP -> IF fdt_offset_ptr(fdt, from, 4)
                               THEN offset + PropSize + At32(fdt, from)
                               ELSE -FDT_ERR_BADSTRUCTURE
          [] tag \in {FDT_END_NODE, FDT_NOP, FDT_END} -> from
          [] OTHER -> -FDT_ERR_BADSTRUCTURE

\* The tag at an offset and the offset of the next one, FDT_END with an error
\* when the block ends inside the tag or has no tag there.
fdt_next_tag(fdt, offset) ==
    LET Ended(tag, end) ==
            IF end < 0 \/ ~fdt_offset_ptr(fdt, offset, end - offset)
            THEN [tag |-> FDT_END, next |-> -FDT_ERR_BADSTRUCTURE]
            ELSE [tag |-> tag, next |-> FDT_TAGALIGN(end)]
    IN  IF ~fdt_offset_ptr(fdt, offset, FDT_TAGSIZE)
        THEN [tag |-> FDT_END, next |-> -FDT_ERR_TRUNCATED]
        ELSE Ended(At32(fdt, offset), TagEnd(fdt, offset, At32(fdt, offset)))

\* The offset behind the tag when it is the one wanted.
CheckOffset(fdt, offset, wanted) ==
    LET Behind(t) == IF t.tag = wanted THEN t.next ELSE -FDT_ERR_BADOFFSET
    IN  IF offset < 0 \/ offset % FDT_TAGSIZE # 0
        THEN -FDT_ERR_BADOFFSET
        ELSE Behind(fdt_next_tag(fdt, offset))

fdt_check_node_offset_(fdt, offset) == CheckOffset(fdt, offset, FDT_BEGIN_NODE)

fdt_check_prop_offset_(fdt, offset) == CheckOffset(fdt, offset, FDT_PROP)

\* A place of the walk over the nodes: an offset, or an error, and a depth.
Place == [off : Int, depth : Int]

\* The loop of fdt_next_node, from the tag at start.
NodeFrom(fdt, start, depth, counted) ==
    LET walk[o \in Nat, d \in Int] ==
            LET Step(t) ==
                    IF t.tag = FDT_BEGIN_NODE THEN [off |-> o, depth |-> d + 1]
                    ELSE IF t.tag = FDT_END_NODE /\ counted /\ d <= 0
                    THEN [off |-> t.next, depth |-> d - 1]
                    ELSE IF t.tag = FDT_END
                    THEN [off |-> IF t.next >= 0 \/ (t.next = -FDT_ERR_TRUNCATED /\ ~counted)
                                  THEN -FDT_ERR_NOTFOUND ELSE t.next,
                          depth |-> d]
                    ELSE walk[t.next, IF t.tag = FDT_END_NODE THEN d - 1 ELSE d]
            IN  Step(fdt_next_tag(fdt, o))
    IN  IF start < 0 THEN [off |-> start, depth |-> depth] ELSE walk[start, depth]

\* The next node in document order and its depth; depth -1 and the offset
\* behind the node once the node the walk started at has ended.  Without
\* counting (depth is NULL in the code) the walk goes on to the end.
fdt_next_node(fdt, offset, depth, counted) ==
    NodeFrom(fdt, IF offset < 0 THEN 0 ELSE fdt_check_node_offset_(fdt, offset), depth, counted)

\* fdt_next_node(fdt, offset, NULL)
NextNode(fdt, offset) == fdt_next_node(fdt, offset, 0, FALSE).off

fdt_first_subnode(fdt, offset) ==
    LET First(n) == IF n.off < 0 \/ n.depth # 1 THEN -FDT_ERR_NOTFOUND ELSE n.off
    IN  First(fdt_next_node(fdt, offset, 0, TRUE))

fdt_next_subnode(fdt, offset) ==
    LET from[n \in Place] ==
            IF n.off < 0 \/ n.depth < 1 THEN -FDT_ERR_NOTFOUND
            ELSE IF n.depth > 1 THEN from[fdt_next_node(fdt, n.off, n.depth, TRUE)]
            ELSE n.off
    IN  from[fdt_next_node(fdt, offset, 1, TRUE)]

\* fdt_for_each_subnode: the offsets the macro's loop goes through.
fdt_for_each_subnode(fdt, parent) ==
    LET from[o \in Int] == IF o < 0 THEN <<>> ELSE <<o>> \o from[fdt_next_subnode(fdt, o)]
    IN  from[fdt_first_subnode(fdt, parent)]

\* The position of the first string of the table that s is, or ends; -1: none.
fdt_find_string_len_(mem, strtab, tabsize, s) ==
    LET n == Len(s)
        hits == {p \in strtab..(strtab + tabsize - n - 1) :
                    mem[p + n] = 0 /\ \A i \in 1..n : mem[p + i - 1] = s[i]}
    IN  IF hits = {} THEN -1 ELSE CHOOSE p \in hits : \A q \in hits : p <= q

\* The blob copied to the start of the buffer buf, of which bufsize bytes may be
\* used; buf is fdt.mem when a blob is moved onto itself.
fdt_move(fdt, buf, bufsize) ==
    IF fdt_ro_probe_(fdt) < 0 THEN [ret |-> fdt_ro_probe_(fdt), fdt |-> fdt]
    ELSE IF fdt.totalsize > bufsize THEN [ret |-> -FDT_ERR_NOSPACE, fdt |-> fdt]
    ELSE [ret |-> 0,
                   fdt |-> [fdt EXCEPT !.mem = Put(buf, 0, Bytes(fdt.mem, 0, fdt.totalsize))]]

=============================================================================
