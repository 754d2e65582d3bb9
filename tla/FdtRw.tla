-------------------------------- MODULE FdtRw --------------------------------
(***************************************************************************)
(* fdt_rw.c, fdt_wip.c, fdt_empty_tree.c and fdt_appendprop_addrrange:     *)
(* changing a finished tree, by moving everything behind the place of the  *)
(* change (read-write) or without moving anything (write in place).        *)
(***************************************************************************)
EXTENDS FdtSw

fdt_blocks_misordered_(fdt, mem_rsv_size, struct_size) ==
    \/ fdt.off_mem_rsvmap < FDT_ALIGN(HeaderSize, 8)
    \/ fdt.off_dt_struct < fdt.off_mem_rsvmap + mem_rsv_size
    \/ fdt.off_dt_strings < fdt.off_dt_struct + struct_size
    \/ fdt.totalsize < fdt.off_dt_strings + fdt.size_dt_strings

\* fdt_downgrade_version has nothing to do up to version 17.
fdt_rw_probe_(fdt) ==
    IF fdt_ro_probe_(fdt) < 0 THEN fdt_ro_probe_(fdt)
    ELSE IF fdt.version < 17 THEN -FDT_ERR_BADVERSION
    ELSE IF fdt_blocks_misordered_(fdt, ReserveSize, fdt.size_dt_struct)
    THEN -FDT_ERR_BADLAYOUT
    ELSE 0

fdt_data_size_(fdt) == fdt.off_dt_strings + fdt.size_dt_strings

\* Seeded fault: whether the blob has room for the new bytes is not asked.
SpliceUnbounded(fdt, p, oldlen, newlen) ==
    LET dsize == fdt_data_size_(fdt)
    IN  IF oldlen < 0 \/ p + oldlen > dsize \/ p < 0 \/ dsize + newlen < oldlen
        THEN [ret |-> -FDT_ERR_BADOFFSET, fdt |-> fdt]
        ELSE [ret |-> 0, fdt |-> [fdt EXCEPT !.mem =
                 memmove(@, p + newlen, p + oldlen, dsize - (p + oldlen))]]

\* Replaces oldlen bytes at the offset p of the blob by newlen bytes, whose
\* contents are what lay there.
fdt_splice_(fdt, p, oldlen, newlen) ==
    LET dsize == fdt_data_size_(fdt)
    IN  IF oldlen < 0 \/ p + oldlen > dsize \/ p < 0 \/ dsize + newlen < oldlen
        THEN [ret |-> -FDT_ERR_BADOFFSET, fdt |-> fdt]
        ELSE IF dsize - oldlen + newlen > fdt.totalsize
        THEN [ret |-> -FDT_ERR_NOSPACE, fdt |-> fdt]
        ELSE [ret |-> 0, fdt |-> [fdt EXCEPT !.mem =
                 memmove(@, p + newlen, p + oldlen, dsize - (p + oldlen))]]

\* Seeded fault: the strings block moves and its offset does not.
SpliceRsvOnly(fdt, n, oldn, newn) ==
    LET delta == (newn - oldn) * ReserveSize
        Moved(r) == IF r.ret # 0 THEN r ELSE [r EXCEPT !.fdt.off_dt_struct = @ + delta]
    IN  Moved(fdt_splice_(fdt, fdt.off_mem_rsvmap + n * ReserveSize,
                          oldn * ReserveSize, newn * ReserveSize))

\* The n-th entry of the reservation map gives way to newn - oldn entries more.
fdt_splice_mem_rsv_(fdt, n, oldn, newn) ==
    LET delta == (newn - oldn) * ReserveSize
        Moved(r) == IF r.ret # 0 THEN r
                    ELSE [r EXCEPT !.fdt.off_dt_struct = @ + delta,
                                   !.fdt.off_dt_strings = @ + delta]
    IN  Moved(fdt_splice_(fdt, fdt.off_mem_rsvmap + n * ReserveSize,
                          oldn * ReserveSize, newn * ReserveSize))

fdt_splice_struct_(fdt, p, oldlen, newlen) ==
    LET delta == newlen - oldlen
        Moved(r) == IF r.ret # 0 THEN r
                    ELSE [r EXCEPT !.fdt.size_dt_struct = @ + delta,
                                   !.fdt.off_dt_strings = @ + delta]
    IN  Moved(fdt_splice_(fdt, p, oldlen, newlen))

fdt_splice_string_(fdt, newlen) ==
    LET Grown(r) == IF r.ret # 0 THEN r ELSE [r EXCEPT !.fdt.size_dt_strings = @ + newlen]
    IN  Grown(fdt_splice_(fdt, fdt_data_size_(fdt), 0, newlen))

\* The string's offset in the table, or an error.
rw_find_add_string_(fdt, s) ==
    LET end == fdt_data_size_(fdt)
        Grown(r) == IF r.ret # 0 THEN [off |-> r.ret, fdt |-> fdt, allocated |-> FALSE]
                    ELSE [off |-> end - fdt.off_dt_strings, allocated |-> TRUE,
                          fdt |-> [r.fdt EXCEPT !.mem = Put(@, end, s \o <<0>>)]]
        Searched(p) == IF p # -1
                       THEN [off |-> p - fdt.off_dt_strings, fdt |-> fdt, allocated |-> FALSE]
                       ELSE Grown(fdt_splice_string_(fdt, Len(s) + 1))
    IN  Searched(fdt_find_string_len_(fdt.mem, fdt.off_dt_strings, fdt.size_dt_strings, s))

-----------------------------------------------------------------------------
(* The reservation map. *)

fdt_add_mem_rsv(fdt, address, size) ==
    LET re == <<0, 0, 0, 0, 0, 0, 0, address, 0, 0, 0, 0, 0, 0, 0, size>>
        Spliced(n, r) ==
            IF r.ret # 0 THEN r
            ELSE [r EXCEPT !.fdt.mem = Put(@, fdt.off_mem_rsvmap + n * ReserveSize, re)]
        Counted(n) == IF n < 0 THEN [ret |-> n, fdt |-> fdt]
                      ELSE Spliced(n, fdt_splice_mem_rsv_(fdt, n, 0, 1))
    IN  IF fdt_rw_probe_(fdt) # 0 THEN [ret |-> fdt_rw_probe_(fdt), fdt |-> fdt]
        ELSE Counted(fdt_num_mem_rsv(fdt))

fdt_del_mem_rsv(fdt, n) ==
    LET probe == fdt_rw_probe_(fdt)
        num == fdt_num_mem_rsv(fdt)
    IN  IF probe # 0 THEN [ret |-> probe, fdt |-> fdt]
        ELSE IF num < 0 THEN [ret |-> num, fdt |-> fdt]
        ELSE IF n >= num THEN [ret |-> -FDT_ERR_NOTFOUND, fdt |-> fdt]
        ELSE fdt_splice_mem_rsv_(fdt, n, 1, 0)

-----------------------------------------------------------------------------
(* Properties. *)

\* data: where the value is now, as an offset of the buffer.
fdt_resize_property_(fdt, nodeoffset, name, len) ==
    LET Resized(p, r) ==
            IF r.ret # 0 THEN [ret |-> r.ret, fdt |-> fdt, data |-> 0]
            ELSE [ret |-> 0, data |-> p.data,
                  fdt |-> [r.fdt EXCEPT !.mem = fdt32_st(@, p.data - 8, len)]]
        Found(p) ==
            IF p.len < 0 THEN [ret |-> p.len, fdt |-> fdt, data |-> 0]
            ELSE Resized(p, fdt_splice_struct_(fdt, p.data, FDT_TAGALIGN(p.len), FDT_TAGALIGN(len)))
    IN  Found(fdt_get_property_namelen_(fdt, nodeoffset, name))

\* Seeded fault: the name stays when there is no room for the property.
AddPropertyKeepString(fdt, nodeoffset, name, len) ==
    LET Spliced(at, str, r) ==
            IF r.ret # 0 THEN [ret |-> r.ret, data |-> 0, fdt |-> str.fdt]
            ELSE [ret |-> 0, data |-> at + PropSize,
                  fdt |-> [r.fdt EXCEPT !.mem =
                              Put(@, at, Word(FDT_PROP) \o Word(len) \o Word(str.off))]]
        Named(at, str) ==
            IF str.off < 0 THEN [ret |-> str.off, fdt |-> str.fdt, data |-> 0]
            ELSE Spliced(at, str,
                         fdt_splice_struct_(str.fdt, at, 0, PropSize + FDT_TAGALIGN(len)))
        Checked(next) ==
            IF next < 0 THEN [ret |-> next, fdt |-> fdt, data |-> 0]
            ELSE Named(fdt.off_dt_struct + next, rw_find_add_string_(fdt, name))
    IN  Checked(fdt_check_node_offset_(fdt, nodeoffset))

\* The new property is the first of the node; its name is taken out of the
\* strings block again when there is no room for the property.
fdt_add_property_(fdt, nodeoffset, name, len) ==
    LET Spliced(at, str, r) ==
            IF r.ret # 0
            THEN [ret |-> r.ret, data |-> 0,
                  fdt |-> IF str.allocated THEN fdt_del_last_string_(str.fdt, name) ELSE str.fdt]
            ELSE [ret |-> 0, data |-> at + PropSize,
                  fdt |-> [r.fdt EXCEPT !.mem =
                              Put(@, at, Word(FDT_PROP) \o Word(len) \o Word(str.off))]]
        Named(at, str) ==
            IF str.off < 0 THEN [ret |-> str.off, fdt |-> str.fdt, data |-> 0]
            ELSE Spliced(at, str,
                         fdt_splice_struct_(str.fdt, at, 0, PropSize + FDT_TAGALIGN(len)))
        Checked(next) ==
            IF next < 0 THEN [ret |-> next, fdt |-> fdt, data |-> 0]
            ELSE Named(fdt.off_dt_struct + next, rw_find_add_string_(fdt, name))
    IN  Checked(fdt_check_node_offset_(fdt, nodeoffset))

\* Room for a value of len bytes, in the property of that name or a new one.
fdt_setprop_placeholder_namelen(fdt, nodeoffset, name, len) ==
    LET Resized(r) == IF r.ret = -FDT_ERR_NOTFOUND
                      THEN fdt_add_property_(fdt, nodeoffset, name, len) ELSE r
    IN  IF fdt_rw_probe_(fdt) # 0 THEN [ret |-> fdt_rw_probe_(fdt), fdt |-> fdt, data |-> 0]
        ELSE Resized(fdt_resize_property_(fdt, nodeoffset, name, len))

\* The value copied to the room made for it.
Filled(r, val) ==
    [ret |-> r.ret,
     fdt |-> IF r.ret # 0 THEN r.fdt ELSE [r.fdt EXCEPT !.mem = Put(@, r.data, val)]]

fdt_setprop(fdt, nodeoffset, name, val) ==
    Filled(fdt_setprop_placeholder_namelen(fdt, nodeoffset, name, Len(val)), val)

fdt_appendprop(fdt, nodeoffset, name, val) ==
    LET Grown(p, r) ==
            IF r.ret # 0 THEN r
            ELSE [r EXCEPT !.fdt.mem = Put(fdt32_st(@, p.data - 8, p.len + Len(val)),
                                           p.data + p.len, val)]
        Found(p) ==
            IF p.len < 0 THEN Filled(fdt_add_property_(fdt, nodeoffset, name, Len(val)), val)
            ELSE Grown(p, fdt_splice_struct_(fdt, p.data, FDT_TAGALIGN(p.len),
                                             FDT_TAGALIGN(p.len + Len(val))))
    IN  IF fdt_rw_probe_(fdt) # 0 THEN [ret |-> fdt_rw_probe_(fdt), fdt |-> fdt]
        ELSE Found(fdt_get_property_namelen_(fdt, nodeoffset, name))

fdt_delprop(fdt, nodeoffset, name) ==
    LET Found(p) ==
            IF p.len < 0 THEN [ret |-> p.len, fdt |-> fdt]
            ELSE fdt_splice_struct_(fdt, fdt.off_dt_struct + p.off,
                                    PropSize + FDT_TAGALIGN(p.len), 0)
    IN  IF fdt_rw_probe_(fdt) # 0 THEN [ret |-> fdt_rw_probe_(fdt), fdt |-> fdt]
        ELSE Found(fdt_get_property_namelen_(fdt, nodeoffset, name))

-----------------------------------------------------------------------------
(* Nodes. *)

fdt_set_name(fdt, nodeoffset, name) ==
    LET at == fdt.off_dt_struct + nodeoffset + FDT_TAGSIZE
        Spliced(r) == IF r.ret # 0 THEN r ELSE [r EXCEPT !.fdt.mem = Put(@, at, name \o <<0>>)]
        Named(old) ==
            IF old.len < 0 THEN [ret |-> old.len, fdt |-> fdt]
            ELSE Spliced(fdt_splice_struct_(fdt, at, FDT_TAGALIGN(old.len + 1),
                                            FDT_TAGALIGN(Len(name) + 1)))
    IN  IF fdt_rw_probe_(fdt) # 0 THEN [ret |-> fdt_rw_probe_(fdt), fdt |-> fdt]
        ELSE Named(fdt_get_name(fdt, nodeoffset))

\* The offset of the first tag behind a node's properties.
AfterProperties(fdt, nodeoffset) ==
    LET from[o \in Nat] ==
            LET Step(t) == IF t.tag \in {FDT_PROP, FDT_NOP} THEN from[t.next] ELSE o
            IN  Step(fdt_next_tag(fdt, o))
    IN  from[fdt_next_tag(fdt, nodeoffset).next]

\* The new node is the parent's first; ret is its offset.
fdt_add_subnode(fdt, parentoffset, name) ==
    LET namesize == FDT_TAGALIGN(Len(name) + 1)
        node == Word(FDT_BEGIN_NODE) \o name \o [i \in 1..(namesize - Len(name)) |-> 0]
                \o Word(FDT_END_NODE)
        Spliced(offset, r) ==
            IF r.ret # 0 THEN r
            ELSE [ret |-> offset,
                  fdt |-> [r.fdt EXCEPT !.mem = Put(@, fdt.off_dt_struct + offset, node)]]
        Insert(offset) ==
            Spliced(offset, fdt_splice_struct_(fdt, fdt.off_dt_struct + offset, 0, Len(node)))
        Searched(there) ==
            IF there >= 0 THEN [ret |-> -FDT_ERR_EXISTS, fdt |-> fdt]
            ELSE IF there # -FDT_ERR_NOTFOUND THEN [ret |-> there, fdt |-> fdt]
            ELSE IF fdt_next_tag(fdt, parentoffset).tag # FDT_BEGIN_NODE
            THEN [ret |-> -FDT_ERR_INTERNAL, fdt |-> fdt]
            ELSE Insert(AfterProperties(fdt, parentoffset))
    IN  IF fdt_rw_probe_(fdt) # 0 THEN [ret |-> fdt_rw_probe_(fdt), fdt |-> fdt]
        ELSE Searched(fdt_subnode_offset_namelen(fdt, parentoffset, name))

\* The offset behind the node.
fdt_node_end_offset_(fdt, nodeoffset) ==
    LET from[at \in Place] ==
            IF at.off >= 0 /\ at.depth >= 0 THEN from[fdt_next_node(fdt, at.off, at.depth, TRUE)]
            ELSE at.off
    IN  from[[off |-> nodeoffset, depth |-> 0]]

fdt_del_node(fdt, nodeoffset) ==
    LET UpTo(end) ==
            IF end < 0 THEN [ret |-> end, fdt |-> fdt]
            ELSE fdt_splice_struct_(fdt, fdt.off_dt_struct + nodeoffset, end - nodeoffset, 0)
    IN  IF fdt_rw_probe_(fdt) # 0 THEN [ret |-> fdt_rw_probe_(fdt), fdt |-> fdt]
        ELSE UpTo(fdt_node_end_offset_(fdt, nodeoffset))

-----------------------------------------------------------------------------
(* The blob as a whole. *)

\* The blocks of old, one behind the other, in the buffer mem from base on.
fdt_packblocks_(old, mem, base, mem_rsv_size, struct_size, strings_size) ==
    LET mem_rsv_off == FDT_ALIGN(HeaderSize, 8)
        struct_off == mem_rsv_off + mem_rsv_size
        strings_off == struct_off + struct_size
        Moved(m, to, from, size) == Put(m, base + to, Bytes(m, from, size))
    IN  [old EXCEPT !.off_mem_rsvmap = mem_rsv_off, !.off_dt_struct = struct_off,
                    !.size_dt_struct = struct_size, !.off_dt_strings = strings_off,
                    !.mem = Moved(Moved(Moved(mem, mem_rsv_off, old.off_mem_rsvmap, mem_rsv_size),
                                        struct_off, old.off_dt_struct, struct_size),
                                  strings_off, old.off_dt_strings, strings_size)]

\* The size of a structure block of version 16, which the header does not have.
StructSize(fdt) ==
    LET from[o \in Int] ==
            LET Step(t) == IF t.tag = FDT_END THEN t.next ELSE from[t.next]
            IN  Step(fdt_next_tag(fdt, o))
    IN  IF fdt.version >= 17 THEN fdt.size_dt_struct ELSE from[0]

\* Into the blob's own buffer, of which bufsize bytes may be used.  A tree that
\* has to be reordered is built behind itself and copied down.
fdt_open_into(fdt, bufsize) ==
    LET Moved(r, struct_size) ==
            IF r.ret # 0 THEN r
            ELSE [r EXCEPT !.fdt.version = 17, !.fdt.totalsize = bufsize,
                           !.fdt.size_dt_struct = struct_size]
        Packed(f, newsize) ==
            IF bufsize < newsize \/ fdt.totalsize + newsize > bufsize
            THEN [ret |-> -FDT_ERR_NOSPACE, fdt |-> fdt]
            ELSE [ret |-> 0, fdt |-> [f EXCEPT !.mem = memmove(@, 0, fdt.totalsize, newsize),
                                               !.totalsize = bufsize, !.version = 17,
                                               !.last_comp_version = 16]]
        Sized(mem_rsv_size, struct_size) ==
            IF struct_size < 0 THEN [ret |-> struct_size, fdt |-> fdt]
            ELSE IF ~fdt_blocks_misordered_(fdt, mem_rsv_size, struct_size)
            THEN Moved(fdt_move(fdt, fdt.mem, bufsize), struct_size)
            ELSE Packed(fdt_packblocks_(fdt, fdt.mem, fdt.totalsize, mem_rsv_size, struct_size,
                                        fdt.size_dt_strings),
                        FDT_ALIGN(HeaderSize, 8) + mem_rsv_size + struct_size
                            + fdt.size_dt_strings)
        Counted(n) ==
            IF n < 0 THEN [ret |-> n, fdt |-> fdt]
            ELSE IF fdt.version < 16 THEN [ret |-> -FDT_ERR_BADVERSION, fdt |-> fdt]
            ELSE Sized((n + 1) * ReserveSize, StructSize(fdt))
    IN  IF fdt_ro_probe_(fdt) < 0 THEN [ret |-> fdt_ro_probe_(fdt), fdt |-> fdt]
        ELSE Counted(fdt_num_mem_rsv(fdt))

fdt_pack(fdt) ==
    LET Packed(f) == [ret |-> 0, fdt |-> [f EXCEPT !.totalsize = fdt_data_size_(f)]]
        Counted(n) ==
            IF n < 0 THEN [ret |-> n, fdt |-> fdt]
            ELSE Packed(fdt_packblocks_(fdt, fdt.mem, 0, (n + 1) * ReserveSize,
                                        fdt.size_dt_struct, fdt.size_dt_strings))
    IN  IF fdt_rw_probe_(fdt) # 0 THEN [ret |-> fdt_rw_probe_(fdt), fdt |-> fdt]
        ELSE Counted(fdt_num_mem_rsv(fdt))

\* One call after the other until one fails.
fdt_create_empty_tree(fdt, bufsize) ==
    LET Opened(r) == IF r.ret # 0 THEN r ELSE fdt_open_into(r.fdt, bufsize)
        Finished(r) == IF r.ret # 0 THEN r ELSE fdt_finish(r.fdt)
        Ended(r) == IF r.ret # 0 THEN r ELSE fdt_end_node(r.fdt)
        Begun(r) == IF r.ret # 0 THEN r ELSE fdt_begin_node(r.fdt, <<>>)
        Reserved(r) == IF r.ret # 0 THEN r ELSE fdt_finish_reservemap(r.fdt)
    IN  Opened(Finished(Ended(Begun(Reserved(fdt_create_with_flags(fdt, bufsize, 0))))))

-----------------------------------------------------------------------------
(* Writing in place. *)

fdt_setprop_inplace_namelen_partial(fdt, nodeoffset, name, idx, val) ==
    LET Found(p) ==
            IF p.len < 0 THEN [ret |-> p.len, fdt |-> fdt]
            ELSE IF p.len < Len(val) + idx THEN [ret |-> -FDT_ERR_NOSPACE, fdt |-> fdt]
            ELSE [ret |-> 0, fdt |-> [fdt EXCEPT !.mem = Put(@, p.data + idx, val)]]
    IN  Found(fdt_get_property_namelen_(fdt, nodeoffset, name))

fdt_setprop_inplace(fdt, nodeoffset, name, val) ==
    LET Sized(len) ==
            IF len < 0 THEN [ret |-> len, fdt |-> fdt]
            ELSE IF len # Len(val) THEN [ret |-> -FDT_ERR_NOSPACE, fdt |-> fdt]
            ELSE fdt_setprop_inplace_namelen_partial(fdt, nodeoffset, name, 0, val)
    IN  Sized(fdt_get_property_namelen_(fdt, nodeoffset, name).len)

\* NOP tags from p on, until len bytes are covered.
fdt_nop_region_(mem, p, len) ==
    [i \in DOMAIN mem |->
        IF i \in p..(p + FDT_TAGALIGN(len) - 1)
        THEN IF (i - p) % FDT_TAGSIZE = 3 THEN FDT_NOP ELSE 0
        ELSE mem[i]]

fdt_nop_property(fdt, nodeoffset, name) ==
    LET Found(p) ==
            IF p.len < 0 THEN [ret |-> p.len, fdt |-> fdt]
            ELSE [ret |-> 0, fdt |-> [fdt EXCEPT !.mem =
                     fdt_nop_region_(@, fdt.off_dt_struct + p.off, p.len + PropSize)]]
    IN  Found(fdt_get_property_namelen_(fdt, nodeoffset, name))

fdt_nop_node(fdt, nodeoffset) ==
    LET UpTo(end) ==
            IF end < 0 THEN [ret |-> end, fdt |-> fdt]
            ELSE [ret |-> 0, fdt |-> [fdt EXCEPT !.mem =
                     fdt_nop_region_(@, fdt.off_dt_struct + nodeoffset, end - nodeoffset)]]
    IN  UpTo(fdt_node_end_offset_(fdt, nodeoffset))

-----------------------------------------------------------------------------
(* fdt_addresses.c.  A 32-bit cell holds 0 .. PhandleMod - 1. *)

\* A number in n cells.
Cells(n, v) == IF n = 1 THEN Word(v) ELSE Word(v \div PhandleMod) \o Word(v % PhandleMod)

fdt_appendprop_addrrange(fdt, parent, nodeoffset, name, addr, size) ==
    LET Sized(ac, sc) ==
            IF ac < 0 THEN [ret |-> ac, fdt |-> fdt]
            ELSE IF sc < 0 THEN [ret |-> sc, fdt |-> fdt]
            ELSE IF ac \notin {1, 2} THEN [ret |-> -FDT_ERR_BADNCELLS, fdt |-> fdt]
            ELSE IF ac = 1 /\ (addr >= PhandleMod \/ PhandleMod - addr < size)
            THEN [ret |-> -FDT_ERR_BADVALUE, fdt |-> fdt]
            ELSE IF sc \notin {1, 2} THEN [ret |-> -FDT_ERR_BADNCELLS, fdt |-> fdt]
            ELSE IF sc = 1 /\ size >= PhandleMod THEN [ret |-> -FDT_ERR_BADVALUE, fdt |-> fdt]
            ELSE fdt_appendprop(fdt, nodeoffset, name, Cells(ac, addr) \o Cells(sc, size))
    IN  Sized(fdt_address_cells(fdt, parent), fdt_size_cells(fdt, parent))

=============================================================================
