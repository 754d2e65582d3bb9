-------------------------------- MODULE FdtSw --------------------------------
(***************************************************************************)
(* fdt_sw.c: writing a tree sequentially.  Until fdt_finish the structure  *)
(* block grows up from the reservation map and the strings block grows     *)
(* down from the end of the buffer; the header keeps the progress: magic   *)
(* is FDT_SW_MAGIC, last_comp_version the creation flags, off_dt_strings   *)
(* is 0 while reservations are written and the buffer's size afterwards.   *)
(* Every function returns ret and the blob it leaves.                      *)
(***************************************************************************)
EXTENDS FdtRo

\* uint32_t: differences of offsets that would be negative are huge.
U32(x) == IF x < 0 THEN 2147483647 ELSE x

FDT_CREATE_FLAG_NO_NAME_DEDUP == 1

fdt_sw_probe_(fdt) ==
    IF fdt.magic = FDT_MAGIC THEN -FDT_ERR_BADSTATE
    ELSE IF fdt.magic # FDT_SW_MAGIC THEN -FDT_ERR_BADMAGIC
    ELSE 0

fdt_sw_probe_memrsv_(fdt) ==
    LET err == fdt_sw_probe_(fdt)
    IN  IF err = 0 /\ fdt.off_dt_strings # 0 THEN -FDT_ERR_BADSTATE ELSE err

fdt_sw_probe_struct_(fdt) ==
    LET err == fdt_sw_probe_(fdt)
    IN  IF err = 0 /\ fdt.off_dt_strings # fdt.totalsize THEN -FDT_ERR_BADSTATE ELSE err

\* Seeded fault: the strings at the end of the buffer are forgotten.
GrabOverStrings(fdt, len, s) ==
    LET offset == fdt.size_dt_struct
    IN  IF offset + len > fdt.totalsize - fdt.off_dt_struct
        THEN [ret |-> -FDT_ERR_NOSPACE, fdt |-> fdt]
        ELSE [ret |-> 0, fdt |-> [fdt EXCEPT !.size_dt_struct = offset + len,
                                             !.mem = Put(@, fdt.off_dt_struct + offset, s)]]

\* Room of len bytes at the end of the structure block, filled with s.  The
\* code returns NULL where ret is -FDT_ERR_NOSPACE.
fdt_grab_space_(fdt, len, s) ==
    LET offset == fdt.size_dt_struct
        spaceleft == U32(fdt.totalsize - fdt.off_dt_struct - fdt.size_dt_strings)
    IN  IF offset + len > spaceleft
        THEN [ret |-> -FDT_ERR_NOSPACE, fdt |-> fdt]
        ELSE [ret |-> 0, fdt |-> [fdt EXCEPT !.size_dt_struct = offset + len,
                                             !.mem = Put(@, fdt.off_dt_struct + offset, s)]]

\* The header in a buffer of bufsize bytes that was cleared.
fdt_create_with_flags(fdt, bufsize, flags) ==
    LET hdrsize == FDT_ALIGN(HeaderSize, ReserveSize)
    IN  IF bufsize < hdrsize THEN [ret |-> -FDT_ERR_NOSPACE, fdt |-> fdt]
        ELSE IF flags \notin {0, FDT_CREATE_FLAG_NO_NAME_DEDUP}
        THEN [ret |-> -FDT_ERR_BADFLAGS, fdt |-> fdt]
        ELSE [ret |-> 0,
              fdt |-> [magic |-> FDT_SW_MAGIC, version |-> 17, last_comp_version |-> flags,
                       totalsize |-> bufsize, off_mem_rsvmap |-> hdrsize,
                       off_dt_struct |-> hdrsize, off_dt_strings |-> 0,
                       size_dt_strings |-> 0, size_dt_struct |-> 0,
                       mem |-> [i \in DOMAIN fdt.mem |-> IF i < bufsize THEN 0 ELSE fdt.mem[i]]]]

\* In place: buf is the blob's own buffer, of which bufsize bytes may be used.
fdt_resize(fdt, bufsize) ==
    LET headsize == fdt.off_dt_struct + fdt.size_dt_struct
        tailsize == fdt.size_dt_strings
        moved == memmove(fdt.mem, bufsize - tailsize, fdt.totalsize - tailsize, tailsize)
    IN  IF fdt_sw_probe_(fdt) # 0 THEN [ret |-> fdt_sw_probe_(fdt), fdt |-> fdt]
        ELSE IF headsize + tailsize > fdt.totalsize
        THEN [ret |-> -FDT_ERR_INTERNAL, fdt |-> fdt]
        ELSE IF headsize + tailsize > bufsize
        THEN [ret |-> -FDT_ERR_NOSPACE, fdt |-> fdt]
        ELSE [ret |-> 0,
              fdt |-> [fdt EXCEPT !.mem = moved, !.totalsize = bufsize,
                                  !.off_dt_strings = IF @ # 0 THEN bufsize ELSE 0]]

fdt_add_reservemap_entry(fdt, addr, size) ==
    LET offset == fdt.off_dt_struct
        re == <<0, 0, 0, 0, 0, 0, 0, addr, 0, 0, 0, 0, 0, 0, 0, size>>
    IN  IF fdt_sw_probe_memrsv_(fdt) # 0 THEN [ret |-> fdt_sw_probe_memrsv_(fdt), fdt |-> fdt]
        ELSE IF offset + ReserveSize > fdt.totalsize
        THEN [ret |-> -FDT_ERR_NOSPACE, fdt |-> fdt]
        ELSE [ret |-> 0, fdt |-> [fdt EXCEPT !.off_dt_struct = offset + ReserveSize,
                                             !.mem = Put(@, offset, re)]]

fdt_finish_reservemap(fdt) ==
    LET Ended(r) == IF r.ret # 0 THEN r ELSE [r EXCEPT !.fdt.off_dt_strings = r.fdt.totalsize]
    IN  Ended(fdt_add_reservemap_entry(fdt, 0, 0))

fdt_begin_node(fdt, name) ==
    LET err == fdt_sw_probe_struct_(fdt)
    IN  IF err # 0 THEN [ret |-> err, fdt |-> fdt]
        ELSE fdt_grab_space_(fdt, FDT_TAGSIZE + FDT_TAGALIGN(Len(name) + 1),
                             Word(FDT_BEGIN_NODE) \o name \o <<0>>)

fdt_end_node(fdt) ==
    LET err == fdt_sw_probe_struct_(fdt)
    IN  IF err # 0 THEN [ret |-> err, fdt |-> fdt]
        ELSE fdt_grab_space_(fdt, FDT_TAGSIZE, Word(FDT_END_NODE))

\* The string's offset from the end of the buffer, negative; 0: no room.  Its
\* callers set allocated: it was not in the table before.
fdt_add_string_(fdt, s) ==
    LET offset == fdt.size_dt_strings + Len(s) + 1
        struct_top == fdt.off_dt_struct + fdt.size_dt_struct
    IN  IF U32(fdt.totalsize - offset) < struct_top
        THEN [off |-> 0, fdt |-> fdt, allocated |-> TRUE]
        ELSE [off |-> -offset, allocated |-> TRUE,
              fdt |-> [fdt EXCEPT !.size_dt_strings = offset,
                                  !.mem = Put(@, fdt.totalsize - offset, s \o <<0>>)]]

\* Seeded fault: one byte of the string before it goes too.
DelStringAndMore(fdt, s) == [fdt EXCEPT !.size_dt_strings = @ - (Len(s) + 2)]

fdt_del_last_string_(fdt, s) == [fdt EXCEPT !.size_dt_strings = @ - (Len(s) + 1)]

\* Found in the table, or added to it.
sw_find_add_string_(fdt, s) ==
    LET Searched(p) == IF p # -1
                       THEN [off |-> p - fdt.totalsize, fdt |-> fdt, allocated |-> FALSE]
                       ELSE fdt_add_string_(fdt, s)
    IN  Searched(fdt_find_string_len_(fdt.mem, fdt.totalsize - fdt.size_dt_strings,
                                      fdt.size_dt_strings, s))

fdt_property(fdt, name, val) ==
    LET Grabbed(str, r) ==
            IF r.ret = 0 THEN r
            ELSE [ret |-> -FDT_ERR_NOSPACE,
                  fdt |-> IF str.allocated THEN fdt_del_last_string_(str.fdt, name) ELSE str.fdt]
        Named(str) ==
            IF str.off = 0 THEN [ret |-> -FDT_ERR_NOSPACE, fdt |-> str.fdt]
            ELSE Grabbed(str, fdt_grab_space_(str.fdt, PropSize + FDT_TAGALIGN(Len(val)),
                             Word(FDT_PROP) \o Word(Len(val)) \o Word(str.off) \o val))
    IN  IF fdt_sw_probe_struct_(fdt) # 0 THEN [ret |-> fdt_sw_probe_struct_(fdt), fdt |-> fdt]
        ELSE IF fdt.last_comp_version = FDT_CREATE_FLAG_NO_NAME_DEDUP
        THEN Named(fdt_add_string_(fdt, name))
        ELSE Named(sw_find_add_string_(fdt, name))

\* The loop of fdt_finish: nameoff of every property becomes an offset from the
\* start of the strings block.
FixNameOffsets(fdt) ==
    LET Fixed(mem, at) == fdt32_st(mem, at, fdt32_ld(mem, at) + fdt.size_dt_strings)
        from[o \in Nat, mem \in [DOMAIN fdt.mem -> Int]] ==
            LET Step(t) == IF t.tag = FDT_END THEN [next |-> t.next, mem |-> mem]
                           ELSE from[t.next, IF t.tag = FDT_PROP
                                             THEN Fixed(mem, fdt.off_dt_struct + o + 8)
                                             ELSE mem]
            IN  Step(fdt_next_tag([fdt EXCEPT !.mem = mem], o))
    IN  from[0, fdt.mem]

fdt_finish(fdt) ==
    LET Walked(f, fixed) ==
            IF fixed.next < 0 THEN [ret |-> fixed.next, fdt |-> [f EXCEPT !.mem = fixed.mem]]
            ELSE [ret |-> 0, fdt |-> [f EXCEPT !.mem = fixed.mem,
                                               !.totalsize = f.off_dt_strings + f.size_dt_strings,
                                               !.last_comp_version = 16,
                                               !.magic = FDT_MAGIC]]
        Fix(f) == Walked(f, FixNameOffsets(f))
        Relocated(f, newstroffset) ==
            [f EXCEPT !.off_dt_strings = newstroffset,
                      !.mem = memmove(@, newstroffset, f.totalsize - f.size_dt_strings,
                                      f.size_dt_strings)]
        Terminated(r) ==
            IF r.ret # 0 THEN r
            ELSE Fix(Relocated(r.fdt, r.fdt.off_dt_struct + r.fdt.size_dt_struct))
    IN  IF fdt_sw_probe_struct_(fdt) # 0 THEN [ret |-> fdt_sw_probe_struct_(fdt), fdt |-> fdt]
        ELSE Terminated(fdt_grab_space_(fdt, FDT_TAGSIZE, Word(FDT_END)))

=============================================================================
