-------------------------------- MODULE FdtRo --------------------------------
(***************************************************************************)
(* The reading functions of fdt_ro.c, fdt_check.c and fdt_addresses.c.  A  *)
(* function that returns a pointer and a length by reference is modelled   *)
(* by a record: len, negative when the pointer is NULL, and what it points *)
(* to.  Functions that only add strlen (fdt_subnode_offset, fdt_getprop,   *)
(* ...) are the _namelen function they call.                               *)
(***************************************************************************)
EXTENDS Fdt, SequencesExt

\* The names libfdt looks for, one symbol each.
S_phandle        == <<201>>
S_linux_phandle  == <<202>>
S_compatible     == <<203>>
S_aliases        == <<204>>
S_symbols        == <<205>>
S_address_cells  == <<206>>
S_size_cells     == <<207>>

-----------------------------------------------------------------------------
(* Strings and reservations. *)

\* The string at a position of the buffer, looked for up to last.
StringUpTo(mem, at, last) ==
    IF HasNul(mem, at, last)
    THEN [len |-> StringEnd(mem, at, last) - at, str |-> Bytes(mem, at, StringEnd(mem, at, last) - at)]
    ELSE [len |-> -FDT_ERR_TRUNCATED, str |-> <<>>]

\* The string at an offset of the strings block.  In an unfinished tree the
\* offsets are negative, from the end of the buffer.
fdt_get_string(fdt, stroffset) ==
    LET total == fdt.totalsize
        abs == stroffset + fdt.off_dt_strings
        outside == \/ abs < 0 \/ abs >= total
                   \/ /\ fdt.magic = FDT_MAGIC
                      /\ \/ stroffset < 0
                         \/ fdt.version >= 17 /\ stroffset >= fdt.size_dt_strings
                   \/ /\ fdt.magic = FDT_SW_MAGIC
                      /\ stroffset >= 0 \/ -stroffset > fdt.size_dt_strings
        blockEnd == IF fdt.magic = FDT_SW_MAGIC THEN fdt.off_dt_strings
                    ELSE IF fdt.version >= 17 THEN fdt.off_dt_strings + fdt.size_dt_strings
                    ELSE total
    IN  IF fdt_ro_probe_(fdt) < 0 THEN [len |-> fdt_ro_probe_(fdt), str |-> <<>>]
        ELSE IF outside THEN [len |-> -FDT_ERR_BADOFFSET, str |-> <<>>]
        ELSE StringUpTo(fdt.mem, abs, (IF blockEnd < total THEN blockEnd ELSE total) - 1)

fdt_string_eq_(fdt, stroffset, s) == fdt_get_string(fdt, stroffset) = [len |-> Len(s), str |-> s]

\* Whether the n-th entry of the reservation map lies in the blob.
fdt_mem_rsv(fdt, n) == fdt.off_mem_rsvmap + n * ReserveSize <= fdt.totalsize - ReserveSize

\* Address and size of an entry: each is a 64-bit field, in its last cell.
fdt_get_mem_rsv(fdt, n) ==
    LET at == fdt.off_mem_rsvmap + n * ReserveSize
    IN  IF fdt_ro_probe_(fdt) < 0 THEN [ret |-> fdt_ro_probe_(fdt), address |-> 0, size |-> 0]
        ELSE IF ~fdt_mem_rsv(fdt, n) THEN [ret |-> -FDT_ERR_BADOFFSET, address |-> 0, size |-> 0]
        ELSE [ret |-> 0, address |-> fdt.mem[at + 7], size |-> fdt.mem[at + 15]]

fdt_num_mem_rsv(fdt) ==
    LET count[i \in Nat] ==
            IF ~fdt_mem_rsv(fdt, i) THEN -FDT_ERR_TRUNCATED
            ELSE IF fdt_get_mem_rsv(fdt, i).size = 0 THEN i
            ELSE count[i + 1]
    IN  IF fdt_ro_probe_(fdt) < 0 THEN fdt_ro_probe_(fdt) ELSE count[0]

-----------------------------------------------------------------------------
(* Nodes by name and path. *)

fdt_get_name(fdt, nodeoffset) ==
    LET abs == fdt.off_dt_struct + nodeoffset + FDT_TAGSIZE
        len == StringEnd(fdt.mem, abs, fdt.totalsize - 1) - abs
        Checked(err) == IF err < 0 THEN [len |-> err, name |-> <<>>]
                        ELSE [len |-> len, name |-> Bytes(fdt.mem, abs, len)]
    IN  Checked(IF fdt_ro_probe_(fdt) < 0 THEN fdt_ro_probe_(fdt)
                ELSE fdt_check_node_offset_(fdt, nodeoffset))

\* A node answers to its name and, if asked without one, to its name without
\* the unit address.
NameMatches(name, s) ==
    /\ Len(name) >= Len(s)
    /\ SubSeq(name, 1, Len(s)) = s
    /\ \/ Len(name) = Len(s)
       \/ /\ \A i \in 1..Len(s) : s[i] # At
          /\ name[Len(s) + 1] = At

fdt_nodename_eq_(fdt, offset, s) ==
    LET Matches(n) == n.len >= 0 /\ NameMatches(n.name, s)
    IN  Matches(fdt_get_name(fdt, offset))

fdt_subnode_offset_namelen(fdt, offset, name) ==
    LET find[at \in Place] ==
            IF at.depth < 0 THEN -FDT_ERR_NOTFOUND
            ELSE IF at.off < 0 THEN at.off
            ELSE IF at.depth = 1 /\ fdt_nodename_eq_(fdt, at.off, name) THEN at.off
            ELSE find[fdt_next_node(fdt, at.off, at.depth, TRUE)]
    IN  IF fdt_ro_probe_(fdt) < 0 THEN fdt_ro_probe_(fdt)
        ELSE find[[off |-> offset, depth |-> 0]]

\* The loop of fdt_path_offset_namelen: from a node along the components of a
\* path, where runs of slashes count as one.
WalkPath(fdt, from, path) ==
    LET n == Len(path)
        ComponentEnd(p) == LET q == {i \in p..n : path[i] = Slash}
                           IN  IF q = {} THEN n ELSE (CHOOSE i \in q : \A j \in q : i <= j) - 1
        walk[p \in Nat, o \in Int] ==
            IF o < 0 \/ p > n THEN o
            ELSE IF path[p] = Slash THEN walk[p + 1, o]
            ELSE walk[ComponentEnd(p) + 1,
                      fdt_subnode_offset_namelen(fdt, o, SubSeq(path, p, ComponentEnd(p)))]
    IN  walk[1, from]

\* nextprop_: the first property at or behind an offset, over NOPs only.
nextprop_(fdt, offset) ==
    LET from[o \in Nat] ==
            LET Step(t) ==
                    IF t.tag = FDT_END THEN IF t.next >= 0 THEN -FDT_ERR_BADSTRUCTURE ELSE t.next
                    ELSE IF t.tag = FDT_PROP THEN o
                    ELSE IF t.tag = FDT_NOP THEN from[t.next]
                    ELSE -FDT_ERR_NOTFOUND
            IN  Step(fdt_next_tag(fdt, o))
    IN  from[offset]

\* The first property from an offset on that was checked; an error stays one.
PropertyFrom(fdt, checked) == IF checked < 0 THEN checked ELSE nextprop_(fdt, checked)

fdt_first_property_offset(fdt, nodeoffset) ==
    PropertyFrom(fdt, fdt_check_node_offset_(fdt, nodeoffset))

fdt_next_property_offset(fdt, offset) == PropertyFrom(fdt, fdt_check_prop_offset_(fdt, offset))

\* fdt_for_each_property_offset: the offsets the macro's loop goes through.
fdt_for_each_property_offset(fdt, node) ==
    LET from[o \in Int] ==
            IF o < 0 THEN <<>> ELSE <<o>> \o from[fdt_next_property_offset(fdt, o)]
    IN  from[fdt_first_property_offset(fdt, node)]

\* Where a property's value is, as an offset of the buffer, and its length.
fdt_get_property_by_offset_(fdt, offset) ==
    LET Checked(err) ==
            IF err < 0 THEN [len |-> err, nameoff |-> 0, data |-> 0]
            ELSE [len |-> At32(fdt, offset + 4), nameoff |-> At32(fdt, offset + 8),
                  data |-> fdt.off_dt_struct + offset + PropSize]
    IN  Checked(fdt_check_prop_offset_(fdt, offset))

\* The loop goes on behind a property that can be read and has another name.
HasOtherName(fdt, p, name) == p.len >= 0 /\ ~fdt_string_eq_(fdt, p.nameoff, name)

\* The property of that name: its offset, and len as above.
fdt_get_property_namelen_(fdt, nodeoffset, name) ==
    LET find[o \in Int] ==
            IF o >= 0 /\ HasOtherName(fdt, fdt_get_property_by_offset_(fdt, o), name)
            THEN find[fdt_next_property_offset(fdt, o)]
            ELSE o
        Read(o, p) == IF p.len < 0 THEN [len |-> -FDT_ERR_INTERNAL, off |-> -1, data |-> 0]
                      ELSE [len |-> p.len, off |-> o, data |-> p.data]
        Found(o) == IF o < 0 THEN [len |-> o, off |-> o, data |-> 0]
                    ELSE Read(o, fdt_get_property_by_offset_(fdt, o))
    IN  Found(find[fdt_first_property_offset(fdt, nodeoffset)])

\* The value of the property of that name.
fdt_getprop_namelen(fdt, nodeoffset, name) ==
    LET Value(p) == [len |-> p.len,
                     val |-> IF p.len < 0 THEN <<>> ELSE Bytes(fdt.mem, p.data, p.len)]
    IN  Value(fdt_get_property_namelen_(fdt, nodeoffset, name))

\* Name and value of the property at an offset.
fdt_getprop_by_offset(fdt, offset) ==
    LET Named(p, s) == IF s.len < 0 THEN [len |-> s.len, name |-> <<>>, val |-> <<>>]
                       ELSE [len |-> p.len, name |-> s.str, val |-> Bytes(fdt.mem, p.data, p.len)]
        Found(p) == IF p.len < 0 THEN [len |-> p.len, name |-> <<>>, val |-> <<>>]
                    ELSE Named(p, fdt_get_string(fdt, p.nameoff))
    IN  Found(fdt_get_property_by_offset_(fdt, offset))

\* The property of that name of the node at an absolute path.
fdt_path_getprop_namelen(fdt, path, name) ==
    LET Of(node) == IF node < 0 THEN [len |-> node, val |-> <<>>]
                    ELSE fdt_getprop_namelen(fdt, node, name)
    IN  Of(WalkPath(fdt, 0, path))

\* The path an alias stands for; it has to be absolute and end in NUL.
fdt_get_alias_namelen(fdt, name) ==
    LET Path(a) == IF a.len > 0 /\ a.val[a.len] = 0 /\ a.val[1] = Slash
                   THEN SubSeq(a.val, 1, StringEnd(a.val, 1, a.len) - 1)
                   ELSE <<>>
    IN  Path(fdt_path_getprop_namelen(fdt, <<Slash>> \o S_aliases, name))

\* The node behind an alias and the rest of the path.
BehindAlias(fdt, alias, rest) ==
    IF alias = <<>> THEN -FDT_ERR_BADPATH ELSE WalkPath(fdt, WalkPath(fdt, 0, alias), rest)

fdt_path_offset_namelen(fdt, path) ==
    LET n == Len(path)
        q == IF \E i \in 1..n : path[i] = Slash
             THEN CHOOSE i \in 1..n : path[i] = Slash /\ \A j \in 1..(i - 1) : path[j] # Slash
             ELSE n + 1
    IN  IF fdt_ro_probe_(fdt) < 0 THEN fdt_ro_probe_(fdt)
        ELSE IF n = 0 THEN -FDT_ERR_BADPATH
        ELSE IF path[1] = Slash THEN WalkPath(fdt, 0, path)
        ELSE BehindAlias(fdt, fdt_get_alias_namelen(fdt, SubSeq(path, 1, q - 1)),
                         SubSeq(path, q, n))

fdt_get_symbol_namelen(fdt, name) ==
    fdt_path_getprop_namelen(fdt, <<Slash>> \o S_symbols, name)

-----------------------------------------------------------------------------
(* Phandles. *)

\* 0 when neither property is there with the length of a cell.
fdt_get_phandle(fdt, nodeoffset) ==
    LET Cell(p, otherwise) == IF p.len = 4 THEN p.val[4] ELSE otherwise
    IN  Cell(fdt_getprop_namelen(fdt, nodeoffset, S_phandle),
             Cell(fdt_getprop_namelen(fdt, nodeoffset, S_linux_phandle), 0))

\* The largest phandle of the tree, or an error of the walk.
fdt_find_max_phandle(fdt) ==
    LET Larger(m, value) == IF value > m THEN value ELSE m
        from[o \in Int, m \in Nat] ==
            IF o = -FDT_ERR_NOTFOUND THEN [ret |-> 0, max |-> m]
            ELSE IF o < 0 THEN [ret |-> o, max |-> 0]
            ELSE from[NextNode(fdt, o), Larger(m, fdt_get_phandle(fdt, o))]
    IN  from[NextNode(fdt, -1), 0]

fdt_generate_phandle(fdt) ==
    LET Above(m) == IF m.ret < 0 THEN m
                    ELSE IF m.max = FDT_MAX_PHANDLE
                    THEN [ret |-> -FDT_ERR_NOPHANDLES, max |-> 0]
                    ELSE [ret |-> 0, max |-> m.max + 1]
    IN  Above(fdt_find_max_phandle(fdt))

\* The first node behind start, in document order, that a test holds of.
NodeSearch(fdt, start, Wanted(_)) ==
    LET from[o \in Int] == IF o < 0 \/ Wanted(o) THEN o ELSE from[NextNode(fdt, o)]
    IN  from[NextNode(fdt, start)]

fdt_node_offset_by_phandle(fdt, phandle) ==
    IF phandle \in {0, PhandleMod - 1} THEN -FDT_ERR_BADPHANDLE
    ELSE IF fdt_ro_probe_(fdt) < 0 THEN fdt_ro_probe_(fdt)
    ELSE NodeSearch(fdt, -1, LAMBDA o : fdt_get_phandle(fdt, o) = phandle)

fdt_node_offset_by_prop_value(fdt, start, name, val) ==
    IF fdt_ro_probe_(fdt) < 0 THEN fdt_ro_probe_(fdt)
    ELSE NodeSearch(fdt, start,
            LAMBDA o : fdt_getprop_namelen(fdt, o, name) = [len |-> Len(val), val |-> val])

-----------------------------------------------------------------------------
(* Depth, parents and paths: walks from the root to the node. *)

\* What the loops of fdt_get_path and fdt_supernode_atdepth_offset return when
\* the walk ends without having met the node.
WalkMissed(offset) ==
    IF offset = -FDT_ERR_NOTFOUND \/ offset >= 0 THEN -FDT_ERR_BADOFFSET
    ELSE IF offset = -FDT_ERR_BADOFFSET THEN -FDT_ERR_BADSTRUCTURE
    ELSE offset

\* The path of a node, for a buffer of buflen bytes.  comps are the names in
\* the buffer, each with a slash behind it; a name that does not fit is left
\* out, and with it the names below it.
fdt_get_path(fdt, nodeoffset, buflen) ==
    LET Text(comps) == FlattenSeq([i \in 1..Len(comps) |-> comps[i] \o <<Slash>>])
        Result(text) == IF Len(text) > 1 THEN Front(text) ELSE text
        walk[at \in Place, comps \in Seq(Seq(Nat))] ==
            LET kept == IF Len(comps) > at.depth THEN SubSeq(comps, 1, at.depth) ELSE comps
                Fits(n) == Len(Text(kept)) + n.len + 1 <= buflen
                Go(now) == IF at.off # nodeoffset
                           THEN walk[fdt_next_node(fdt, at.off, at.depth, TRUE), now]
                           ELSE IF Len(now) < at.depth + 1
                           THEN [ret |-> -FDT_ERR_NOSPACE, path |-> <<>>]
                           ELSE [ret |-> 0, path |-> Result(Text(now))]
                Named(n) == IF n.len < 0 THEN [ret |-> n.len, path |-> <<>>]
                            ELSE Go(IF Fits(n) THEN Append(kept, n.name) ELSE kept)
            IN  IF at.off < 0 \/ at.off > nodeoffset
                THEN [ret |-> WalkMissed(at.off), path |-> <<>>]
                ELSE IF Len(kept) >= at.depth THEN Named(fdt_get_name(fdt, at.off))
                ELSE Go(kept)
    IN  IF fdt_ro_probe_(fdt) < 0 THEN [ret |-> fdt_ro_probe_(fdt), path |-> <<>>]
        ELSE IF buflen < 2 THEN [ret |-> -FDT_ERR_NOSPACE, path |-> <<>>]
        ELSE walk[[off |-> 0, depth |-> 0], <<>>]

\* The ancestor of a node at a depth, and the depth of the node itself.
fdt_supernode_atdepth_offset(fdt, nodeoffset, supernodedepth) ==
    LET walk[at \in Place, super \in Int] ==
            LET now == IF at.depth = supernodedepth THEN at.off ELSE super
            IN  IF at.off < 0 \/ at.off > nodeoffset
                THEN [ret |-> WalkMissed(at.off), depth |-> 0]
                ELSE IF at.off = nodeoffset
                THEN [ret |-> IF supernodedepth > at.depth THEN -FDT_ERR_NOTFOUND ELSE now,
                      depth |-> at.depth]
                ELSE walk[fdt_next_node(fdt, at.off, at.depth, TRUE), now]
    IN  IF fdt_ro_probe_(fdt) < 0 THEN [ret |-> fdt_ro_probe_(fdt), depth |-> 0]
        ELSE IF supernodedepth < 0 THEN [ret |-> -FDT_ERR_NOTFOUND, depth |-> 0]
        ELSE walk[[off |-> 0, depth |-> 0], -FDT_ERR_INTERNAL]

fdt_node_depth(fdt, nodeoffset) ==
    LET Depth(r) == IF r.ret < 0 THEN r.ret
                    ELSE IF r.ret > 0 THEN -FDT_ERR_INTERNAL
                    ELSE r.depth
    IN  Depth(fdt_supernode_atdepth_offset(fdt, nodeoffset, 0))

\* Seeded fault: the ancestor at the node's own depth.
ParentAtDepth(fdt, nodeoffset) ==
    LET Above(d) == IF d < 0 THEN d ELSE fdt_supernode_atdepth_offset(fdt, nodeoffset, d).ret
    IN  Above(fdt_node_depth(fdt, nodeoffset))

fdt_parent_offset(fdt, nodeoffset) ==
    LET Above(d) == IF d < 0 THEN d ELSE fdt_supernode_atdepth_offset(fdt, nodeoffset, d - 1).ret
    IN  Above(fdt_node_depth(fdt, nodeoffset))

-----------------------------------------------------------------------------
(* Lists of strings. *)

\* Seeded fault: the end of a string of the list is not compared.
ListHasPrefix(mem, at, listlen, str) ==
    LET len == Len(str)
        from[o \in Nat, left \in Int] ==
            IF left < len THEN FALSE
            ELSE IF Bytes(mem, o, len) = str THEN TRUE
            ELSE IF ~HasNul(mem, o, o + left - 1) THEN FALSE
            ELSE LET e == StringEnd(mem, o, o + left - 1)
                          IN  from[e + 1, left - (e - o) - 1]
    IN  from[at, listlen]

\* Whether a list of listlen bytes at an offset of the buffer has the string:
\* the comparison includes the NUL behind it, also where the list ends there.
fdt_stringlist_contains(mem, at, listlen, str) ==
    LET len == Len(str)
        from[o \in Nat, left \in Int] ==
            IF left < len THEN FALSE
            ELSE IF Bytes(mem, o, len + 1) = Append(str, 0) THEN TRUE
            ELSE IF ~HasNul(mem, o, o + left - 1) THEN FALSE
            ELSE LET e == StringEnd(mem, o, o + left - 1)
                          IN  from[e + 1, left - (e - o) - 1]
    IN  from[at, listlen]

\* The strings of a value, or the error of one that does not end in NUL.
StringList(val) ==
    LET from[i \in Nat, acc \in Seq(Seq(Nat))] ==
            IF i > Len(val) THEN [err |-> 0, list |-> acc]
            ELSE IF ~HasNul(val, i, Len(val)) THEN
                    [err |-> -FDT_ERR_BADVALUE, list |-> acc]
            ELSE LET e == StringEnd(val, i, Len(val))
                          IN  from[e + 1, Append(acc, SubSeq(val, i, e - 1))]
    IN  from[1, <<>>]

\* The strings of a property, or the error met before they were read.
PropertyStrings(fdt, nodeoffset, property) ==
    LET Of(p) == IF p.len < 0 THEN [err |-> p.len, list |-> <<>>] ELSE StringList(p.val)
    IN  Of(fdt_getprop_namelen(fdt, nodeoffset, property))

fdt_stringlist_count(fdt, nodeoffset, property) ==
    LET Count(l) == IF l.err < 0 THEN l.err ELSE Len(l.list)
    IN  Count(PropertyStrings(fdt, nodeoffset, property))

\* The first index, from 0, the string has; an error behind it is not met.
fdt_stringlist_search(fdt, nodeoffset, property, string) ==
    LET First(hits, err) == IF hits # {} THEN (CHOOSE i \in hits : \A j \in hits : i <= j) - 1
                            ELSE IF err < 0 THEN err ELSE -FDT_ERR_NOTFOUND
        Search(l) == First({i \in 1..Len(l.list) : l.list[i] = string}, l.err)
    IN  Search(PropertyStrings(fdt, nodeoffset, property))

fdt_stringlist_get(fdt, nodeoffset, property, idx) ==
    LET Get(l) == IF idx \in 0..(Len(l.list) - 1)
                  THEN [len |-> Len(l.list[idx + 1]), str |-> l.list[idx + 1]]
                  ELSE [len |-> IF l.err < 0 THEN l.err ELSE -FDT_ERR_NOTFOUND, str |-> <<>>]
    IN  Get(PropertyStrings(fdt, nodeoffset, property))

\* 0: compatible, 1: not, negative: an error.
fdt_node_check_compatible(fdt, nodeoffset, compatible) ==
    LET Check(p) == IF p.len < 0 THEN p.len
                    ELSE IF fdt_stringlist_contains(fdt.mem, p.data, p.len, compatible) THEN 0
                    ELSE 1
    IN  Check(fdt_get_property_namelen_(fdt, nodeoffset, S_compatible))

fdt_node_offset_by_compatible(fdt, start, compatible) ==
    LET from[o \in Int] ==
            LET Checked(err) == IF err < 0 /\ err # -FDT_ERR_NOTFOUND THEN err
                                ELSE IF err = 0 THEN o
                                ELSE from[NextNode(fdt, o)]
            IN  IF o < 0 THEN o ELSE Checked(fdt_node_check_compatible(fdt, o, compatible))
    IN  IF fdt_ro_probe_(fdt) < 0 THEN fdt_ro_probe_(fdt) ELSE from[NextNode(fdt, start)]

-----------------------------------------------------------------------------
(* fdt_addresses.c: how many cells an address and a size have. *)

FDT_MAX_NCELLS == 4

fdt_cells(fdt, nodeoffset, name) ==
    LET Number(c) == IF c.len < 0 THEN c.len
                     ELSE IF c.len # 4 \/ c.val[4] > FDT_MAX_NCELLS THEN -FDT_ERR_BADNCELLS
                     ELSE c.val[4]
    IN  Number(fdt_getprop_namelen(fdt, nodeoffset, name))

fdt_address_cells(fdt, nodeoffset) ==
    LET Or2(val) == IF val = 0 THEN -FDT_ERR_BADNCELLS
                    ELSE IF val = -FDT_ERR_NOTFOUND THEN 2
                    ELSE val
    IN  Or2(fdt_cells(fdt, nodeoffset, S_address_cells))

fdt_size_cells(fdt, nodeoffset) ==
    LET Or1(val) == IF val = -FDT_ERR_NOTFOUND THEN 1 ELSE val
    IN  Or1(fdt_cells(fdt, nodeoffset, S_size_cells))

-----------------------------------------------------------------------------
(* fdt_check.c: whether a buffer of bufsize bytes holds a well-formed tree. *)

fdt_check_full(fdt, bufsize) ==
    LET RootName(len) == IF len > 0 THEN -FDT_ERR_BADSTRUCTURE ELSE len
        walk[o \in Nat, depth \in Nat, expect_end \in BOOLEAN] ==
            LET Unless(err, rest) == IF err < 0 THEN err ELSE rest
                Step(t) ==
                    IF t.next < 0 THEN t.next
                    ELSE IF expect_end /\ t.tag \notin {FDT_END, FDT_NOP}
                    THEN -FDT_ERR_BADSTRUCTURE
                    ELSE CASE t.tag = FDT_END -> IF depth # 0 THEN -FDT_ERR_BADSTRUCTURE ELSE 0
                           [] t.tag = FDT_BEGIN_NODE ->
                                  Unless(IF depth = 0 THEN RootName(fdt_get_name(fdt, o).len) ELSE 0,
                                         walk[t.next, depth + 1, FALSE])
                           [] t.tag = FDT_END_NODE ->
                                  IF depth = 0 THEN -FDT_ERR_BADSTRUCTURE
                                  ELSE walk[t.next, depth - 1, depth = 1]
                           [] t.tag = FDT_PROP ->
                                  Unless(fdt_getprop_by_offset(fdt, o).len,
                                         walk[t.next, depth, FALSE])
                           [] t.tag = FDT_NOP -> walk[t.next, depth, expect_end]
            IN  Step(fdt_next_tag(fdt, o))
    IN  IF bufsize < 28 \/ bufsize < fdt_header_size_(fdt.version) THEN -FDT_ERR_TRUNCATED
        ELSE IF fdt_check_header(fdt) # 0 THEN fdt_check_header(fdt)
        ELSE IF bufsize < fdt.totalsize THEN -FDT_ERR_TRUNCATED
        ELSE IF fdt_num_mem_rsv(fdt) < 0 THEN fdt_num_mem_rsv(fdt)
        ELSE walk[0, 0, FALSE]

=============================================================================
