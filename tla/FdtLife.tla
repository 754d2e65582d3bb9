------------------------------- MODULE FdtLife -------------------------------
(***************************************************************************)
(* The life of one blob: it is created in a buffer, written sequentially,  *)
(* finished, opened for changes, edited and packed, by a caller that may   *)
(* make any call at any time and meets every error libfdt returns.         *)
(*                                                                         *)
(* The caller keeps to the rules of a device tree, which libfdt does not   *)
(* enforce: one root, its name empty; the properties of a node before its  *)
(* subnodes; no two properties or subnodes of the same name in a node;     *)
(* changes only to a tree whose nodes are all ended.  It may finish one    *)
(* whose nodes are not.                                                    *)
(***************************************************************************)
EXTENDS FdtRw, FdtMeaning

CONSTANTS
    BufSize,       \* the bytes of the buffer
    Grants,        \* how many of them the caller says it has
    Flags,         \* the flags it creates trees with
    NodeNames,     \* names of nodes other than the root
    Props,         \* pairs of a property's name and a value for it
    Ranges,        \* pairs of an address and a size
    Budget         \* bound: calls that add to the tree, change it or move it

ASSUME BufAssumption == BufSize \in Nat /\ \A g \in Grants : g \in 0..BufSize

\* Names and values are strings of some cells.
ASSUME StringAssumption ==
    LET IsString(s) == s \in Seq({s[i] : i \in DOMAIN s})
    IN  /\ \A n \in NodeNames : IsString(n)
        /\ \A p \in Props : IsString(p[1]) /\ IsString(p[2])

VARIABLES
    fdt,      \* the blob
    view,     \* the device tree it stands for, see View
    granted,  \* the most the caller has said the buffer has
    spent     \* calls made of the Budget

vars == <<fdt, view, granted, spent>>

PropNames == {p[1] : p \in Props}

\* What the buffer holds before it is written to.
Canary == 7777

-----------------------------------------------------------------------------
\* The device tree the blob stands for.
DT == INSTANCE DeviceTree WITH
          stage <- view.stage, stack <- view.stack, nodes <- view.nodes, rsv <- view.rsv,
          Values <- {p[2] : p \in Props} \cup
                    {Cells(ac, r[1]) \o Cells(sc, r[2]) : ac \in 1..2, sc \in 1..2, r \in Ranges},
          Reservations <- Ranges

-----------------------------------------------------------------------------
(* The calls. *)

\* A call made: the blob is what the call leaves, whatever it returns.
Called(r) ==
    /\ fdt' = r.fdt
    /\ view' = View(fdt')

\* One of the calls there is a budget for.
Counted(r) ==
    /\ spent < Budget
    /\ Called(r)
    /\ spent' = IF fdt' = fdt THEN spent ELSE spent + 1

Init ==
    /\ fdt = [magic |-> NO_MAGIC, version |-> 0, last_comp_version |-> 0, totalsize |-> 0,
              off_mem_rsvmap |-> 0, off_dt_struct |-> 0, off_dt_strings |-> 0,
              size_dt_strings |-> 0, size_dt_struct |-> 0,
              mem |-> [i \in 0..(BufSize - 1) |-> Canary]]
    /\ view = View(fdt)
    /\ granted = 0
    /\ spent = 0

Grant(g) == granted' = IF g > granted THEN g ELSE granted

Create(g, flags) ==
    /\ view.stage = "none"
    /\ Called(fdt_create_with_flags(fdt, g, flags))
    /\ Grant(g) /\ UNCHANGED spent

CreateEmpty(g) ==
    /\ view.stage = "none"
    /\ Called(fdt_create_empty_tree(fdt, g))
    /\ Grant(g) /\ UNCHANGED spent

Resize(g) ==
    /\ Counted(fdt_resize(fdt, g))
    /\ Grant(g)

Reserve(r) ==
    /\ Counted(fdt_add_reservemap_entry(fdt, r[1], r[2]))
    /\ UNCHANGED granted

ReserveEnd == Called(fdt_finish_reservemap(fdt)) /\ UNCHANGED <<granted, spent>>

BeginNode(name) ==
    /\ \/ view.order = <<>> /\ name = <<>> /\ Called(fdt_begin_node(fdt, name)) /\ UNCHANGED spent
       \/ /\ view.stack # <<>> /\ name # <<>>
          /\ Append(Tail(view.stack), name) \notin DOMAIN view.nodes
          /\ Counted(fdt_begin_node(fdt, name))
    /\ UNCHANGED granted

EndNode ==
    /\ view.stack # <<>>
    /\ Called(fdt_end_node(fdt))
    /\ UNCHANGED <<granted, spent>>

Property(p) ==
    /\ view.stack # <<>>
    /\ p[1] \notin DOMAIN view.nodes[Tail(view.stack)]
    /\ Tail(view.stack) = Last(view.order).path
    /\ Counted(fdt_property(fdt, p[1], p[2]))
    /\ UNCHANGED granted

Finish == Called(fdt_finish(fdt)) /\ UNCHANGED <<granted, spent>>

\* The same tree as another program writes it: version 16, whose header has no
\* size_dt_struct, and the strings before the structure.
ForeignLayout ==
    LET rsvsize == (Len(view.rsv) + 1) * ReserveSize
        strings == HeaderSize + rsvsize
        struct == FDT_TAGALIGN(strings + fdt.size_dt_strings)
        total == struct + fdt.size_dt_struct
        gap == [i \in 1..(struct - strings - fdt.size_dt_strings) |-> 0]
        blocks == Bytes(fdt.mem, fdt.off_mem_rsvmap, rsvsize)
                  \o Bytes(fdt.mem, fdt.off_dt_strings, fdt.size_dt_strings) \o gap
                  \o Bytes(fdt.mem, fdt.off_dt_struct, fdt.size_dt_struct)
    IN  /\ view.stage = "complete" /\ view.stack = <<>> /\ view.order # <<>>
        /\ fdt.version = 17 /\ total <= granted
        /\ fdt' = [fdt EXCEPT !.version = 16, !.totalsize = total, !.size_dt_struct = 0,
                              !.off_mem_rsvmap = HeaderSize, !.off_dt_strings = strings,
                              !.off_dt_struct = struct, !.mem = Put(@, HeaderSize, blocks)]
        /\ view' = View(fdt')
        /\ UNCHANGED <<granted, spent>>

OpenInto(g) ==
    /\ view.stage = "complete"
    /\ Counted(fdt_open_into(fdt, g))
    /\ Grant(g)

Pack ==
    /\ view.stage = "complete"
    /\ Counted(fdt_pack(fdt))
    /\ UNCHANGED granted

-----------------------------------------------------------------------------
(* Changes to a complete tree.  Each set is what the calls of a kind return *)
(* in the present state, for every node and argument.                       *)

Sound == view.stage = "complete" /\ view.stack = <<>> /\ view.order # <<>>

Offsets == {view.order[i].off : i \in DOMAIN view.order}

BelowRoot == {x \in ToSet(view.order) : x.path # <<>>}

SetPropCalls == {fdt_setprop(fdt, o, p[1], p[2]) : o \in Offsets, p \in Props}

InPlaceCalls == {fdt_setprop_inplace(fdt, o, p[1], p[2]) : o \in Offsets, p \in Props}

AppendPropCalls ==
    {fdt_appendprop(fdt, o, p[1], p[2]) : o \in Offsets, p \in Props} \cup
    {fdt_appendprop_addrrange(fdt, 0, o, k, r[1], r[2]) : o \in Offsets, k \in PropNames, r \in Ranges}

DelPropCalls == {fdt_delprop(fdt, o, k) : o \in Offsets, k \in PropNames}

NopPropCalls == {fdt_nop_property(fdt, o, k) : o \in Offsets, k \in PropNames}

AddSubnodeCalls == {fdt_add_subnode(fdt, o, n) : o \in Offsets, n \in NodeNames}

\* Not to the name of a sibling, which libfdt would let pass.
SetNameCalls ==
    LET free == {s \in BelowRoot \X NodeNames :
                    Append(Front(s[1].path), s[2]) \notin DOMAIN view.nodes \ {s[1].path}}
    IN  {fdt_set_name(fdt, s[1].off, s[2]) : s \in free}

DelNodeCalls == {fdt_del_node(fdt, x.off) : x \in BelowRoot}

NopNodeCalls == {fdt_nop_node(fdt, x.off) : x \in BelowRoot}

AddRsvCalls == {fdt_add_mem_rsv(fdt, r[1], r[2]) : r \in Ranges}

DelRsvCalls == {fdt_del_mem_rsv(fdt, n) : n \in 0..Len(view.rsv)}

Edit(calls) ==
    /\ Sound
    /\ \E r \in calls : Counted(r)
    /\ UNCHANGED granted

SetProp == Edit(SetPropCalls)

SetPropInPlace == Edit(InPlaceCalls)

AppendProp == Edit(AppendPropCalls)

DelProp == Edit(DelPropCalls)

NopProp == Edit(NopPropCalls)

AddSubnode == Edit(AddSubnodeCalls)

SetName == Edit(SetNameCalls)

DelNode == Edit(DelNodeCalls)

NopNode == Edit(NopNodeCalls)

AddRsv == Edit(AddRsvCalls)

DelRsv == Edit(DelRsvCalls)

Next ==
    \/ \E g \in Grants, flags \in Flags : Create(g, flags)
    \/ \E g \in Grants : CreateEmpty(g) \/ Resize(g) \/ OpenInto(g)
    \/ \E r \in Ranges : Reserve(r)
    \/ ReserveEnd
    \/ \E n \in NodeNames \cup {<<>>} : BeginNode(n)
    \/ EndNode
    \/ \E p \in Props : Property(p)
    \/ Finish
    \/ ForeignLayout
    \/ Pack
    \/ SetProp \/ SetPropInPlace \/ AppendProp \/ DelProp \/ NopProp
    \/ AddSubnode \/ SetName \/ DelNode \/ NopNode
    \/ AddRsv \/ DelRsv

Spec == Init /\ [][Next]_vars

-----------------------------------------------------------------------------
(* Properties. *)

\* What the state is made of; no offset or size is an error, and once a tree is
\* complete it has none of the negative offsets fdt_sw.c uses for names.
TypeOK ==
    /\ fdt \in [magic : {FDT_MAGIC, FDT_SW_MAGIC, NO_MAGIC}, version : Nat,
                last_comp_version : Nat, totalsize : Nat, off_mem_rsvmap : Nat,
                off_dt_struct : Nat, off_dt_strings : Nat, size_dt_strings : Nat,
                size_dt_struct : Nat, mem : [0..(BufSize - 1) -> Int]]
    /\ view.stage = "complete" => fdt.mem \in [0..(BufSize - 1) -> Nat]
    /\ Offsets \subseteq Nat
    /\ granted \in 0..BufSize /\ spent \in 0..Budget

\* No call writes outside the buffer, or behind the bytes the caller has said
\* the buffer has: what lies there is as it was.
WritesInBuffer ==
    /\ DOMAIN fdt.mem = 0..(BufSize - 1)
    /\ \A i \in granted..(BufSize - 1) : fdt.mem[i] = Canary

\* In every state the header is well-formed, the blocks lie behind each other in
\* the part of the buffer it claims, and none overlaps another: the structure
\* grows from below and the strings from above while the tree is written
\* (fdt_grab_space_, fdt_add_string_), all of them move in a finished one
\* (fdt_splice_).
LayoutSound ==
    LET rsv == [from |-> fdt.off_mem_rsvmap,
                to |-> fdt.off_mem_rsvmap + ReserveSize *
                           (Len(view.rsv) + IF view.stage = "memrsv" THEN 0 ELSE 1)]
        struct == [from |-> fdt.off_dt_struct,
                   to |-> fdt.off_dt_struct +
                          IF fdt.version = 16 THEN StructSize(fdt) ELSE fdt.size_dt_struct]
        strings == IF view.stage = "complete"
                   THEN [from |-> fdt.off_dt_strings,
                         to |-> fdt.off_dt_strings + fdt.size_dt_strings]
                   ELSE [from |-> fdt.totalsize - fdt.size_dt_strings, to |-> fdt.totalsize]
        Apart(x, y) == x.to <= y.from \/ y.to <= x.from
    IN  TypeOK /\ (view.stage # "none" =>
            /\ Apart(rsv, struct) /\ Apart(struct, strings) /\ Apart(rsv, strings)
            /\ \A x \in {rsv, struct, strings} : x.from >= HeaderSize /\ x.to <= fdt.totalsize
            /\ fdt.totalsize <= granted)

\* fdt_check_full accepts a finished tree exactly when each of its nodes has
\* been ended, whatever calls have led to it; fdt_finish itself does not look.
SoundWhenBalanced ==
    view.stage = "complete" => (fdt_check_full(fdt, BufSize) = 0 <=> view.stack = <<>>)

\* Every call changes the tree as the abstract one is changed, or not at all:
\* properties, nodes and reservations other than the one a call is about are
\* what they were, wherever their bytes have been moved to.
Implements == DT!Spec

Children(x) == SelectSeq(view.order, LAMBDA y : y.path # <<>> /\ Front(y.path) = x.path)

\* Whether no sibling of the node, or of one above it, answers to its name too:
\* a path is followed to the first child that answers, without turning back.
Unambiguous(x) ==
    \A y \in ToSet(view.order) \ {Head(view.order)} :
        /\ Len(y.path) <= Len(x.path) /\ IsPrefix(Front(y.path), x.path)
        /\ NameMatches(Last(y.path), x.path[Len(y.path)])
        => IsPrefix(y.path, x.path)

PathText(path) == IF path = <<>> THEN <<Slash>>
                  ELSE FlattenSeq([i \in DOMAIN path |-> <<Slash>> \o path[i]])

\* The functions that walk the tree agree with it and with each other: a node's
\* children are those with its path and one name more, its depth and parent are
\* those of its path, the path fdt_get_path gives leads back to it, and a buffer
\* for the path has to have room for its NUL, not less.
NavigationAgrees ==
    Sound => \A x \in ToSet(view.order) :
        LET text == PathText(x.path)
            above == {y \in ToSet(view.order) : IsPrefix(y.path, x.path)}
        IN  /\ fdt_for_each_subnode(fdt, x.off) = [i \in DOMAIN Children(x) |-> Children(x)[i].off]
            /\ fdt_node_depth(fdt, x.off) = Len(x.path)
            /\ \A y \in above : fdt_supernode_atdepth_offset(fdt, x.off, Len(y.path)).ret = y.off
            /\ IF x.path = <<>> THEN fdt_parent_offset(fdt, x.off) = -FDT_ERR_NOTFOUND
               ELSE \E y \in above : y.path = Front(x.path) /\ fdt_parent_offset(fdt, x.off) = y.off
            /\ fdt_get_path(fdt, x.off, Len(text) + 1) = [ret |-> 0, path |-> text]
            /\ fdt_get_path(fdt, x.off, Len(text)).ret = -FDT_ERR_NOSPACE
            /\ Unambiguous(x) => fdt_path_offset_namelen(fdt, text) = x.off

\* The first node behind an offset, in the order of the blob, that Has holds of.
FirstAfter(start, Has(_)) ==
    LET hits == SelectSeq(view.order, LAMBDA x : x.off > start /\ Has(view.nodes[x.path]))
    IN  IF hits = <<>> THEN -FDT_ERR_NOTFOUND ELSE Head(hits).off

\* The strings of a list are the stretches between its NULs.
Strings(val) ==
    LET nul == {i \in DOMAIN val : val[i] = 0}
        Start(e) == IF \E i \in nul : i < e
                    THEN 1 + CHOOSE i \in nul : i < e /\ \A j \in nul : j < e => j <= i ELSE 1
    IN  {SubSeq(val, Start(e), e - 1) : e \in nul}

\* What a lookup finds is what the tree has: by name, by value, by phandle, by
\* compatible string and in the reservation map, also when one name is the end
\* of another and shares its bytes, or names were taken out and put in again.
\* Count, search and get agree on the strings of a list, and a phandle that
\* fdt_generate_phandle makes up is no node's.
LookupsAgree ==
    Sound =>
        /\ \A x \in ToSet(view.order), k \in PropNames :
            LET props == view.nodes[x.path]
                found == fdt_getprop_namelen(fdt, x.off, k)
            IN  IF k \in DOMAIN props
                THEN found = [len |-> Len(props[k]), val |-> props[k]]
                ELSE found.len = -FDT_ERR_NOTFOUND
        /\ \A x \in ToSet(view.order) :
            LET listed == fdt_for_each_property_offset(fdt, x.off)
            IN  /\ Len(listed) = Cardinality(DOMAIN view.nodes[x.path])
                /\ \A i \in DOMAIN listed :
                    fdt_getprop_by_offset(fdt, listed[i]).name \in DOMAIN view.nodes[x.path]
        /\ \A start \in Offsets \cup {-1} :
            /\ \A p \in Props :
                fdt_node_offset_by_prop_value(fdt, start, p[1], p[2]) =
                    FirstAfter(start, LAMBDA props : p[1] \in DOMAIN props /\ props[p[1]] = p[2])
            /\ \A s \in {<<120>>, <<120, 121>>, <<121>>} :
                fdt_node_offset_by_compatible(fdt, start, s) =
                    FirstAfter(start, LAMBDA props : /\ S_compatible \in DOMAIN props
                                                     /\ s \in Strings(props[S_compatible]))
        /\ \A x \in ToSet(view.order) : S_compatible \in DOMAIN view.nodes[x.path] =>
            LET Get(i) == fdt_stringlist_get(fdt, x.off, S_compatible, i)
                count == fdt_stringlist_count(fdt, x.off, S_compatible)
                val == view.nodes[x.path][S_compatible]
            IN  IF val # <<>> /\ Last(val) # 0 THEN count = -FDT_ERR_BADVALUE ELSE
                /\ Get(count).len = -FDT_ERR_NOTFOUND
                /\ FlattenSeq([i \in 1..count |-> Append(Get(i - 1).str, 0)]) = val
                /\ \A i \in 0..(count - 1) :
                    LET first == fdt_stringlist_search(fdt, x.off, S_compatible, Get(i).str)
                    IN  first \in 0..i /\ Get(first) = Get(i)
        /\ LET made == fdt_generate_phandle(fdt)
           IN  made.ret = 0 => fdt_node_offset_by_phandle(fdt, made.max) = -FDT_ERR_NOTFOUND
        /\ \A h \in 1..4 : fdt_node_offset_by_phandle(fdt, h) =
                               FirstAfter(-1, LAMBDA props : PhandleOf(props) = h)
        /\ fdt_num_mem_rsv(fdt) = Len(view.rsv)
        /\ \A i \in DOMAIN view.rsv : fdt_get_mem_rsv(fdt, i - 1) =
               [ret |-> 0, address |-> view.rsv[i][1], size |-> view.rsv[i][2]]

\* A call that returns an error leaves the tree as it was, to the byte: what it
\* had done before it ran out of room is undone (fdt_del_last_string_).
FailuresLeaveNoTrace ==
    LET Header(b) == [b EXCEPT !.mem = 0]
        Data(b) == Bytes(b.mem, 0, fdt_data_size_(b))
        all == SetPropCalls \cup InPlaceCalls \cup AppendPropCalls \cup DelPropCalls
               \cup NopPropCalls \cup AddSubnodeCalls \cup SetNameCalls \cup DelNodeCalls
               \cup NopNodeCalls \cup AddRsvCalls \cup DelRsvCalls
    IN  Sound => \A r \in all :
            r.ret < 0 => /\ Header(r.fdt) = Header(fdt)
                         /\ Data(r.fdt) = Data(fdt)

=============================================================================
