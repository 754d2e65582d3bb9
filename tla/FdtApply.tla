------------------------------- MODULE FdtApply -------------------------------
(***************************************************************************)
(* Overlays applied to a base tree one after the other, in any order, with *)
(* more or less room behind the base.  A call of fdt_overlay_apply is one  *)
(* step: nothing runs between its parts, but any of them may be the one    *)
(* that fails.                                                             *)
(***************************************************************************)
EXTENDS FdtOverlay, FdtMeaning

CONSTANTS
    BufSize,       \* the bytes of each blob's buffer
    Rooms,         \* how many the base may grow by
    Bases,         \* the base trees
    Overlays,      \* the overlays
    Writing(_),    \* the calls that write a tree, see Write
    Intent(_)      \* what a tree says, see below

ASSUME RoomAssumption == \A r \in Rooms : r \in Nat

VARIABLES
    fdt,    \* the base
    fdto,   \* overlay |-> its blob
    log     \* the base tree, then the overlays applied to it, in order

vars == <<fdt, fdto, log>>

-----------------------------------------------------------------------------
(* The trees.  Writing(t) is a sequence of steps: a node is begun, a        *)
(* property written, a node ended.  Intent(t) is what the author of the     *)
(* tree means by it, with paths in place of phandles: the nodes it has, the *)
(* values it sets, the cells that refer to a node, the labels and the aliases. *)

BeginStep(n) == [op |-> "begin", name |-> n]

PropStep(k, v) == [op |-> "prop", name |-> k, val |-> v]

EndStep == [op |-> "end"]

Write(t) ==
    LET blank == [mem |-> [i \in 0..(BufSize - 1) |-> 0]]
        start == fdt_finish_reservemap(fdt_create_with_flags(blank, BufSize, 0).fdt).fdt
        Step(b, s) == CASE s.op = "begin" -> fdt_begin_node(b, s.name).fdt
                        [] s.op = "prop" -> fdt_property(b, s.name, s.val).fdt
                        [] s.op = "end" -> fdt_end_node(b).fdt
    IN  fdt_finish(FoldLeft(Step, start, Writing(t))).fdt

Init ==
    \E b \in Bases, room \in Rooms :
        LET tree == Write(b)
        IN  /\ fdt = fdt_open_into(tree, tree.totalsize + room).fdt
            /\ fdto = [o \in Overlays |-> Write(o)]
            /\ log = <<b>>

Apply(o) ==
    \E r \in {fdt_overlay_apply(fdt, fdto[o])} :
        /\ fdt' = r.fdt
        /\ fdto' = [fdto EXCEPT ![o] = r.fdto]
        /\ log' = IF r.ret = 0 THEN Append(log, o) ELSE log

Next == \E o \in Overlays : Apply(o)

Spec == Init /\ [][Next]_vars

-----------------------------------------------------------------------------
(* Properties. *)

Usable == fdt.magic = FDT_MAGIC

Nodes(b) == Decode(b).nodes

\* The nodes of a tree other than the list of symbols.
Devices(b) == {p \in DOMAIN Nodes(b) : p # <<S_symbols>>}

\* The last tree of the log, of those that pick one in Says, which has the
\* property at a path: the others were overwritten.
LastWord(p, k, Says(_)) ==
    LET about == {i \in DOMAIN log : \E x \in Says(log[i]) : x.path = p /\ x.key = k}
    IN  CHOOSE i \in about : \A j \in about : j <= i

Said(t) == Intent(t).vals \cup Intent(t).refs

\* A base that still has its magic is its first tree and, on top of it, the
\* whole of each overlay applied, the later one where two set a property, and
\* nothing else: none that failed half way (fdt_overlay_apply, "err") has left
\* a part of itself in a tree that can be used.
OnlyWholeOverlays ==
    Usable =>
        LET nodes == Nodes(fdt)
        IN  /\ fdt_check_full(fdt, BufSize) = 0
            /\ Devices(fdt) = UNION {Intent(log[i]).nodes : i \in DOMAIN log}
            /\ \A p \in Devices(fdt) :
                DOMAIN nodes[p] \ {S_phandle} =
                    {x.key : x \in {x \in UNION {Said(log[i]) : i \in DOMAIN log} : x.path = p}}
            /\ \A i \in DOMAIN log : \A x \in Intent(log[i]).vals :
                LastWord(x.path, x.key, Said) = i => nodes[x.path][x.key] = x.val

\* Each cell that refers to a node holds the phandle of that node and of no
\* other, whether the author meant a node of the overlay, of the base or of an
\* overlay applied before, and whatever phandles the trees chose for them.
ReferencesHold ==
    Usable =>
        LET nodes == Nodes(fdt)
        IN  \A i \in DOMAIN log : \A x \in Intent(log[i]).refs :
                LastWord(x.path, x.key, Said) = i =>
                    {p \in Devices(fdt) : PhandleOf(nodes[p]) = nodes[x.path][x.key][x.at + 4]}
                        = {x.to}

\* Each label of the base and of the overlays applied leads to its node by the
\* path in the symbols of the merged tree, for the next overlay to refer to, and
\* each alias still leads to its node (fdt_path_offset_namelen).
SymbolsResolve ==
    Usable =>
        LET order == Decode(fdt).order
            LeadsTo(text, p) == \E j \in DOMAIN order :
                /\ order[j].path = p
                /\ order[j].off = fdt_path_offset_namelen(fdt, text)
        IN  \A i \in DOMAIN log :
                /\ \A x \in Intent(log[i]).labels :
                    LET symbol == fdt_get_symbol_namelen(fdt, x.label)
                    IN  symbol.len > 0 /\ LeadsTo(CString(symbol.val), x.to)
                /\ \A x \in Intent(log[i]).aliases : LeadsTo(x.label, x.to)

\* A node that has a phandle keeps it: references to it from outside the tree,
\* and from overlays not yet applied, stay good
\* (overlay_prevent_phandle_overwrite).
PhandlesKept ==
    [][fdt'.magic = FDT_MAGIC =>
        \A p \in Devices(fdt) :
            PhandleOf(Nodes(fdt)[p]) # 0 =>
                PhandleOf(Nodes(fdt')[p]) = PhandleOf(Nodes(fdt)[p])]_vars

=============================================================================
