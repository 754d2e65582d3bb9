------------------------------ MODULE FdtOverlay ------------------------------
(***************************************************************************)
(* fdt_overlay.c: merging an overlay, fdto, into a base tree, fdt.  The    *)
(* nodes an overlay adds have phandles of its own, which are moved above   *)
(* those of the base; the places that hold a phandle are listed in the     *)
(* overlay, the ones of its own nodes in __local_fixups__, the ones of     *)
(* labelled nodes of the base in __fixups__.                               *)
(*                                                                         *)
(* A function returns ret and the blobs it may have changed.  The offsets  *)
(* of a loop over nodes or properties are read before its first pass: the  *)
(* passes write phandle cells only, or write to the other blob.            *)
(***************************************************************************)
EXTENDS FdtRw, TLC

S_overlay      == <<211>>
S_fixups       == <<212>>
S_local_fixups == <<213>>
S_target       == <<214>>
S_target_path  == <<215>>

\* The characters of a C string, up to its NUL.
CString(val) == SubSeq(val, 1, StringEnd(val, 1, Len(val)) - 1)

\* The passes of a loop that stops at the first error.
ForEach(Pass(_, _), r, seq) ==
    FoldLeft(LAMBDA acc, x : IF acc.ret # 0 THEN acc ELSE Pass(acc, x), r, seq)

-----------------------------------------------------------------------------
(* The target of a fragment. *)

\* 0: no target property; PhandleMod - 1, which is (uint32_t)-1: a malformed one.
overlay_get_target_phandle(fdto, fragment) ==
    LET Cell(p) == IF p.len < 0 THEN 0
                   ELSE IF p.len # 4 THEN PhandleMod - 1
                   ELSE p.val[4]
    IN  Cell(fdt_getprop_namelen(fdto, fragment, S_target))

\* The target a target-path property stands for.
TargetByPath(fdt, p) ==
    IF p.len = -FDT_ERR_NOTFOUND THEN [ret |-> -FDT_ERR_BADOVERLAY, path |-> <<>>]
    ELSE IF p.len < 0 THEN [ret |-> p.len, path |-> <<>>]
    ELSE [ret |-> fdt_path_offset_namelen(fdt, CString(p.val)), path |-> CString(p.val)]

\* The target the phandle of a fragment stands for, or its target path.
TargetOf(fdt, fdto, fragment, phandle) ==
    IF phandle = PhandleMod - 1 THEN [ret |-> -FDT_ERR_BADPHANDLE, path |-> <<>>]
    ELSE IF phandle # 0 THEN [ret |-> fdt_node_offset_by_phandle(fdt, phandle), path |-> <<>>]
    ELSE TargetByPath(fdt, fdt_getprop_namelen(fdto, fragment, S_target_path))

\* ret: the target in the base; path: the target path, empty if there is none.
fdt_overlay_target_offset(fdt, fdto, fragment) ==
    TargetOf(fdt, fdto, fragment, overlay_get_target_phandle(fdto, fragment))

\* A fragment's __overlay__ and the node of the base it is for.
FragmentOf(fdt, fdto, fragment) ==
    [overlay |-> fdt_subnode_offset_namelen(fdto, fragment, S_overlay),
     target |-> fdt_overlay_target_offset(fdt, fdto, fragment).ret]

-----------------------------------------------------------------------------
(* Phandles of the overlay's own nodes. *)

overlay_phandle_add_offset(fdto, node, name, delta) ==
    LET Moved(p, val) ==
            IF p.len < 0 THEN [ret |-> p.len, fdto |-> fdto]
            ELSE IF p.len # 4 THEN [ret |-> -FDT_ERR_BADPHANDLE, fdto |-> fdto]
            ELSE IF val + delta >= PhandleMod - 1 THEN [ret |-> -FDT_ERR_NOPHANDLES, fdto |-> fdto]
            ELSE [ret |-> 0, fdto |-> [fdto EXCEPT !.mem = fdt32_st(@, p.data, val + delta)]]
        Found(p) == Moved(p, fdt32_ld(fdto.mem, p.data))
    IN  Found(fdt_get_property_namelen_(fdto, node, name))

RECURSIVE overlay_adjust_node_phandles(_, _, _)

overlay_adjust_node_phandles(fdto, node, delta) ==
    LET OfName(r, name) ==
            LET Moved(m) == IF m.ret = -FDT_ERR_NOTFOUND THEN [m EXCEPT !.ret = 0] ELSE m
            IN  Moved(overlay_phandle_add_offset(r.fdto, node, name, delta))
    IN  ForEach(LAMBDA r, child : overlay_adjust_node_phandles(r.fdto, child, delta),
                ForEach(OfName, [ret |-> 0, fdto |-> fdto], <<S_phandle, S_linux_phandle>>),
                fdt_for_each_subnode(fdto, node))

overlay_adjust_local_phandles(fdto, delta) == overlay_adjust_node_phandles(fdto, 0, delta)

\* The walk the two functions below share: where, in the buffer, the cells are
\* that a node of __local_fixups__ and the ones below it list, as far as the
\* walk gets.  An offset in the list is not compared with the length of the
\* property it is an offset of.
RECURSIVE ListedCells(_, _, _)

ListedCells(fdto, tree_node, fixup_node) ==
    LET Listed(r, fixup, tree) ==
            IF fixup.len % 4 # 0 \/ tree.len = -FDT_ERR_NOTFOUND
            THEN [r EXCEPT !.ret = -FDT_ERR_BADOVERLAY]
            ELSE IF tree.len < 0 THEN [r EXCEPT !.ret = tree.len]
            ELSE [r EXCEPT !.at = @ \o [i \in 1..(fixup.len \div 4) |->
                                            tree.data + fixup.val[4 * i]]]
        Fixup(r, fixup) ==
            IF fixup.len < 0 THEN [r EXCEPT !.ret = fixup.len]
            ELSE Listed(r, fixup, fdt_get_property_namelen_(fdto, tree_node, fixup.name))
        OfProperty(r, prop) == Fixup(r, fdt_getprop_by_offset(fdto, prop))
        Joined(r, below) == [ret |-> below.ret, at |-> r.at \o below.at]
        Child(r, child, fixup_child) ==
            IF child = -FDT_ERR_NOTFOUND THEN [r EXCEPT !.ret = -FDT_ERR_BADOVERLAY]
            ELSE IF child < 0 THEN [r EXCEPT !.ret = child]
            ELSE Joined(r, ListedCells(fdto, child, fixup_child))
        OfChild(r, fixup_child) ==
            Child(r, fdt_subnode_offset_namelen(fdto, tree_node,
                                                fdt_get_name(fdto, fixup_child).name),
                  fixup_child)
    IN  ForEach(OfChild,
                ForEach(OfProperty, [ret |-> 0, at |-> <<>>],
                        fdt_for_each_property_offset(fdto, fixup_node)),
                fdt_for_each_subnode(fdto, fixup_node))

\* All cells listed, each replaced by New of its value.
ReplaceCells(fdto, New(_)) ==
    LET Replace(mem, at) == fdt32_st(mem, at, New(fdt32_ld(mem, at)))
        Replaced(cells) == [ret |-> cells.ret,
                            fdto |-> [fdto EXCEPT !.mem = FoldLeft(Replace, @, cells.at)]]
        From(fixups) == IF fixups = -FDT_ERR_NOTFOUND THEN [ret |-> 0, fdto |-> fdto]
                        ELSE IF fixups < 0 THEN [ret |-> fixups, fdto |-> fdto]
                        ELSE Replaced(ListedCells(fdto, 0, fixups))
    IN  From(fdt_path_offset_namelen(fdto, <<Slash>> \o S_local_fixups))

overlay_update_local_references(fdto, delta) ==
    ReplaceCells(fdto, LAMBDA v : (v + delta) % PhandleMod)

-----------------------------------------------------------------------------
(* References to labelled nodes of the base. *)

overlay_fixup_one_phandle(fdto, symbols_off, path, name, poffset, phandle) ==
    LET Found(fixup_off) ==
            IF fixup_off = -FDT_ERR_NOTFOUND THEN [ret |-> -FDT_ERR_BADOVERLAY, fdt |-> fdto]
            ELSE IF fixup_off < 0 THEN [ret |-> fixup_off, fdt |-> fdto]
            ELSE fdt_setprop_inplace_namelen_partial(fdto, fixup_off, name, poffset, Word(phandle))
    IN  IF symbols_off < 0 THEN [ret |-> symbols_off, fdt |-> fdto]
        ELSE Found(fdt_path_offset_namelen(fdto, path))

\* The parts of "path:name:offset"; ok is FALSE where the code returns
\* -FDT_ERR_BADOVERLAY.  The offset is a decimal number without sign.
ParseFixup(s) ==
    LET colons == {i \in DOMAIN s : s[i] = Colon}
        c1 == CHOOSE i \in colons : \A j \in colons : i <= j
        c2 == CHOOSE i \in colons \ {c1} : \A j \in colons \ {c1} : i <= j
        number == SubSeq(s, c2 + 1, Len(s))
    IN  IF Cardinality(colons) < 2 \/ c2 = c1 + 1 \/ number = <<>>
           \/ \E i \in DOMAIN number : number[i] \notin 48..57
        THEN [ok |-> FALSE]
        ELSE [ok |-> TRUE, path |-> SubSeq(s, 1, c1 - 1), name |-> SubSeq(s, c1 + 1, c2 - 1),
              poffset |-> FoldLeft(LAMBDA n, c : 10 * n + (c - 48), 0, number)]

\* The loop of overlay_fixup_phandle over the strings of a property p: each
\* place listed gets the phandle.
FixupPlaces(fdto, symbols_off, p, list, phandle) ==
    LET Fixed(r) == [ret |-> r.ret, fdto |-> r.fdt]
        Parsed(r, f) ==
            IF ~f.ok THEN [r EXCEPT !.ret = -FDT_ERR_BADOVERLAY]
            ELSE Fixed(overlay_fixup_one_phandle(r.fdto, symbols_off, f.path, f.name,
                                                 f.poffset, phandle))
        Ended(r) == IF r.ret = 0 /\ (list.err < 0 \/ p.len = 0)
                    THEN [r EXCEPT !.ret = -FDT_ERR_BADOVERLAY] ELSE r
    IN  IF phandle = 0 THEN [ret |-> -FDT_ERR_NOTFOUND, fdto |-> fdto]
        ELSE Ended(ForEach(LAMBDA r, s : Parsed(r, ParseFixup(s)), [ret |-> 0, fdto |-> fdto],
                           list.list))

\* The same, once the symbol's node is known.
FixupSymbol(fdt, fdto, symbols_off, p, symbol_off) ==
    IF symbol_off < 0 THEN [ret |-> symbol_off, fdto |-> fdto]
    ELSE FixupPlaces(fdto, symbols_off, p, StringList(p.val), fdt_get_phandle(fdt, symbol_off))

\* Every place a property of __fixups__ lists gets the phandle of the node that
\* the symbol of the same name stands for.
overlay_fixup_phandle(fdt, fdto, symbols_off, property) ==
    LET p == fdt_getprop_by_offset(fdto, property)
        symbol == fdt_getprop_namelen(fdt, symbols_off, p.name)
    IN  IF p.len = -FDT_ERR_NOTFOUND THEN [ret |-> -FDT_ERR_INTERNAL, fdto |-> fdto]
        ELSE IF p.len < 0 THEN [ret |-> p.len, fdto |-> fdto]
        ELSE IF symbol.len < 0 THEN [ret |-> symbol.len, fdto |-> fdto]
        ELSE FixupSymbol(fdt, fdto, symbols_off, p,
                         fdt_path_offset_namelen(fdt, CString(symbol.val)))

overlay_fixup_phandles(fdt, fdto) ==
    LET All(fixups_off, symbols_off) ==
            IF fixups_off = -FDT_ERR_NOTFOUND THEN [ret |-> 0, fdto |-> fdto]
            ELSE IF fixups_off < 0 THEN [ret |-> fixups_off, fdto |-> fdto]
            ELSE IF symbols_off < 0 /\ symbols_off # -FDT_ERR_NOTFOUND
            THEN [ret |-> symbols_off, fdto |-> fdto]
            ELSE ForEach(LAMBDA r, prop : overlay_fixup_phandle(fdt, r.fdto, symbols_off, prop),
                         [ret |-> 0, fdto |-> fdto],
                         fdt_for_each_property_offset(fdto, fixups_off))
    IN  All(fdt_path_offset_namelen(fdto, <<Slash>> \o S_fixups),
            fdt_path_offset_namelen(fdt, <<Slash>> \o S_symbols))

-----------------------------------------------------------------------------
(* Nodes of the overlay that the base has too keep the phandle of the base. *)

\* Seeded fault: the overlay keeps its own phandle for the node.
ConflictIgnored(fdto, node, fdt_phandle) == [ret |-> 0, fdto |-> fdto]

\* fdt_setprop_inplace_u32 for both properties, where they are cells.
overlay_adjust_local_conflicting_phandle(fdto, node, fdt_phandle) ==
    LET Adjusted(r) == [ret |-> r.ret, fdto |-> r.fdt]
        Pass(r, name) ==
            IF fdt_getprop_namelen(r.fdto, node, name).len # 4 THEN r
            ELSE Adjusted(fdt_setprop_inplace(r.fdto, node, name, Word(fdt_phandle)))
    IN  ForEach(Pass, [ret |-> 0, fdto |-> fdto], <<S_phandle, S_linux_phandle>>)

\* Seeded fault: references to the node keep the phandle it had.
ReferencesForgotten(fdto, fdt_phandle, fdto_phandle) == [ret |-> 0, fdto |-> fdto]

overlay_update_local_conflicting_references(fdto, fdt_phandle, fdto_phandle) ==
    ReplaceCells(fdto, LAMBDA v : IF v = fdto_phandle THEN fdt_phandle ELSE v)

\* A node both trees have takes the phandle of the base, in the overlay's node
\* and in the references to it, where both have one.
PreventOverwrite(fdto, fdtonode, fdt_phandle, fdto_phandle) ==
    LET Refs(r) == IF r.ret # 0 THEN r
                   ELSE overlay_update_local_conflicting_references(r.fdto, fdt_phandle,
                                                                    fdto_phandle)
    IN  IF fdt_phandle = 0 \/ fdto_phandle = 0 THEN [ret |-> 0, fdto |-> fdto]
        ELSE Refs(overlay_adjust_local_conflicting_phandle(fdto, fdtonode, fdt_phandle))

RECURSIVE overlay_prevent_phandle_overwrite_node(_, _, _, _)

overlay_prevent_phandle_overwrite_node(fdt, fdtnode, fdto, fdtonode) ==
    LET Child(r, fdtchild, fdtochild) ==
            IF fdtchild = -FDT_ERR_NOTFOUND THEN r
            ELSE overlay_prevent_phandle_overwrite_node(fdt, fdtchild, r.fdto, fdtochild)
        Pass(r, fdtochild) ==
            Child(r, fdt_subnode_offset_namelen(fdt, fdtnode, fdt_get_name(fdto, fdtochild).name),
                  fdtochild)
    IN  ForEach(Pass,
                PreventOverwrite(fdto, fdtonode, fdt_get_phandle(fdt, fdtnode),
                                 fdt_get_phandle(fdto, fdtonode)),
                fdt_for_each_subnode(fdto, fdtonode))

\* The fragment f, as FragmentOf has it.
PreventInFragment(fdt, r, f) ==
    IF f.overlay = -FDT_ERR_NOTFOUND THEN r
    ELSE IF f.overlay < 0 THEN [r EXCEPT !.ret = f.overlay]
    ELSE IF f.target = -FDT_ERR_NOTFOUND THEN r
    ELSE IF f.target < 0 THEN [r EXCEPT !.ret = f.target]
    ELSE overlay_prevent_phandle_overwrite_node(fdt, f.target, r.fdto, f.overlay)

overlay_prevent_phandle_overwrite(fdt, fdto) ==
    ForEach(LAMBDA r, fragment : PreventInFragment(fdt, r, FragmentOf(fdt, r.fdto, fragment)),
            [ret |-> 0, fdto |-> fdto], fdt_for_each_subnode(fdto, 0))

-----------------------------------------------------------------------------
(* Merging. *)

RECURSIVE overlay_apply_node(_, _, _, _)

overlay_apply_node(fdt, target, fdto, node) ==
    LET Set(r, p) ==
            IF p.len = -FDT_ERR_NOTFOUND THEN [r EXCEPT !.ret = -FDT_ERR_INTERNAL]
            ELSE IF p.len < 0 THEN [r EXCEPT !.ret = p.len]
            ELSE fdt_setprop(r.fdt, target, p.name, p.val)
        OfProperty(r, property) == Set(r, fdt_getprop_by_offset(fdto, property))
        Below(b, nnode, subnode) ==
            IF nnode < 0 THEN [ret |-> nnode, fdt |-> b]
            ELSE overlay_apply_node(b, nnode, fdto, subnode)
        Existing(nnode) == IF nnode = -FDT_ERR_NOTFOUND THEN -FDT_ERR_INTERNAL ELSE nnode
        Added(added, name, subnode) ==
            Below(added.fdt,
                  IF added.ret # -FDT_ERR_EXISTS THEN added.ret
                  ELSE Existing(fdt_subnode_offset_namelen(added.fdt, target, name)),
                  subnode)
        Child(r, name, subnode) == Added(fdt_add_subnode(r.fdt, target, name), name, subnode)
        OfChild(r, subnode) == Child(r, fdt_get_name(fdto, subnode).name, subnode)
    IN  ForEach(OfChild,
                ForEach(OfProperty, [ret |-> 0, fdt |-> fdt],
                        fdt_for_each_property_offset(fdto, node)),
                fdt_for_each_subnode(fdto, node))

\* The fragment f, as FragmentOf has it.
MergeFragment(fdto, r, f) ==
    IF f.overlay = -FDT_ERR_NOTFOUND THEN r
    ELSE IF f.overlay < 0 THEN [r EXCEPT !.ret = f.overlay]
    ELSE IF f.target < 0 THEN [r EXCEPT !.ret = f.target]
    ELSE overlay_apply_node(r.fdt, f.target, fdto, f.overlay)

overlay_merge(fdt, fdto) ==
    ForEach(LAMBDA r, fragment : MergeFragment(fdto, r, FragmentOf(r.fdt, fdto, fragment)),
            [ret |-> 0, fdt |-> fdt], fdt_for_each_subnode(fdto, 0))

-----------------------------------------------------------------------------
(* Symbols. *)

\* Without the NUL; 1 for the root.
get_path_len(fdt, nodeoffset) ==
    LET up[o \in Int, len \in Nat] ==
            LET Named(namelen) == IF namelen < 0 THEN namelen
                                  ELSE IF namelen = 0 THEN IF len = 0 THEN 1 ELSE len
                                  ELSE up[fdt_parent_offset(fdt, o), len + namelen + 1]
            IN  IF o < 0 THEN o ELSE Named(fdt_get_name(fdt, o).len)
    IN  IF fdt_ro_probe_(fdt) < 0 THEN fdt_ro_probe_(fdt) ELSE up[nodeoffset, 0]

\* What a symbol of the overlay says: the fragment it lies in and the path below
\* the fragment's __overlay__, or nothing when it lies elsewhere.
SplitSymbol(path) ==
    LET slashes == {i \in 2..Len(path) : path[i] = Slash}
        s == CHOOSE i \in slashes : \A j \in slashes : i <= j
        rest == SubSeq(path, s, Len(path))
        marker == <<Slash>> \o S_overlay
    IN  IF slashes = {} THEN [inside |-> FALSE]
        ELSE IF rest = marker \/ IsPrefix(Append(marker, Slash), rest)
        THEN [inside |-> TRUE, frag |-> SubSeq(path, 2, s - 1),
              rel |-> SubSeq(rest, Len(marker) + 2, Len(rest))]
        ELSE [inside |-> FALSE]

\* The path of a symbol in the room made for it: the one of the target, text,
\* and the one below it.
SymbolText(place, text, rel) ==
    [ret |-> 0,
     fdt |-> [place.fdt EXCEPT !.mem = Put(@, place.data, text \o <<Slash>> \o rel \o <<0>>)]]

\* A target that has no path, looked up again since the tree has moved.
SymbolOfTarget(place, len, rel, again) ==
    LET Found(p) == IF p.ret < 0 THEN [ret |-> p.ret, fdt |-> place.fdt]
                    ELSE SymbolText(place, p.path, rel)
    IN  IF again < 0 THEN [ret |-> again, fdt |-> place.fdt]
        ELSE IF len > 1 THEN Found(fdt_get_path(place.fdt, again, len + 1))
        ELSE SymbolText(place, <<>>, rel)

\* Seeded fault: the target is not looked up again.
TargetNotAgain(fdto, fragment, target, rel, place, len) ==
    IF place.ret < 0 THEN [ret |-> place.ret, fdt |-> place.fdt]
    ELSE IF target.path # <<>>
    THEN SymbolText(place, IF len > 1 THEN target.path ELSE <<>>, rel)
    ELSE SymbolOfTarget(place, len, rel, target.ret)

\* The symbol once its place is made, or not.
SymbolPlaced(fdto, fragment, target, rel, place, len) ==
    IF place.ret < 0 THEN [ret |-> place.ret, fdt |-> place.fdt]
    ELSE IF target.path # <<>>
    THEN SymbolText(place, IF len > 1 THEN target.path ELSE <<>>, rel)
    ELSE SymbolOfTarget(place, len, rel,
                        fdt_overlay_target_offset(place.fdt, fdto, fragment).ret)

\* One symbol, in a fragment whose target is known.
SymbolInFragment(fdt, fdto, root_sym, name, rel, fragment, target) ==
    LET Sized(len) ==
            IF len < 0 THEN [ret |-> len, fdt |-> fdt]
            ELSE SymbolPlaced(fdto, fragment, target, rel,
                     fdt_setprop_placeholder_namelen(fdt, root_sym, name,
                         len + (IF len > 1 THEN 1 ELSE 0) + Len(rel) + 1), len)
    IN  IF target.ret < 0 THEN [ret |-> target.ret, fdt |-> fdt]
        ELSE Sized(IF target.path = <<>> THEN get_path_len(fdt, target.ret) ELSE Len(target.path))

\* One symbol: its place is made first, then the path of the target is written.
SymbolUpdate(fdt, fdto, root_sym, name, split) ==
    LET fragment == fdt_subnode_offset_namelen(fdto, 0, split.frag)
    IN  IF ~split.inside THEN [ret |-> 0, fdt |-> fdt]
        ELSE IF fragment < 0 \/ fdt_subnode_offset_namelen(fdto, fragment, S_overlay) < 0
        THEN [ret |-> -FDT_ERR_BADOVERLAY, fdt |-> fdt]
        ELSE SymbolInFragment(fdt, fdto, root_sym, name, split.rel, fragment,
                              fdt_overlay_target_offset(fdt, fdto, fragment))

\* The pass of the loop of overlay_symbol_update for the property p.
SymbolPass(r, fdto, root_sym, p) ==
    LET string == p.len >= 1 /\ HasNul(p.val, 1, p.len) /\ StringEnd(p.val, 1, p.len) = p.len
    IN  IF p.len < 0 THEN [r EXCEPT !.ret = p.len]
        ELSE IF ~string \/ p.val[1] # Slash THEN [r EXCEPT !.ret = -FDT_ERR_BADVALUE]
        ELSE SymbolUpdate(r.fdt, fdto, root_sym, p.name, SplitSymbol(CString(p.val)))

\* The loop, once the base has a node for symbols.
SymbolsInto(root, fdto, ov_sym) ==
    IF root.ret < 0 THEN root
    ELSE ForEach(LAMBDA r, prop : SymbolPass(r, fdto, root.ret, fdt_getprop_by_offset(fdto, prop)),
                 [root EXCEPT !.ret = 0], fdt_for_each_property_offset(fdto, ov_sym))

overlay_symbol_update(fdt, fdto) ==
    LET ov_sym == fdt_subnode_offset_namelen(fdto, 0, S_symbols)
        there == fdt_subnode_offset_namelen(fdt, 0, S_symbols)
        root == IF there = -FDT_ERR_NOTFOUND THEN fdt_add_subnode(fdt, 0, S_symbols)
                ELSE [ret |-> there, fdt |-> fdt]
    IN  IF ov_sym < 0 THEN [ret |-> 0, fdt |-> fdt] ELSE SymbolsInto(root, fdto, ov_sym)

-----------------------------------------------------------------------------

Erased(b) == [b EXCEPT !.magic = NO_MAGIC]

\* Seeded fault: a step that fails takes the magic from the overlay only.
FailedKeepsBase(ret, fdt, fdto) == [ret |-> ret, fdt |-> fdt, fdto |-> Erased(fdto)]

\* A step failed: both blobs may be damaged.
OverlayFailed(ret, fdt, fdto) == [ret |-> ret, fdt |-> Erased(fdt), fdto |-> Erased(fdto)]

\* The steps of an application, in the order of the code.
OverlaySteps == <<"phandles", "references", "fixups", "overwrites", "merge", "symbols">>

\* One step: ret and the blobs it changes.
OverlayStep(r, step, delta) ==
    CASE step = "phandles"   -> overlay_adjust_local_phandles(r.fdto, delta) @@ r
      [] step = "references" -> overlay_update_local_references(r.fdto, delta) @@ r
      [] step = "fixups"     -> overlay_fixup_phandles(r.fdt, r.fdto) @@ r
      [] step = "overwrites" -> overlay_prevent_phandle_overwrite(r.fdt, r.fdto) @@ r
      [] step = "merge"      -> overlay_merge(r.fdt, r.fdto) @@ r
      [] step = "symbols"    -> overlay_symbol_update(r.fdt, r.fdto) @@ r

\* One step after the other; the first that fails ends it, and then neither blob
\* has its magic any more.  After success the overlay has lost its own.
OverlayApplied(fdt, fdto, max) ==
    LET Ended(r) == IF r.ret # 0 THEN OverlayFailed(r.ret, r.fdt, r.fdto)
                    ELSE [ret |-> 0, fdt |-> r.fdt, fdto |-> Erased(r.fdto)]
    IN  Ended(ForEach(LAMBDA r, step : OverlayStep(r, step, max.max),
                      [ret |-> max.ret, fdt |-> fdt, fdto |-> fdto], OverlaySteps))

fdt_overlay_apply(fdt, fdto) ==
    IF fdt_ro_probe_(fdt) < 0 THEN [ret |-> fdt_ro_probe_(fdt), fdt |-> fdt, fdto |-> fdto]
    ELSE IF fdt_ro_probe_(fdto) < 0 THEN [ret |-> fdt_ro_probe_(fdto), fdt |-> fdt, fdto |-> fdto]
    ELSE OverlayApplied(fdt, fdto, fdt_find_max_phandle(fdt))

=============================================================================
