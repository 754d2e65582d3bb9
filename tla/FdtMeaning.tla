------------------------------ MODULE FdtMeaning ------------------------------
(***************************************************************************)
(* What a blob means, read off its bytes as the format has them and not by *)
(* the functions of libfdt: the reference the properties compare with.     *)
(***************************************************************************)
EXTENDS FdtRo, TLC

\* The string at a position of the buffer.
StringAt(b, at) == Bytes(b.mem, at, StringEnd(b.mem, at, Cardinality(DOMAIN b.mem) - 1) - at)

TagAt(b, o) == b.mem[b.off_dt_struct + o + 3]

NameAt(b, o) == StringAt(b, b.off_dt_struct + o + 4)

KeyAt(b, o) == StringAt(b, b.off_dt_strings + b.mem[b.off_dt_struct + o + 11])

ValueAt(b, o) == Bytes(b.mem, b.off_dt_struct + o + 12, b.mem[b.off_dt_struct + o + 7])

\* The offsets of the tags before FDT_END, or before the end of the block in a
\* tree that is being written.
TagOffsets(b) ==
    LET Size(o) == CASE TagAt(b, o) = FDT_BEGIN_NODE -> 4 + FDT_TAGALIGN(Len(NameAt(b, o)) + 1)
                     [] TagAt(b, o) = FDT_PROP -> 12 + FDT_TAGALIGN(Len(ValueAt(b, o)))
                     [] OTHER -> 4
        from[o \in Nat] ==
            IF (b.magic = FDT_SW_MAGIC /\ o >= b.size_dt_struct) \/ TagAt(b, o) \notin 1..4
            THEN <<>>
            ELSE <<o>> \o from[o + Size(o)]
    IN  from[0]

\* The names of the nodes still open, the nodes and their properties, and the
\* nodes in the order they are begun, each as its path and offset.
Decode(b) ==
    LET Step(acc, o) ==
            LET pushed == Append(acc.stack, NameAt(b, o))
            IN  CASE TagAt(b, o) = FDT_BEGIN_NODE ->
                         [stack |-> pushed,
                          nodes |-> (Tail(pushed) :> <<>>) @@ acc.nodes,
                          order |-> Append(acc.order, [path |-> Tail(pushed), off |-> o])]
                  [] TagAt(b, o) = FDT_END_NODE -> [acc EXCEPT !.stack = Front(@)]
                  [] TagAt(b, o) = FDT_PROP ->
                         [acc EXCEPT !.nodes[Tail(acc.stack)] = (KeyAt(b, o) :> ValueAt(b, o)) @@ @]
                  [] TagAt(b, o) = FDT_NOP -> acc
    IN  FoldLeft(Step, [stack |-> <<>>, nodes |-> <<>>, order |-> <<>>], TagOffsets(b))

\* The reservations: up to the entry of size 0, or to the end of the map in a
\* tree that is being written.
ReservationList(b) ==
    LET from[at \in Nat] ==
            IF at = b.off_dt_struct \/ b.mem[at + 15] = 0
            THEN <<>>
            ELSE <<<<b.mem[at + 7], b.mem[at + 15]>>>> \o from[at + 16]
    IN  from[b.off_mem_rsvmap]

Stage(b) ==
    CASE b.magic = NO_MAGIC -> "none"
      [] b.magic = FDT_SW_MAGIC /\ b.off_dt_strings = 0 -> "memrsv"
      [] b.magic = FDT_SW_MAGIC /\ b.off_dt_strings # 0 -> "struct"
      [] b.magic = FDT_MAGIC -> "complete"

View(b) ==
    IF Stage(b) = "none" THEN [stage |-> "none", stack |-> <<>>, nodes |-> <<>>,
                               order |-> <<>>, rsv |-> <<>>]
    ELSE LET d == Decode(b)
         IN  [stage |-> Stage(b), stack |-> d.stack, nodes |-> d.nodes, order |-> d.order,
              rsv |-> ReservationList(b)]

\* The phandle the properties of a node give it, 0: none.
PhandleOf(props) ==
    LET cells == {k \in {S_phandle, S_linux_phandle} \cap DOMAIN props : Len(props[k]) = 4}
    IN  IF S_phandle \in cells THEN props[S_phandle][4]
        ELSE IF cells # {} THEN props[S_linux_phandle][4]
        ELSE 0

=============================================================================
