------------------------------ MODULE DeviceTree ------------------------------
(***************************************************************************)
(* What libfdt promises of a blob, without the blob: a device tree is a    *)
(* set of nodes, each the path of names that leads to it with a value for  *)
(* each of its properties, and a list of memory reservations.  It is       *)
(* written front to back (reservations, then nodes and properties inside   *)
(* each other) and changed freely once it is complete.  A call does what   *)
(* one of the actions below says or leaves the tree as it was; finding     *)
(* room for it, moving it and packing it are no steps of this module.      *)
(***************************************************************************)
EXTENDS Integers, Sequences, TLC

CONSTANTS NodeNames, PropNames, Values, Reservations

VARIABLES
    stage,   \* "none", "memrsv", "struct", "complete"
    stack,   \* the names of the nodes begun and not ended, root first
    nodes,   \* path |-> property name |-> value; the root is <<>>
    rsv      \* the reservations, in order

vars == <<stage, stack, nodes, rsv>>

Empty == <<>>

Root == <<>> :> Empty

Init ==
    /\ stage = "none"
    /\ stack = <<>>
    /\ nodes = Empty
    /\ rsv = <<>>

-----------------------------------------------------------------------------

Create ==
    /\ stage' = "memrsv" /\ stack' = <<>> /\ nodes' = Empty /\ rsv' = <<>>

Reserve(r) ==
    /\ stage = "memrsv"
    /\ rsv' = Append(rsv, r)
    /\ UNCHANGED <<stage, stack, nodes>>

ReserveEnd ==
    /\ stage = "memrsv"
    /\ stage' = "struct"
    /\ UNCHANGED <<stack, nodes, rsv>>

BeginNode(n) ==
    /\ stage = "struct"
    /\ stack' = Append(stack, n)
    /\ nodes' = (Tail(stack') :> Empty) @@ nodes
    /\ UNCHANGED <<stage, rsv>>

EndNode ==
    /\ stage = "struct" /\ stack # <<>>
    /\ stack' = SubSeq(stack, 1, Len(stack) - 1)
    /\ UNCHANGED <<stage, nodes, rsv>>

Property(k, v) ==
    /\ stage = "struct" /\ stack # <<>>
    /\ nodes' = [nodes EXCEPT ![Tail(stack)] = (k :> v) @@ @]
    /\ UNCHANGED <<stage, stack, rsv>>

Finish ==
    /\ stage = "struct"
    /\ stage' = "complete"
    /\ UNCHANGED <<stack, nodes, rsv>>

\* The tree of a root alone, in one call; without room it stops half way.
CreateEmpty ==
    /\ stage' \in {"memrsv", "struct", "complete"}
    /\ \/ stack' = <<>> /\ nodes' = Root
       \/ stage' = "struct" /\ stack' = <<<<>>>> /\ nodes' = Root
       \/ stage' # "complete" /\ stack' = <<>> /\ nodes' = Empty
    /\ rsv' = <<>>

-----------------------------------------------------------------------------

Under(p, q) == Len(q) >= Len(p) /\ SubSeq(q, 1, Len(p)) = p

SetProp(p, k, v) == nodes' = [nodes EXCEPT ![p] = (k :> v) @@ @]

AppendProp(p, k, v) ==
    LET old == IF k \in DOMAIN nodes[p] THEN nodes[p][k] ELSE <<>>
    IN  SetProp(p, k, old \o v)

DelProp(p, k) ==
    /\ k \in DOMAIN nodes[p]
    /\ nodes' = [nodes EXCEPT ![p] = [j \in DOMAIN @ \ {k} |-> @[j]]]

AddSubnode(p, n) ==
    /\ Append(p, n) \notin DOMAIN nodes
    /\ nodes' = (Append(p, n) :> Empty) @@ nodes

DelNode(p) == nodes' = [q \in {q \in DOMAIN nodes : ~Under(p, q)} |-> nodes[q]]

\* The nodes below keep their names: p gives way to p with its last name n.
SetName(p, n) ==
    LET renamed == [p EXCEPT ![Len(p)] = n]
        Old(q) == IF Under(renamed, q) THEN [q EXCEPT ![Len(p)] = p[Len(p)]] ELSE q
    IN  /\ renamed # p => renamed \notin DOMAIN nodes
        /\ nodes' = [q \in {q \in DOMAIN nodes : ~Under(p, q)} \cup
                           {renamed \o SubSeq(q, Len(p) + 1, Len(q)) :
                                q \in {q \in DOMAIN nodes : Under(p, q)}} |-> nodes[Old(q)]]

Change(p) ==
    \/ \E k \in PropNames, v \in Values : SetProp(p, k, v) \/ AppendProp(p, k, v)
    \/ \E k \in DOMAIN nodes[p] : DelProp(p, k)
    \/ \E n \in NodeNames : AddSubnode(p, n)
    \/ p # <<>> /\ (DelNode(p) \/ \E n \in NodeNames : SetName(p, n))

Edit ==
    /\ stage = "complete"
    /\ \/ UNCHANGED rsv /\ \E p \in DOMAIN nodes : Change(p)
       \/ /\ UNCHANGED nodes
          /\ \/ \E r \in Reservations : rsv' = Append(rsv, r)
             \/ \E i \in DOMAIN rsv : rsv' = SubSeq(rsv, 1, i - 1) \o SubSeq(rsv, i + 1, Len(rsv))
    /\ UNCHANGED <<stage, stack>>

Next ==
    \/ Create
    \/ \E r \in Reservations : Reserve(r)
    \/ ReserveEnd
    \/ \E n \in NodeNames \cup {<<>>} : BeginNode(n)
    \/ EndNode
    \/ \E k \in PropNames, v \in Values : Property(k, v)
    \/ Finish
    \/ CreateEmpty
    \/ Edit

Spec == Init /\ [][Next]_vars

=============================================================================
