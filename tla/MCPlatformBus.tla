--------------------------- MODULE MCPlatformBus ----------------------------
(***************************************************************************)
(* PlatformBus on every device tree of up to three nodes out of a few      *)
(* kinds of node, for TLC.                                                 *)
(***************************************************************************)
EXTENDS PlatformBus

CONSTANTS
  MaxNodes,   \* nodes of a tree
  NodeKinds   \* the nodes a tree is made of

BothDrivers == <<PL011, NS16550>>

NoReg      == [present |-> FALSE, addr |-> 0, size |-> 0]
EmptyReg   == [present |-> TRUE, addr |-> 0, size |-> 0]
Reg(a, s)  == [present |-> TRUE, addr |-> a, size |-> s]

LongName == "multifunction-serial-controller@40000000"
CutName  == "multifunction-serial-controller"

Node(name, compat, disabled, reg) ==
  [name |-> name, name31 |-> IF name = LongName THEN CutName ELSE name,
   compatible |-> compat, disabled |-> disabled, reg |-> reg]

\* Serial ports that work, that have a defect, and other devices.
MCNodes ==
  { Node("serial@1", {PL011}, FALSE, Reg(2, 2)),
    Node("serial@2", {NS16550, PL011}, FALSE, Reg(2, 2)),
    Node("serial@1", {NS16550}, FALSE, EmptyReg),
    Node("serial@3", {PL011}, FALSE, NoReg),
    Node("serial@3", {NS16550}, TRUE, Reg(2, 2)),
    Node(LongName, {NS16550}, FALSE, Reg(1, 0)),
    Node(CutName, {PL011}, FALSE, Reg(2, 2)),
    Node("memory@8", {}, FALSE, Reg(2, 2)),
    Node("rtc@9", {"arm,pl031"}, FALSE, Reg(2, 2)) }

\* Two ways to write the address of the same port.
MCEncodings ==
  { Node("serial@1", {NS16550}, FALSE, Reg(1, 0)),
    Node("serial@1", {NS16550}, FALSE, Reg(1, 1)),
    Node("serial@1", {NS16550}, FALSE, Reg(2, 2)) }

Stdout(path, cut, node) == [present |-> TRUE, path |-> path, path127 |-> cut, node |-> node]

\* The path of a node; the same ended by a slash; and, as if the directories
\* took up most of buf, cut inside the name and before it.
PathsTo(name, node) ==
  LET whole == <<"", "soc", name>>
      inner == <<"", "soc", IF name = LongName THEN CutName ELSE "serial@">>
  IN  { Stdout(whole, whole, node), Stdout(Append(whole, ""), Append(whole, ""), node),
        Stdout(whole, inner, node), Stdout(whole, <<"", "soc", "">>, node) }

\* No stdout-path, an empty one, a lone slash, and names without a slash.
OtherStdouts ==
  {[Stdout(t, t, NONE) EXCEPT !.present = t # <<"absent">>] :
     t \in { <<"absent">>, <<"">>, <<"", "">>, <<"serial0">>, <<"serial@2">> }}

MCStdouts == OtherStdouts \cup UNION {PathsTo(k.name, i) : k \in NodeKinds, i \in 1 .. MaxNodes}

\* The trees whose stdout-path leads to one of their own nodes, or to none.
MCTrees ==
  {t \in [nodes : UNION {[1 .. n -> NodeKinds] : n \in 1 .. MaxNodes}, stdout : MCStdouts] :
     t.stdout.node # NONE =>
       t.stdout.node <= Len(t.nodes) /\ LeadsTo(t.stdout.path, t.nodes[t.stdout.node].name)}
=============================================================================
