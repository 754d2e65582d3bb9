---------------------------- MODULE PlatformBus -----------------------------
(***************************************************************************)
(* The boot sequence of init/main.c after the heap is up: kernel/device.c  *)
(* makes a platform_device for the nodes of the device tree and lets the   *)
(* serial drivers probe them, and console_init of kernel/printk.c picks    *)
(* the console named by /chosen.                                           *)
(*                                                                         *)
(* The device tree is data that the boot code finds, so it is a variable   *)
(* that Init picks and no step changes.  The heap appears through what     *)
(* kcalloc and kfree promise (module Allocator): any kcalloc may fail, and *)
(* held counts what was allocated and not freed.                           *)
(***************************************************************************)
EXTENDS Naturals, Sequences, FiniteSets

CONSTANTS
  Drivers,   \* the linker's driver array, a sequence of compatible strings
  Trees      \* the device trees a board may have

PL011   == "arm,pl011"
NS16550 == "ns16550a"
NONE    == 0

(***************************************************************************)
(* A node has a name and name31, what fits in the 31 characters that a     *)
(* platform_device has for it; the strings of its compatible property ({}  *)
(* when it has none); a status; and a reg property, absent or some address *)
(* and size cells of 4 bytes.                                              *)
(***************************************************************************)
RegLen(reg) == 4 * (reg.addr + reg.size)

Node_t ==
  [name : STRING, name31 : STRING, compatible : SUBSET STRING, disabled : BOOLEAN,
   reg : [present : BOOLEAN, addr : Nat, size : Nat]]

(***************************************************************************)
(* A text is the sequence of its parts between slashes: "/soc/serial@1" is *)
(* <<"", "soc", "serial@1">>, an alias <<"serial0">>, "/" <<"", "">> and   *)
(* the empty string <<"">>.  stdout-path may be missing (so may /chosen);  *)
(* path is its text up to the baud rate, path127 what console_init's       *)
(* buf[128] has room for, and node the node whose path it is, or NONE.     *)
(***************************************************************************)
Texts == {t \in Seq(STRING) : Len(t) > 0}

NoText      == <<"">>
LastPart(t) == t[Len(t)]
IsPath(t)   == Len(t) > 1 /\ t[1] = ""
IsCut(c, t) == Len(c) <= Len(t) /\ \A i \in 1 .. Len(c) - 1 : c[i] = t[i]

\* The path of a node of that name, with or without a slash at its end.
LeadsTo(t, name) ==
  /\ IsPath(t)
  /\ \/ LastPart(t) = name
     \/ LastPart(t) = "" /\ t[Len(t) - 1] = name

Stdout_t == [present : BOOLEAN, path : Texts, path127 : Texts, node : Nat]

ASSUME DriverAssumption == Drivers \in Seq({PL011, NS16550})

ASSUME TreeAssumption ==
  \A t \in Trees :
    /\ t.nodes \in Seq(Node_t)
    /\ t.stdout \in Stdout_t
    /\ IsCut(t.stdout.path127, t.stdout.path)
    /\ t.stdout.node # NONE =>
         t.stdout.node \in DOMAIN t.nodes /\ LeadsTo(t.stdout.path, t.nodes[t.stdout.node].name)

VARIABLES
  dt,        \* [nodes : a sequence of nodes, stdout : the console chosen]
  pc,        \* "enum", "match", "console", "run" or "panic"
  cursor,    \* the node enumerate is at; the device match_drivers is at
  slot,      \* the driver match_drivers is at
  bus,       \* the list platform_bus, its head first
  held,      \* how many allocations are outstanding
  matched,   \* matched_count
  oom,       \* has a kcalloc of enumerate failed?
  system_console  \* a position in bus, or NONE

vars == <<dt, pc, cursor, slot, bus, held, matched, oom, system_console>>

Init ==
  /\ dt \in Trees
  /\ pc = "enum"
  /\ cursor = 1
  /\ slot = 1
  /\ bus = << >>
  /\ held = 0
  /\ matched = 0
  /\ oom = FALSE
  /\ system_console = NONE

-----------------------------------------------------------------------------
(* platform_bus_enumerate *)

\* The name is cut by strncpy into name[32].
NewDevice(n) ==
  [node |-> n, name |-> dt.nodes[n].name31, state |-> "uninit",
   driver |-> NONE, private_data |-> FALSE, base |-> "unset"]

Wanted(node) == node.compatible # {} /\ ~node.disabled

\* Seeded fault: a node that is left out is looked at again.
EnumStuck ==
  /\ pc = "enum"
  /\ cursor <= Len(dt.nodes)
  /\ ~Wanted(dt.nodes[cursor])
  /\ UNCHANGED vars

EnumSkip ==
  /\ pc = "enum"
  /\ cursor <= Len(dt.nodes)
  /\ ~Wanted(dt.nodes[cursor])
  /\ cursor' = cursor + 1
  /\ UNCHANGED <<dt, pc, slot, bus, held, matched, oom, system_console>>

\* Seeded fault: a new device is put where the list ends.
EnumAppend ==
  /\ pc = "enum"
  /\ cursor <= Len(dt.nodes)
  /\ Wanted(dt.nodes[cursor])
  /\ bus' = Append(bus, NewDevice(cursor))
  /\ held' = held + 1
  /\ cursor' = cursor + 1
  /\ UNCHANGED <<dt, pc, slot, matched, oom, system_console>>

EnumAdd ==
  /\ pc = "enum"
  /\ cursor <= Len(dt.nodes)
  /\ Wanted(dt.nodes[cursor])
  /\ bus' = <<NewDevice(cursor)>> \o bus
  /\ held' = held + 1
  /\ cursor' = cursor + 1
  /\ UNCHANGED <<dt, pc, slot, matched, oom, system_console>>

StartMatching == pc' = "match" /\ cursor' = 1 /\ slot' = 1

\* kcalloc fails: the nodes that are left are given up.
EnumOutOfMemory ==
  /\ pc = "enum"
  /\ cursor <= Len(dt.nodes)
  /\ Wanted(dt.nodes[cursor])
  /\ oom' = TRUE
  /\ StartMatching
  /\ UNCHANGED <<dt, bus, held, matched, system_console>>

EnumEnd ==
  /\ pc = "enum"
  /\ cursor > Len(dt.nodes)
  /\ StartMatching
  /\ UNCHANGED <<dt, bus, held, matched, oom, system_console>>

-----------------------------------------------------------------------------
(* platform_bus_match_drivers and the drivers' probe functions *)

NodeOf(d) == dt.nodes[bus[d].node]

\* fdt_node_check_compatible finds the driver's string in the node's list.
Matches(d, s) == Drivers[s] \in NodeOf(d).compatible

\* Seeded faults: the search for a driver goes on where the last one ended,
\* at the driver it found or after it.
SameSlot == cursor' = cursor + 1 /\ slot' = slot
NextSlot == cursor' = cursor + 1 /\ slot' = slot + 1

NextDevice == cursor' = cursor + 1 /\ slot' = 1

\* No driver of the array matches the device, or it has been probed before.
MatchNone ==
  /\ pc = "match"
  /\ cursor <= Len(bus)
  /\ slot > Len(Drivers) \/ bus[cursor].state # "uninit"
  /\ NextDevice
  /\ UNCHANGED <<dt, pc, bus, held, matched, oom, system_console>>

MatchMiss ==
  /\ pc = "match"
  /\ cursor <= Len(bus)
  /\ bus[cursor].state = "uninit"
  /\ slot <= Len(Drivers)
  /\ ~Matches(cursor, slot)
  /\ slot' = slot + 1
  /\ UNCHANGED <<dt, pc, cursor, bus, held, matched, oom, system_console>>

\* The driver at slot is being asked to probe the device at cursor.
Probing ==
  /\ pc = "match"
  /\ cursor <= Len(bus)
  /\ bus[cursor].state = "uninit"
  /\ slot <= Len(Drivers)
  /\ Matches(cursor, slot)

\* Both probes need a reg property; ns16550_probe also looks at its length.
RegUsable(drv, reg) ==
  /\ reg.present
  /\ drv = NS16550 => RegLen(reg) >= 4

(***************************************************************************)
(* pl011_probe reads two cells as one 64-bit address.  ns16550_probe reads *)
(* one cell when there is only one, and two otherwise.  The address is     *)
(* right when that is how many address cells the property has.             *)
(***************************************************************************)
CellsRead(drv, reg) == IF drv = PL011 \/ RegLen(reg) >= 8 THEN 2 ELSE 1

BaseAddr(drv, reg) == IF CellsRead(drv, reg) = reg.addr THEN "right" ELSE "wrong"

Probed(st, p, base) ==
  [bus EXCEPT ![cursor] = [@ EXCEPT !.driver = slot, !.state = st,
                                    !.private_data = p, !.base = base]]

ProbeOK ==
  /\ Probing
  /\ RegUsable(Drivers[slot], NodeOf(cursor).reg)
  /\ bus' = Probed("ready", TRUE, BaseAddr(Drivers[slot], NodeOf(cursor).reg))
  /\ held' = held + 1
  /\ matched' = matched + 1
  /\ NextDevice
  /\ UNCHANGED <<dt, pc, oom, system_console>>

\* kcalloc of the private data fails.
ProbeOutOfMemory ==
  /\ Probing
  /\ bus' = Probed("error", FALSE, "unset")
  /\ NextDevice
  /\ UNCHANGED <<dt, pc, held, matched, oom, system_console>>

\* Seeded fault: the private data is not freed when reg is unusable.
ProbeLeaks ==
  /\ Probing
  /\ ~RegUsable(Drivers[slot], NodeOf(cursor).reg)
  /\ bus' = Probed("error", FALSE, "unset")
  /\ held' = held + 1
  /\ NextDevice
  /\ UNCHANGED <<dt, pc, matched, oom, system_console>>

\* The private data is allocated, reg is unusable, the private data is freed.
ProbeBadReg ==
  /\ Probing
  /\ ~RegUsable(Drivers[slot], NodeOf(cursor).reg)
  /\ bus' = Probed("error", FALSE, "unset")
  /\ NextDevice
  /\ UNCHANGED <<dt, pc, held, matched, oom, system_console>>

MatchEnd ==
  /\ pc = "match"
  /\ cursor > Len(bus)
  /\ pc' = "console"
  /\ UNCHANGED <<dt, cursor, slot, bus, held, matched, oom, system_console>>

-----------------------------------------------------------------------------
(* console_init, and main's reaction to it *)

Named(text) == {d \in DOMAIN bus : text = <<bus[d].name>>}

\* The first device of the list with that name, whatever its state.
platform_bus_get_device(text) ==
  IF Named(text) = {} THEN NONE
  ELSE CHOOSE d \in Named(text) : \A e \in Named(text) : d <= e

\* The copy in buf, cut to 127 characters and then at the colon.
Buf(stdout) == stdout.path127

\* Seeded fault: the leading directories are not cut off.
WholePath(buf) == buf

\* The last part of a path, all but the first slash when that part is empty,
\* and the whole of anything else.
NodeName(buf) ==
  IF ~IsPath(buf) THEN buf
  ELSE IF LastPart(buf) # "" THEN <<LastPart(buf)>>
  ELSE Tail(buf)

\* Steps 4 and 5 of console_init: by node name, else by all of stdout-path.
Lookup(buf) ==
  LET d == platform_bus_get_device(NodeName(buf))
  IN  IF d # NONE THEN d ELSE platform_bus_get_device(buf)

\* Seeded fault: the device's state is not looked at.
UsableAnyState(d) == d # NONE

Usable(d) == d # NONE /\ bus[d].state = "ready"

ConsoleInit ==
  /\ pc = "console"
  /\ LET buf == Buf(dt.stdout)
         d   == Lookup(buf)
     IN  IF dt.stdout.present /\ NodeName(buf) # NoText /\ Usable(d)
         THEN system_console' = d /\ pc' = "run"
         ELSE system_console' = NONE /\ pc' = "panic"
  /\ UNCHANGED <<dt, cursor, slot, bus, held, matched, oom>>

\* The idle loop of main, or the wait of k_panic.
Rest == pc \in {"run", "panic"} /\ UNCHANGED vars

BootStep ==
  \/ EnumSkip \/ EnumAdd \/ EnumOutOfMemory \/ EnumEnd
  \/ MatchNone \/ MatchMiss \/ ProbeOK \/ ProbeOutOfMemory \/ ProbeBadReg \/ MatchEnd
  \/ ConsoleInit

Next == BootStep \/ Rest

\* One hart runs main and nothing takes the processor away from it.
Spec == Init /\ [][Next]_vars /\ WF_vars(BootStep)

-----------------------------------------------------------------------------
(* Properties *)

Devices ==
  [node : Nat, name : STRING,
   state : {"uninit", "ready", "error"}, driver : Nat, private_data : BOOLEAN,
   base : {"unset", "right", "wrong"}]

\* The type of every variable.
TypeOK ==
  /\ dt \in Trees
  /\ pc \in {"enum", "match", "console", "run", "panic"}
  /\ cursor \in 1 .. Len(dt.nodes) + 1
  /\ slot \in 1 .. Len(Drivers) + 1
  /\ \A d \in DOMAIN bus : bus[d] \in Devices
  /\ held \in Nat
  /\ matched \in Nat
  /\ oom \in BOOLEAN
  /\ system_console \in 0 .. Len(bus)

WantedNodes == {n \in DOMAIN dt.nodes : Wanted(dt.nodes[n])}
OnBus       == {bus[d].node : d \in DOMAIN bus}

(***************************************************************************)
(* platform_bus_enumerate leaves one device for every enabled node with a  *)
(* compatible property, the last node first; when memory runs out, for the *)
(* nodes up to some point of the tree.                                     *)
(***************************************************************************)
BusMirrorsTree ==
  /\ \A d, e \in DOMAIN bus : d < e => bus[d].node > bus[e].node
  /\ OnBus \subseteq WantedNodes
  /\ \A n \in WantedNodes, m \in OnBus : n < m => n \in OnBus
  /\ pc # "enum" /\ ~oom => OnBus = WantedNodes

Ready == {d \in DOMAIN bus : bus[d].state = "ready"}

(***************************************************************************)
(* Every allocation is a device on the bus or the private data of a device *)
(* that is ready: a probe that fails gives back what it took, whichever of *)
(* its steps failed ("it's the driver's responsibility to free").          *)
(***************************************************************************)
NoProbeLeaks ==
  /\ held = Len(bus) + Cardinality(Ready)
  /\ \A d \in DOMAIN bus : bus[d].private_data <=> d \in Ready

(***************************************************************************)
(* Once match_drivers is done, every device with a matching driver has     *)
(* been probed, once, by the first one in the linker's array, and          *)
(* matched_count is the number of devices that are ready.                  *)
(***************************************************************************)
FirstDriverWins ==
  pc \notin {"enum", "match"} =>
    /\ matched = Cardinality(Ready)
    /\ \A d \in DOMAIN bus :
         LET S == {s \in DOMAIN Drivers : Matches(d, s)}
         IN  IF S = {} THEN bus[d].state = "uninit" /\ bus[d].driver = NONE
             ELSE bus[d].driver \in S /\ \A s \in S : bus[d].driver <= s

(***************************************************************************)
(* main goes on only with a console that console_putc can use: it follows  *)
(* driver->api and private_data of system_console.                         *)
(***************************************************************************)
ConsoleUsable ==
  pc = "run" =>
    /\ system_console \in DOMAIN bus
    /\ bus[system_console].driver # NONE
    /\ bus[system_console].private_data

(***************************************************************************)
(* When stdout-path is the path of a node that has been probed             *)
(* successfully, fits in buf and does not end in a slash, and the node's   *)
(* name fits and no other device was given it, that device becomes the     *)
(* console and the kernel does not panic.  A path that was cut or ends in  *)
(* a slash may miss it: the kernel goes on only with a device that bears   *)
(* the name which the text in buf ends with, and not at all when it ends   *)
(* in a slash.                                                             *)
(***************************************************************************)
ChosenConsole ==
  pc \in {"run", "panic"} =>
    /\ dt.stdout.present /\ Buf(dt.stdout) = dt.stdout.path /\ LastPart(dt.stdout.path) # "" =>
         \A d \in Ready :
           /\ bus[d].node = dt.stdout.node
           /\ NodeOf(d).name31 = NodeOf(d).name
           /\ \A e \in DOMAIN bus \ {d} : NodeOf(e).name31 # NodeOf(d).name
           => system_console = d
    /\ pc = "run" => bus[system_console].name = LastPart(Buf(dt.stdout))
    /\ LastPart(Buf(dt.stdout)) = "" => pc = "panic"

\* Booting ends, in the idle loop or in the panic, on every device tree.
BootEnds == <>(pc \in {"run", "panic"})

(***************************************************************************)
(* drivers/serial/ns16550.c: "Support both 1-cell (32-bit) and 2-cell      *)
(* (64-bit) encodings" of the base address.                                *)
(***************************************************************************)
BothEncodings ==
  \A d \in Ready :
    Drivers[bus[d].driver] = NS16550 /\ NodeOf(d).reg.addr \in {1, 2}
      => bus[d].base = "right"

-----------------------------------------------------------------------------
(***************************************************************************)
(* The inductive invariant: where enumerate and match_drivers have got to, *)
(* and what they have left behind.                                         *)
(***************************************************************************)

\* A device bears the name of its node, cut to what fits.
DevicesNamed ==
  \A d \in DOMAIN bus :
    bus[d].node \in DOMAIN dt.nodes /\ bus[d].name = NodeOf(d).name31

Untouched(d) ==
  bus[d].state = "uninit" /\ bus[d].driver = NONE /\ ~bus[d].private_data

\* Every node up to the cursor has been looked at, and none after it.
Enumerating ==
  pc = "enum" =>
    /\ Len(bus) < cursor
    /\ \A d \in DOMAIN bus : bus[d].node < cursor /\ Untouched(d)
    /\ \A n \in WantedNodes : n < cursor => n \in OnBus
    /\ ~oom
    /\ matched = 0

Matching(d) == {s \in DOMAIN Drivers : Matches(d, s)}

\* The device has been through match_drivers.
Settled(d) ==
  IF Matching(d) = {} THEN bus[d].state = "uninit" /\ bus[d].driver = NONE
  ELSE bus[d].driver \in Matching(d) /\ \A s \in Matching(d) : bus[d].driver <= s

\* The devices before the cursor are settled, those after it untouched, and
\* the drivers before the slot do not match the device at the cursor.
Progress ==
  /\ pc = "match" =>
       /\ cursor <= Len(bus) + 1
       /\ \A d \in DOMAIN bus : IF d < cursor THEN Settled(d) ELSE Untouched(d)
       /\ cursor \in DOMAIN bus => \A s \in Matching(cursor) : s >= slot
  /\ pc \in {"console", "run", "panic"} => \A d \in DOMAIN bus : Settled(d)

ReadyDevices ==
  \A d \in DOMAIN bus :
    /\ bus[d].private_data <=> bus[d].state = "ready"
    /\ bus[d].state = "ready" => bus[d].driver # NONE

\* What console_init has decided.
ConsoleDecided ==
  pc \in {"run", "panic"} =>
    LET buf == Buf(dt.stdout)
    IN  IF dt.stdout.present /\ NodeName(buf) # NoText /\ Usable(Lookup(buf))
        THEN pc = "run" /\ system_console = Lookup(buf)
        ELSE pc = "panic" /\ system_console = NONE

BusInv ==
  /\ TypeOK
  /\ bus \in Seq(Devices)
  /\ Len(bus) <= Len(dt.nodes)
  /\ BusMirrorsTree
  /\ DevicesNamed
  /\ Enumerating
  /\ Progress
  /\ ReadyDevices
  /\ matched = Cardinality(Ready)
  /\ held = Len(bus) + Cardinality(Ready)
  /\ ConsoleDecided
  /\ pc = "run" => system_console # NONE
=============================================================================
