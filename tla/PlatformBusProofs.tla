-------------------------- MODULE PlatformBusProofs -------------------------
(***************************************************************************)
(* Proofs about PlatformBus, for every array of drivers and every set of   *)
(* device trees: what enumerate and match_drivers leave on the bus, and    *)
(* the console that console_init picks.                                    *)
(***************************************************************************)
EXTENDS PlatformBus, FiniteSetTheorems, SequenceTheorems, TLAPS

-----------------------------------------------------------------------------
(* Sequences *)

\* The elements of a sequence over S are in S.
LEMMA ElementFact ==
  ASSUME NEW S, NEW s \in Seq(S)
  PROVE  DOMAIN s = 1 .. Len(s) /\ Len(s) \in Nat /\ \A i \in DOMAIN s : s[i] \in S
OBVIOUS

\* list_add at the head: the new element is first, the others move up.
LEMMA ConsFact ==
  ASSUME NEW S, NEW s \in Seq(S), NEW e \in S
  PROVE  /\ <<e>> \o s \in Seq(S)
         /\ Len(<<e>> \o s) = Len(s) + 1
         /\ (<<e>> \o s)[1] = e
         /\ \A i \in 1 .. Len(s) : (<<e>> \o s)[i + 1] = s[i]
OBVIOUS

\* A store into one element leaves the others alone.
LEMMA StoreFact ==
  ASSUME NEW S, NEW s \in Seq(S), NEW k \in DOMAIN s, NEW e \in S
  PROVE  /\ [s EXCEPT ![k] = e] \in Seq(S)
         /\ Len([s EXCEPT ![k] = e]) = Len(s)
         /\ DOMAIN [s EXCEPT ![k] = e] = DOMAIN s
         /\ [s EXCEPT ![k] = e][k] = e
         /\ \A i \in DOMAIN s : i # k => [s EXCEPT ![k] = e][i] = s[i]
OBVIOUS

\* A set of numbers that is not empty has a least element.
LEMMA LeastOfSet ==
  ASSUME NEW T \in SUBSET Nat, T # {}
  PROVE  \E n \in T : \A m \in T : n <= m
<1> DEFINE R == {ss \in Nat \X Nat : ss[1] < ss[2]}
<1>1. IsWellFoundedOn(R, Nat)
  BY NatLessThanWellFounded, Zenon DEF OpToRel
<1>2. \A i, j \in Nat : i < j => <<i, j>> \in R
  OBVIOUS
<1> HIDE DEF R
<1>3. PICK n \in T : \A m \in T : ~(<<m, n>> \in R)
  BY <1>1, WFMin
<1>4. \A m \in T : m \in Nat /\ n \in Nat /\ ~(m < n)
  BY <1>2, <1>3
<1> QED
  BY <1>4

-----------------------------------------------------------------------------
(* The tree, the drivers and the bus *)

\* The tree, the bus and the places of the loops, with their types.
LEMMA Shapes ==
  ASSUME BusInv
  PROVE  /\ dt \in Trees
         /\ DOMAIN dt.nodes = 1 .. Len(dt.nodes) /\ Len(dt.nodes) \in Nat
         /\ \A n \in DOMAIN dt.nodes : dt.nodes[n] \in Node_t
         /\ DOMAIN bus = 1 .. Len(bus) /\ Len(bus) \in Nat /\ bus \in Seq(Devices)
         /\ \A d \in DOMAIN bus : bus[d] \in Devices
         /\ cursor \in Nat /\ slot \in Nat
         /\ cursor >= 1 /\ slot >= 1 /\ cursor <= Len(dt.nodes) + 1 /\ slot <= Len(Drivers) + 1
         /\ DOMAIN Drivers = 1 .. Len(Drivers) /\ Len(Drivers) \in Nat
<1>1. dt \in Trees /\ bus \in Seq(Devices)
  BY DEF BusInv, TypeOK
<1>2. dt.nodes \in Seq(Node_t)
  BY <1>1, TreeAssumption
<1>3. DOMAIN dt.nodes = 1 .. Len(dt.nodes) /\ Len(dt.nodes) \in Nat
      /\ \A n \in DOMAIN dt.nodes : dt.nodes[n] \in Node_t
  BY <1>2, ElementFact
<1>4. /\ DOMAIN bus = 1 .. Len(bus) /\ Len(bus) \in Nat
      /\ \A d \in DOMAIN bus : bus[d] \in Devices
  BY <1>1, ElementFact
<1>5. DOMAIN Drivers = 1 .. Len(Drivers) /\ Len(Drivers) \in Nat
  BY DriverAssumption, ElementFact
<1>6. cursor \in 1 .. Len(dt.nodes) + 1 /\ slot \in 1 .. Len(Drivers) + 1
  BY DEF BusInv, TypeOK
<1> QED
  BY <1>1, <1>3, <1>4, <1>5, <1>6

\* The devices that are ready are finitely many.
LEMMA ReadyFinite ==
  ASSUME BusInv
  PROVE  IsFiniteSet(Ready)
<1>1. IsFiniteSet(1 .. Len(bus))
  BY Shapes, FS_Interval
<1>2. Ready \subseteq 1 .. Len(bus)
  BY Shapes DEF Ready
<1> QED
  BY <1>1, <1>2, FS_Subset

\* What is said of the bus alone does not change when the bus does not.
LEMMA SameBus ==
  ASSUME bus' = bus, dt' = dt
  PROVE  /\ Ready' = Ready /\ OnBus' = OnBus /\ WantedNodes' = WantedNodes
         /\ DevicesNamed' <=> DevicesNamed
         /\ ReadyDevices' <=> ReadyDevices
         /\ \A d : Matching(d)' = Matching(d)
         /\ \A d : Settled(d)' <=> Settled(d)
         /\ \A d : Untouched(d)' <=> Untouched(d)
<1>1. Ready' = Ready /\ OnBus' = OnBus /\ WantedNodes' = WantedNodes
  BY DEF Ready, OnBus, WantedNodes, Wanted
<1>2. \A d : NodeOf(d)' = NodeOf(d)
  BY DEF NodeOf
<1>3. \A d : Matching(d)' = Matching(d)
  BY <1>2 DEF Matching, Matches
<1>4. \A d : Settled(d)' <=> Settled(d)
  BY <1>3 DEF Settled
<1>5. \A d : Untouched(d)' <=> Untouched(d)
  BY DEF Untouched
<1>6. DevicesNamed' <=> DevicesNamed
  BY <1>2 DEF DevicesNamed
<1>7. ReadyDevices' <=> ReadyDevices
  BY DEF ReadyDevices
<1> QED
  BY <1>1, <1>3, <1>4, <1>5, <1>6, <1>7

\* A step that leaves the tree and the bus alone, and says where it goes on.
LEMMA QuietStep ==
  ASSUME BusInv, bus' = bus, dt' = dt, held' = held, matched' = matched, TypeOK',
         Enumerating', Progress', ConsoleDecided', pc' = "run" => system_console' # NONE,
         pc' # "enum" /\ ~oom' => OnBus = WantedNodes
  PROVE  BusInv'
<1>1. /\ Ready' = Ready /\ OnBus' = OnBus /\ WantedNodes' = WantedNodes
      /\ DevicesNamed' /\ ReadyDevices'
  BY SameBus DEF BusInv
<1>2. BusMirrorsTree'
  BY <1>1 DEF BusInv, BusMirrorsTree
<1> QED
  BY <1>1, <1>2 DEF BusInv

\* Before the enumeration the bus is empty and nothing is held.
LEMMA InitBusInv == Init => BusInv
<1> SUFFICES ASSUME Init PROVE BusInv
  OBVIOUS
<1>1. /\ bus = << >> /\ dt \in Trees /\ pc = "enum" /\ cursor = 1 /\ slot = 1
      /\ held = 0 /\ matched = 0 /\ oom = FALSE /\ system_console = 0
  BY DEF Init, NONE
<1>2. Len(dt.nodes) \in Nat /\ DOMAIN dt.nodes = 1 .. Len(dt.nodes)
  <2>1. dt.nodes \in Seq(Node_t)
    BY <1>1, TreeAssumption
  <2> QED
    BY <2>1, ElementFact
<1>3. Len(Drivers) \in Nat
  BY DriverAssumption
<1>4. Len(bus) = 0 /\ DOMAIN bus = {} /\ bus \in Seq(Devices)
  BY <1>1
<1>5. TypeOK
  <2>1. cursor \in 1 .. Len(dt.nodes) + 1 /\ slot \in 1 .. Len(Drivers) + 1
    BY <1>1, <1>2, <1>3
  <2>2. held \in Nat /\ matched \in Nat /\ system_console \in 0 .. Len(bus)
    BY <1>1, <1>4
  <2>5. oom \in BOOLEAN
    BY <1>1
  <2>3. \A d \in DOMAIN bus : bus[d] \in Devices
    BY <1>4
  <2>4. pc \in {"enum", "match", "console", "run", "panic"} /\ dt \in Trees
    BY <1>1
  <2> QED
    BY <2>1, <2>2, <2>3, <2>4, <2>5 DEF TypeOK
<1>6. Ready = {} /\ OnBus = {}
  BY <1>4 DEF Ready, OnBus
<1>7. Cardinality(Ready) = 0
  BY <1>6, FS_EmptySet
<1>8. BusMirrorsTree
  BY <1>1, <1>4, <1>6 DEF BusMirrorsTree
<1>9. DevicesNamed /\ ReadyDevices
  BY <1>4 DEF DevicesNamed, ReadyDevices
<1>10. Enumerating
  <2>1. \A n \in WantedNodes : ~(n < cursor)
    BY <1>1, <1>2 DEF WantedNodes
  <2> QED
    BY <1>1, <1>4, <2>1 DEF Enumerating
<1>11. Progress /\ ConsoleDecided
  BY <1>1 DEF Progress, ConsoleDecided
<1> QED
  BY <1>1, <1>2, <1>4, <1>5, <1>7, <1>8, <1>9, <1>10, <1>11 DEF BusInv

-----------------------------------------------------------------------------
(* platform_bus_enumerate *)

\* A node the enumeration passes by leaves the bus alone.
LEMMA SkipStep ==
  ASSUME BusInv, EnumSkip
  PROVE  BusInv'
<1>1. /\ pc = "enum" /\ pc' = "enum" /\ cursor <= Len(dt.nodes) /\ cursor' = cursor + 1
      /\ ~Wanted(dt.nodes[cursor])
      /\ dt' = dt /\ slot' = slot /\ bus' = bus /\ held' = held /\ matched' = matched
      /\ oom' = oom /\ system_console' = system_console
  BY DEF EnumSkip
<1>2. TypeOK'
  <2>1. cursor' \in 1 .. Len(dt.nodes) + 1
    BY <1>1, Shapes
  <2> QED
    BY <1>1, <2>1 DEF BusInv, TypeOK
<1>3. Enumerating'
  <2>1. /\ Len(bus) < cursor /\ ~oom /\ matched = 0
        /\ \A d \in DOMAIN bus : bus[d].node < cursor /\ Untouched(d)
        /\ \A n \in WantedNodes : n < cursor => n \in OnBus
    BY <1>1 DEF BusInv, Enumerating
  <2>2. cursor \notin WantedNodes /\ WantedNodes \subseteq Nat
    BY <1>1, Shapes DEF WantedNodes
  <2>3. \A n \in WantedNodes : n < cursor + 1 => n \in OnBus
    BY <2>1, <2>2, Shapes
  <2>4. \A d \in DOMAIN bus : bus[d].node < cursor + 1
    BY <2>1, Shapes DEF Devices
  <2>5. Len(bus) < cursor + 1
    BY <2>1, Shapes
  <2> QED
    BY <1>1, <2>1, <2>3, <2>4, <2>5, SameBus DEF Enumerating
<1>4. Progress' /\ ConsoleDecided'
  BY <1>1 DEF Progress, ConsoleDecided
<1> QED
  BY <1>1, <1>2, <1>3, <1>4, QuietStep

\* A node with a compatible becomes the first device of the bus.
LEMMA AddStep ==
  ASSUME BusInv, EnumAdd
  PROVE  BusInv'
<1> DEFINE new == NewDevice(cursor)
<1>1. /\ pc = "enum" /\ pc' = "enum" /\ cursor <= Len(dt.nodes) /\ cursor' = cursor + 1
      /\ Wanted(dt.nodes[cursor])
      /\ bus' = <<new>> \o bus /\ held' = held + 1
      /\ dt' = dt /\ slot' = slot /\ matched' = matched
      /\ oom' = oom /\ system_console' = system_console
  BY DEF EnumAdd
<1>2. /\ Len(bus) < cursor /\ ~oom /\ matched = 0
      /\ \A d \in DOMAIN bus : bus[d].node < cursor /\ Untouched(d)
      /\ \A n \in WantedNodes : n < cursor => n \in OnBus
  BY <1>1 DEF BusInv, Enumerating
<1>3. cursor \in DOMAIN dt.nodes /\ dt.nodes[cursor].name31 \in STRING /\ cursor \in WantedNodes
  BY <1>1, Shapes DEF Node_t, WantedNodes
<1>4. /\ new \in Devices /\ new.node = cursor /\ new.name = dt.nodes[cursor].name31
      /\ new.state = "uninit" /\ new.driver = NONE /\ new.private_data = FALSE
  BY <1>3, Shapes DEF NewDevice, Devices, NONE
<1> HIDE DEF new
<1>5. /\ bus' \in Seq(Devices) /\ Len(bus') = Len(bus) + 1
      /\ bus'[1] = new /\ \A d \in 1 .. Len(bus) : bus'[d + 1] = bus[d]
  BY <1>1, <1>4, Shapes, ConsFact
<1>6. DOMAIN bus' = 1 .. Len(bus) + 1
  BY <1>5, ElementFact
<1>7. \A d \in DOMAIN bus' : d = 1 \/ (d - 1 \in DOMAIN bus /\ bus'[d] = bus[d - 1])
  <2> SUFFICES ASSUME NEW d \in DOMAIN bus', d # 1
               PROVE  d - 1 \in DOMAIN bus /\ bus'[d] = bus[d - 1]
    OBVIOUS
  <2>1. d \in Nat /\ d - 1 \in 1 .. Len(bus) /\ (d - 1) + 1 = d
    BY <1>6, Shapes
  <2>2. bus'[(d - 1) + 1] = bus[d - 1]
    BY <1>5, <2>1
  <2> QED
    BY <2>1, <2>2, Shapes
<1>8. WantedNodes' = WantedNodes
  BY <1>1 DEF WantedNodes, Wanted
<1>9. OnBus' = OnBus \cup {cursor}
  <2>1. \A d \in DOMAIN bus : d + 1 \in DOMAIN bus' /\ bus'[d + 1].node = bus[d].node
    BY <1>5, <1>6, Shapes
  <2>2. 1 \in DOMAIN bus' /\ bus'[1].node = cursor
    BY <1>4, <1>5, <1>6, Shapes
  <2>3. \A d \in DOMAIN bus' : d = 1 \/ (d - 1 \in DOMAIN bus /\ bus'[d].node = bus[d - 1].node)
    BY <1>7
  <2>4. OnBus' \subseteq OnBus \cup {cursor}
    BY <2>2, <2>3 DEF OnBus
  <2>5. OnBus \subseteq OnBus' /\ cursor \in OnBus'
    BY <2>1, <2>2 DEF OnBus
  <2> QED
    BY <2>4, <2>5
<1>10. \A d \in DOMAIN bus' : Untouched(d)'
  BY <1>2, <1>4, <1>5, <1>7 DEF Untouched
<1>11. Ready = {} /\ Ready' = {}
  BY <1>2, <1>10 DEF Ready, Untouched
<1>12. \A d \in DOMAIN bus' : bus'[d].node \in Nat /\ bus'[d].node < cursor + 1
  <2>1. \A d \in DOMAIN bus : bus[d].node \in Nat /\ bus[d].node < cursor + 1
    BY <1>2, Shapes DEF Devices
  <2>2. bus'[1].node \in Nat /\ bus'[1].node < cursor + 1
    BY <1>4, <1>5, Shapes
  <2> QED
    BY <1>7, <2>1, <2>2
<1>13. TypeOK'
  <2>1. cursor' \in 1 .. Len(dt.nodes) + 1
    BY <1>1, Shapes
  <2>2. \A d \in DOMAIN bus' : bus'[d] \in Devices
    BY <1>5, ElementFact
  <2>3. held' \in Nat
    <3>1. held \in Nat
      BY DEF BusInv, TypeOK
    <3> QED
      BY <1>1, <3>1
  <2>4. system_console' \in 0 .. Len(bus')
    BY <1>1, <1>5, Shapes DEF BusInv, TypeOK
  <2> QED
    BY <1>1, <2>1, <2>2, <2>3, <2>4 DEF BusInv, TypeOK
<1>14. BusMirrorsTree'
  <2>1. \A d, e \in DOMAIN bus' : d < e => bus'[d].node > bus'[e].node
    <3> SUFFICES ASSUME NEW d \in DOMAIN bus', NEW e \in DOMAIN bus', d < e
                 PROVE  bus'[d].node > bus'[e].node
      OBVIOUS
    <3>1. d \in Nat /\ e \in Nat /\ d >= 1 /\ e >= 1 /\ e # 1
      BY <1>6, Shapes
    <3>2. e - 1 \in DOMAIN bus /\ bus'[e] = bus[e - 1]
      BY <1>7, <3>1
    <3>3. CASE d = 1
      BY <1>2, <1>4, <1>5, <3>2, <3>3, Shapes DEF Devices
    <3>4. CASE d # 1
      <4>1. d - 1 \in DOMAIN bus /\ bus'[d] = bus[d - 1] /\ d - 1 < e - 1
        BY <1>7, <3>1, <3>4
      <4> QED
        BY <3>2, <4>1 DEF BusInv, BusMirrorsTree
    <3> QED
      BY <3>3, <3>4
  <2>2. OnBus' \subseteq WantedNodes'
    BY <1>3, <1>8, <1>9 DEF BusInv, BusMirrorsTree
  <2>3. \A n \in WantedNodes', m \in OnBus' : n < m => n \in OnBus'
    <3> SUFFICES ASSUME NEW n \in WantedNodes, NEW m \in OnBus', n < m
                 PROVE  n \in OnBus
      BY <1>8, <1>9
    <3>1. m \in OnBus \/ m = cursor
      BY <1>9
    <3> QED
      BY <1>2, <3>1 DEF BusInv, BusMirrorsTree
  <2> QED
    BY <1>1, <2>1, <2>2, <2>3 DEF BusMirrorsTree
<1>15. DevicesNamed'
  <2> SUFFICES ASSUME NEW d \in DOMAIN bus'
               PROVE  bus'[d].node \in DOMAIN dt.nodes /\ bus'[d].name = dt.nodes[bus'[d].node].name31
    BY <1>1 DEF DevicesNamed, NodeOf
  <2>1. CASE d = 1
    BY <1>3, <1>4, <1>5, <2>1
  <2>2. CASE d # 1
    BY <1>7, <2>2 DEF BusInv, DevicesNamed, NodeOf
  <2> QED
    BY <2>1, <2>2
<1>16. Enumerating'
  <2>1. \A n \in WantedNodes' : n < cursor + 1 => n \in OnBus'
    <3> SUFFICES ASSUME NEW n \in WantedNodes, n < cursor + 1
                 PROVE  n \in OnBus \cup {cursor}
      BY <1>8, <1>9
    <3>1. n \in Nat
      BY Shapes DEF WantedNodes
    <3>2. n < cursor \/ n = cursor
      BY <3>1, Shapes
    <3> QED
      BY <1>2, <3>2
  <2>2. Len(bus') < cursor'
    BY <1>1, <1>2, <1>5, Shapes
  <2> QED
    BY <1>1, <1>2, <1>10, <1>12, <2>1, <2>2 DEF Enumerating
<1>17. Progress' /\ ConsoleDecided'
  BY <1>1 DEF Progress, ConsoleDecided
<1>18. ReadyDevices'
  BY <1>10 DEF ReadyDevices, Untouched
<1>19. matched' = Cardinality(Ready') /\ held' = Len(bus') + Cardinality(Ready')
  <2>1. Cardinality(Ready) = 0 /\ Cardinality(Ready') = 0
    BY <1>11, FS_EmptySet
  <2>2. matched = 0 /\ held = Len(bus) + 0
    BY <1>2, <2>1 DEF BusInv
  <2> QED
    BY <1>1, <1>5, <2>1, <2>2, Shapes
<1>20. Len(bus') <= Len(dt'.nodes)
  BY <1>1, <1>2, <1>5, Shapes
<1> QED
  BY <1>1, <1>5, <1>13, <1>14, <1>15, <1>16, <1>17, <1>18, <1>19, <1>20 DEF BusInv

\* enumerate ends, at the end of the tree or of the memory.
LEMMA EnumEndStep ==
  ASSUME BusInv, EnumEnd \/ EnumOutOfMemory
  PROVE  BusInv'
<1>1. /\ pc = "enum" /\ pc' = "match" /\ cursor' = 1 /\ slot' = 1
      /\ dt' = dt /\ bus' = bus /\ held' = held /\ matched' = matched
      /\ system_console' = system_console /\ oom' \in BOOLEAN
  BY DEF EnumEnd, EnumOutOfMemory, StartMatching, BusInv, TypeOK
<1>2. TypeOK'
  BY <1>1, Shapes DEF BusInv, TypeOK
<1>3. ~oom' => OnBus = WantedNodes
  <2>1. ~oom' => cursor > Len(dt.nodes)
    BY DEF EnumEnd, EnumOutOfMemory
  <2>2. \A n \in WantedNodes : n < cursor => n \in OnBus
    BY <1>1 DEF BusInv, Enumerating
  <2>3. \A n \in WantedNodes : n \in Nat /\ n <= Len(dt.nodes)
    BY Shapes DEF WantedNodes
  <2>4. ~oom' => \A n \in WantedNodes : n < cursor
    BY <2>1, <2>3, Shapes
  <2>5. OnBus \subseteq WantedNodes
    BY DEF BusInv, BusMirrorsTree
  <2> QED
    BY <2>2, <2>4, <2>5
<1>4. Enumerating' /\ ConsoleDecided'
  BY <1>1 DEF Enumerating, ConsoleDecided
<1>5. Progress'
  <2>1. \A d \in DOMAIN bus : Untouched(d)'
    BY <1>1, SameBus DEF BusInv, Enumerating
  <2>2. \A d \in DOMAIN bus : ~(d < 1)
    BY Shapes
  <2>3. \A s \in Matching(cursor)' : s >= 1
    BY Shapes DEF Matching
  <2> QED
    BY <1>1, <2>1, <2>2, <2>3, Shapes DEF Progress
<1> QED
  BY <1>1, <1>2, <1>3, <1>4, <1>5, QuietStep

-----------------------------------------------------------------------------
(* platform_bus_match_drivers *)

\* The part of the invariant that is about match_drivers.
LEMMA AtDevice ==
  ASSUME BusInv, pc = "match"
  PROVE  /\ cursor <= Len(bus) + 1
         /\ \A d \in DOMAIN bus : d < cursor => Settled(d)
         /\ \A d \in DOMAIN bus : d >= cursor => Untouched(d)
         /\ cursor \in DOMAIN bus => \A s \in Matching(cursor) : s >= slot
<1>1. \A d \in DOMAIN bus : d \in Nat /\ cursor \in Nat /\ (d >= cursor <=> ~(d < cursor))
  BY Shapes
<1> QED
  BY <1>1 DEF BusInv, Progress

\* No driver matches: the device at the cursor is settled as it is.
LEMMA NoneStep ==
  ASSUME BusInv, MatchNone
  PROVE  BusInv'
<1>1. /\ pc = "match" /\ pc' = "match" /\ cursor <= Len(bus)
      /\ cursor' = cursor + 1 /\ slot' = 1
      /\ dt' = dt /\ bus' = bus /\ held' = held /\ matched' = matched
      /\ oom' = oom /\ system_console' = system_console
  BY DEF MatchNone, NextDevice
<1>2. cursor \in DOMAIN bus /\ Untouched(cursor)
  BY <1>1, Shapes, AtDevice
<1>3. slot > Len(Drivers)
  BY <1>2 DEF MatchNone, Untouched
<1>4. Matching(cursor) = {}
  <2>1. \A s \in Matching(cursor) : s \in 1 .. Len(Drivers) /\ s >= slot
    BY <1>1, <1>2, AtDevice, Shapes DEF Matching
  <2> QED
    BY <1>3, <2>1, Shapes
<1>5. Settled(cursor)
  BY <1>2, <1>4 DEF Settled, Untouched
<1>6. TypeOK'
  <2>1. cursor' \in 1 .. Len(dt.nodes) + 1 /\ slot' \in 1 .. Len(Drivers) + 1
    BY <1>1, Shapes DEF BusInv
  <2> QED
    BY <1>1, <2>1 DEF BusInv, TypeOK
<1>7. Progress'
  <2>1. \A d \in DOMAIN bus : d < cursor + 1 => Settled(d)
    <3>1. \A d \in DOMAIN bus : d < cursor + 1 => d < cursor \/ d = cursor
      BY Shapes
    <3> QED
      BY <1>1, <1>5, <3>1, AtDevice
  <2>2. \A d \in DOMAIN bus : ~(d < cursor + 1) => Untouched(d)
    <3>1. \A d \in DOMAIN bus : ~(d < cursor + 1) => d >= cursor
      BY Shapes
    <3> QED
      BY <1>1, <3>1, AtDevice
  <2>3. \A s \in Matching(cursor)' : s >= 1
    BY Shapes DEF Matching
  <2>4. \A d \in DOMAIN bus' : IF d < cursor' THEN Settled(d)' ELSE Untouched(d)'
    BY <1>1, <2>1, <2>2, SameBus
  <2>5. cursor' <= Len(bus') + 1
    BY <1>1, Shapes
  <2> QED
    BY <1>1, <2>3, <2>4, <2>5 DEF Progress
<1>8. Enumerating' /\ ConsoleDecided'
  BY <1>1 DEF Enumerating, ConsoleDecided
<1> QED
  BY <1>1, <1>6, <1>7, <1>8, QuietStep DEF BusInv, BusMirrorsTree

\* A driver that does not match leaves the device to the next one.
LEMMA MissStep ==
  ASSUME BusInv, MatchMiss
  PROVE  BusInv'
<1>1. /\ pc = "match" /\ pc' = "match" /\ cursor <= Len(bus) /\ slot <= Len(Drivers)
      /\ ~Matches(cursor, slot)
      /\ cursor' = cursor /\ slot' = slot + 1
      /\ dt' = dt /\ bus' = bus /\ held' = held /\ matched' = matched
      /\ oom' = oom /\ system_console' = system_console
  BY DEF MatchMiss
<1>2. TypeOK'
  <2>1. slot' \in 1 .. Len(Drivers) + 1
    BY <1>1, Shapes
  <2> QED
    BY <1>1, <2>1 DEF BusInv, TypeOK
<1>3. Progress'
  <2>1. \A s \in Matching(cursor) : s \in Nat /\ s >= slot /\ s # slot
    BY <1>1, AtDevice, Shapes DEF Matching
  <2>2. \A s \in Matching(cursor) : s >= slot + 1
    BY <2>1, Shapes
  <2>3. \A s \in Matching(cursor)' : s >= slot'
    BY <1>1, <2>2, SameBus
  <2>4. \A d \in DOMAIN bus' : IF d < cursor' THEN Settled(d)' ELSE Untouched(d)'
    BY <1>1, SameBus DEF BusInv, Progress
  <2> QED
    BY <1>1, <2>3, <2>4, AtDevice DEF Progress
<1>4. Enumerating' /\ ConsoleDecided'
  BY <1>1 DEF Enumerating, ConsoleDecided
<1> QED
  BY <1>1, <1>2, <1>3, <1>4, QuietStep DEF BusInv, BusMirrorsTree

(***************************************************************************)
(* A probe, however it ends: the device at the cursor gets the driver at   *)
(* the slot, the first that matches, and its private data if it is ready.  *)
(***************************************************************************)
LEMMA ProbeStep ==
  ASSUME BusInv, Probing, NEW ok \in BOOLEAN, NEW base \in {"unset", "right", "wrong"},
         bus' = Probed(IF ok THEN "ready" ELSE "error", ok, base),
         held' = held + (IF ok THEN 1 ELSE 0), matched' = matched + (IF ok THEN 1 ELSE 0),
         NextDevice, UNCHANGED <<dt, pc, oom, system_console>>
  PROVE  BusInv'
<1> DEFINE st  == IF ok THEN "ready" ELSE "error"
           dev == [bus[cursor] EXCEPT !.driver = slot, !.state = st,
                                      !.private_data = ok, !.base = base]
<1>1. /\ pc = "match" /\ pc' = "match" /\ cursor <= Len(bus) /\ slot <= Len(Drivers)
      /\ Matches(cursor, slot) /\ cursor' = cursor + 1 /\ slot' = 1
      /\ dt' = dt /\ oom' = oom /\ system_console' = system_console
  BY DEF Probing, NextDevice
<1>2. cursor \in DOMAIN bus /\ bus[cursor] \in Devices /\ Untouched(cursor)
  BY <1>1, Shapes, AtDevice
<1>3. bus' = [bus EXCEPT ![cursor] = dev]
  BY DEF Probed
<1>4. slot \in Nat /\ slot # 0
  BY Shapes
<1>5. /\ dev \in Devices /\ dev.node = bus[cursor].node /\ dev.name = bus[cursor].name
      /\ dev.driver = slot /\ dev.state = st /\ dev.private_data = ok
  BY <1>2, <1>4 DEF Devices
<1>6. st \in {"ready", "error"} /\ (st = "ready" <=> ok)
  OBVIOUS
<1> HIDE DEF dev, st
<1>7. /\ bus' \in Seq(Devices) /\ Len(bus') = Len(bus) /\ DOMAIN bus' = DOMAIN bus
      /\ bus'[cursor] = dev
      /\ \A d \in DOMAIN bus : d # cursor => bus'[d] = bus[d]
  BY <1>2, <1>3, <1>5, Shapes, StoreFact
<1>8. \A d \in DOMAIN bus : bus'[d].node = bus[d].node /\ bus'[d].name = bus[d].name
  BY <1>5, <1>7
<1>9. /\ WantedNodes' = WantedNodes
      /\ \A d \in DOMAIN bus : NodeOf(d)' = NodeOf(d)
  BY <1>1, <1>8 DEF WantedNodes, Wanted, NodeOf
<1>10. OnBus' = OnBus
  BY <1>7, <1>8 DEF OnBus
<1>11. \A d \in DOMAIN bus : Matching(d)' = Matching(d)
  BY <1>9 DEF Matching, Matches
<1>12. Ready' = IF ok THEN Ready \cup {cursor} ELSE Ready
  <2>1. cursor \notin Ready
    BY <1>2 DEF Ready, Untouched
  <2>2. \A d \in DOMAIN bus : d # cursor => (d \in Ready' <=> d \in Ready)
    BY <1>7 DEF Ready
  <2>3. cursor \in Ready' <=> ok
    BY <1>2, <1>5, <1>6, <1>7 DEF Ready
  <2>4. Ready \subseteq DOMAIN bus /\ Ready' \subseteq DOMAIN bus
    BY <1>7 DEF Ready
  <2>5. CASE ok
    BY <1>2, <2>2, <2>3, <2>4, <2>5
  <2>6. CASE ~ok
    BY <2>1, <2>2, <2>3, <2>4, <2>6
  <2> QED
    BY <2>5, <2>6
<1>13. /\ matched' = Cardinality(Ready') /\ held' = Len(bus') + Cardinality(Ready')
       /\ matched' \in Nat /\ held' \in Nat
  <2>1. IsFiniteSet(Ready) /\ Cardinality(Ready) \in Nat
    BY ReadyFinite, FS_CardinalityType
  <2>2. cursor \notin Ready
    BY <1>2 DEF Ready, Untouched
  <2>3. Cardinality(Ready \cup {cursor}) = Cardinality(Ready) + 1
    BY <2>1, <2>2, FS_AddElement
  <2>4. matched = Cardinality(Ready) /\ held = Len(bus) + Cardinality(Ready)
    BY DEF BusInv
  <2>5. CASE ok
    <3>1. matched' = matched + 1 /\ held' = held + 1 /\ Ready' = Ready \cup {cursor}
      BY <1>12, <2>5
    <3>2. Cardinality(Ready') = Cardinality(Ready) + 1 /\ Len(bus') = Len(bus) /\ Len(bus) \in Nat
      BY <1>7, <2>3, <3>1, Shapes
    <3> QED
      BY <2>1, <2>4, <3>1, <3>2
  <2>6. CASE ~ok
    <3>1. matched' = matched + 0 /\ held' = held + 0 /\ Ready' = Ready
      BY <1>12, <2>6
    <3>2. Len(bus') = Len(bus) /\ Len(bus) \in Nat
      BY <1>7, Shapes
    <3> QED
      BY <2>1, <2>4, <3>1, <3>2
  <2> QED
    BY <2>5, <2>6
<1>14. TypeOK'
  <2>1. cursor' \in 1 .. Len(dt.nodes) + 1 /\ slot' \in 1 .. Len(Drivers) + 1
    BY <1>1, Shapes DEF BusInv
  <2>2. \A d \in DOMAIN bus' : bus'[d] \in Devices
    BY <1>7, ElementFact
  <2> QED
    BY <1>1, <1>7, <1>13, <2>1, <2>2 DEF BusInv, TypeOK
<1>15. BusMirrorsTree'
  <2>1. BusMirrorsTree
    BY DEF BusInv
  <2>2. \A d, e \in DOMAIN bus' : d < e => bus'[d].node > bus'[e].node
    BY <1>7, <1>8, <2>1 DEF BusMirrorsTree
  <2>3. pc # "enum" /\ pc' # "enum"
    BY <1>1
  <2> QED
    BY <1>1, <1>9, <1>10, <2>1, <2>2, <2>3 DEF BusMirrorsTree
<1>16. DevicesNamed'
  <2>1. DevicesNamed
    BY DEF BusInv
  <2> SUFFICES ASSUME NEW d \in DOMAIN bus
               PROVE  bus'[d].node \in DOMAIN dt'.nodes /\ bus'[d].name = NodeOf(d)'.name31
    BY <1>7 DEF DevicesNamed
  <2>2. NodeOf(d)' = NodeOf(d) /\ bus'[d].node = bus[d].node /\ bus'[d].name = bus[d].name
    BY <1>8, <1>9
  <2> QED
    BY <1>1, <2>1, <2>2 DEF DevicesNamed
<1>17. ReadyDevices'
  <2> SUFFICES ASSUME NEW d \in DOMAIN bus
               PROVE  /\ bus'[d].private_data <=> bus'[d].state = "ready"
                      /\ bus'[d].state = "ready" => bus'[d].driver # NONE
    BY <1>7 DEF ReadyDevices
  <2>1. CASE d = cursor
    BY <1>4, <1>5, <1>6, <1>7, <2>1 DEF NONE
  <2>2. CASE d # cursor
    BY <1>7, <2>2 DEF BusInv, ReadyDevices
  <2> QED
    BY <2>1, <2>2
<1>18. Progress'
  <2>1. \A d \in DOMAIN bus : d < cursor + 1 => Settled(d)'
    <3> SUFFICES ASSUME NEW d \in DOMAIN bus, d < cursor + 1
                 PROVE  Settled(d)'
      OBVIOUS
    <3>1. CASE d = cursor
      <4>1. slot \in Matching(cursor)
        BY <1>1, Shapes DEF Matching
      <4>2. \A s \in Matching(cursor) : slot <= s
        <5>1. \A s \in Matching(cursor) : s \in Nat /\ s >= slot
          BY <1>1, <1>2, AtDevice, Shapes DEF Matching
        <5> QED
          BY <5>1, Shapes
      <4> QED
        BY <1>2, <1>5, <1>7, <1>11, <3>1, <4>1, <4>2 DEF Settled
    <3>2. CASE d # cursor
      <4>1. d < cursor
        BY <3>2, Shapes
      <4>2. Settled(d)
        BY <1>1, <4>1, AtDevice
      <4> QED
        BY <1>7, <1>11, <3>2, <4>2 DEF Settled
    <3> QED
      BY <3>1, <3>2
  <2>2. \A d \in DOMAIN bus : ~(d < cursor + 1) => Untouched(d)'
    <3>1. \A d \in DOMAIN bus : ~(d < cursor + 1) => d >= cursor /\ d # cursor
      BY Shapes
    <3> QED
      BY <1>1, <1>7, <3>1, AtDevice DEF Untouched
  <2>3. \A s \in Matching(cursor)' : s >= 1
    BY Shapes DEF Matching
  <2>4. cursor' <= Len(bus') + 1
    BY <1>1, <1>7, Shapes
  <2> QED
    BY <1>1, <1>7, <2>1, <2>2, <2>3, <2>4 DEF Progress
<1>19. Enumerating' /\ ConsoleDecided' /\ pc' # "run"
  BY <1>1 DEF Enumerating, ConsoleDecided
<1>20. Len(bus') <= Len(dt'.nodes)
  BY <1>1, <1>7 DEF BusInv
<1> QED
  BY <1>7, <1>13, <1>14, <1>15, <1>16, <1>17, <1>18, <1>19, <1>20 DEF BusInv

\* After the last device every device has been offered to every driver.
LEMMA MatchEndStep ==
  ASSUME BusInv, MatchEnd
  PROVE  BusInv'
<1>1. /\ pc = "match" /\ pc' = "console" /\ cursor > Len(bus)
      /\ cursor' = cursor /\ slot' = slot
      /\ dt' = dt /\ bus' = bus /\ held' = held /\ matched' = matched
      /\ oom' = oom /\ system_console' = system_console
  BY DEF MatchEnd
<1>2. TypeOK'
  BY <1>1 DEF BusInv, TypeOK
<1>3. Progress'
  <2>1. \A d \in DOMAIN bus : d < cursor
    BY <1>1, Shapes
  <2>2. \A d \in DOMAIN bus' : Settled(d)'
    BY <1>1, <2>1, AtDevice, SameBus
  <2> QED
    BY <1>1, <2>2 DEF Progress
<1>4. Enumerating' /\ ConsoleDecided'
  BY <1>1 DEF Enumerating, ConsoleDecided
<1> QED
  BY <1>1, <1>2, <1>3, <1>4, QuietStep DEF BusInv, BusMirrorsTree

-----------------------------------------------------------------------------
(* console_init *)

\* The lookup finds a device of that name when there is one.
LEMMA Found ==
  ASSUME BusInv, NEW text, Named(text) # {}
  PROVE  platform_bus_get_device(text) \in Named(text)
<1>1. \E d \in Named(text) : \A e \in Named(text) : d <= e
  <2> DEFINE T == Named(text)
  <2>1. T \in SUBSET Nat /\ T # {}
    BY Shapes DEF Named
  <2> HIDE DEF T
  <2>2. \E n \in T : \A m \in T : n <= m
    BY <2>1, LeastOfSet
  <2> QED
    BY <2>2 DEF T
<1> QED
  BY <1>1 DEF platform_bus_get_device

\* The lookup returns a position of the bus or NONE.
LEMMA GetDevice ==
  ASSUME BusInv, NEW name
  PROVE  /\ platform_bus_get_device(name) \in 0 .. Len(bus)
         /\ platform_bus_get_device(name) # NONE =>
              platform_bus_get_device(name) \in DOMAIN bus
<1>1. CASE Named(name) = {}
  BY <1>1, Shapes DEF platform_bus_get_device, NONE
<1>2. CASE Named(name) # {}
  BY <1>2, Found, Shapes DEF Named
<1> QED
  BY <1>1, <1>2

\* console_init looks at the bus and the tree only.
LEMMA SameLookup ==
  ASSUME bus' = bus, dt' = dt
  PROVE  /\ Buf(dt.stdout)' = Buf(dt.stdout)
         /\ NodeName(Buf(dt.stdout))' = NodeName(Buf(dt.stdout))
         /\ Lookup(Buf(dt.stdout))' = Lookup(Buf(dt.stdout))
         /\ Usable(Lookup(Buf(dt.stdout)))' <=> Usable(Lookup(Buf(dt.stdout)))
<1>1. \A name : platform_bus_get_device(name)' = platform_bus_get_device(name)
  BY DEF platform_bus_get_device, Named
<1>2. Buf(dt.stdout)' = Buf(dt.stdout)
  BY DEF Buf
<1>3. NodeName(Buf(dt.stdout))' = NodeName(Buf(dt.stdout))
  BY <1>2
<1>4. Lookup(Buf(dt.stdout))' = Lookup(Buf(dt.stdout))
  BY <1>1, <1>2, <1>3 DEF Lookup
<1> QED
  BY <1>2, <1>3, <1>4 DEF Usable

\* console_init takes the device the stdout-path names, or halts.
LEMMA ConsoleStep ==
  ASSUME BusInv, ConsoleInit
  PROVE  BusInv'
<1> DEFINE buf == Buf(dt.stdout)
           d == Lookup(buf)
           ok == dt.stdout.present /\ NodeName(buf) # NoText /\ Usable(d)
<1>1. /\ pc = "console" /\ pc' = (IF ok THEN "run" ELSE "panic")
      /\ system_console' = (IF ok THEN d ELSE NONE)
      /\ cursor' = cursor /\ slot' = slot /\ oom' = oom
      /\ dt' = dt /\ bus' = bus /\ held' = held /\ matched' = matched
  BY DEF ConsoleInit
<1>2. d \in 0 .. Len(bus)
  BY GetDevice DEF Lookup
<1>3. TypeOK'
  <2>1. system_console' \in 0 .. Len(bus')
    <3> HIDE DEF d, ok
    <3> QED
      BY <1>1, <1>2, Shapes DEF NONE
  <2> QED
    BY <1>1, <2>1 DEF BusInv, TypeOK
<1>4. pc' = "run" => system_console' # NONE
  BY <1>1 DEF Usable
<1>5. Progress' /\ Enumerating'
  <2>1. \A e \in DOMAIN bus : Settled(e)
    BY <1>1 DEF BusInv, Progress
  <2>2. \A e \in DOMAIN bus' : Settled(e)'
    BY <1>1, <2>1, SameBus
  <2> QED
    BY <1>1, <2>2 DEF Progress, Enumerating
<1>6. ConsoleDecided'
  BY <1>1, SameLookup DEF ConsoleDecided
<1> QED
  BY <1>1, <1>3, <1>4, <1>5, <1>6, QuietStep DEF BusInv, BusMirrorsTree

-----------------------------------------------------------------------------
(* The theorems *)

\* Each step of the boot keeps the invariant.
LEMMA NextBusInv ==
  ASSUME BusInv, [Next]_vars
  PROVE  BusInv'
<1>1. CASE ProbeOK
  <2>1. BaseAddr(Drivers[slot], NodeOf(cursor).reg) \in {"unset", "right", "wrong"}
    BY DEF BaseAddr
  <2> QED
    BY <1>1, <2>1, ProbeStep DEF ProbeOK
<1>2. CASE ProbeOutOfMemory \/ ProbeBadReg
  <2>1. /\ Probing /\ bus' = Probed("error", FALSE, "unset") /\ held' = held /\ matched' = matched
        /\ NextDevice /\ UNCHANGED <<dt, pc, oom, system_console>>
    BY <1>2 DEF ProbeOutOfMemory, ProbeBadReg
  <2>2. held' = held + 0 /\ matched' = matched + 0
    BY <2>1 DEF BusInv, TypeOK
  <2> QED
    BY <2>1, <2>2, ProbeStep
<1>3. CASE Rest \/ UNCHANGED vars
  <2>1. /\ dt' = dt /\ pc' = pc /\ cursor' = cursor /\ slot' = slot /\ bus' = bus
        /\ held' = held /\ matched' = matched /\ oom' = oom /\ system_console' = system_console
    BY <1>3 DEF Rest, vars
  <2>2. TypeOK'
    BY <2>1 DEF BusInv, TypeOK
  <2>3. Enumerating' /\ Progress'
    BY <2>1, SameBus DEF BusInv, Enumerating, Progress
  <2>4. ConsoleDecided'
    BY <2>1, SameLookup DEF BusInv, ConsoleDecided
  <2> QED
    BY <2>1, <2>2, <2>3, <2>4, QuietStep DEF BusInv, BusMirrorsTree
<1> QED
  BY <1>1, <1>2, <1>3, SkipStep, AddStep, EnumEndStep, NoneStep, MissStep, MatchEndStep, ConsoleStep
     DEF Next, BootStep

(***************************************************************************)
(* The inductive invariant holds on every board: for every set of device   *)
(* trees and every array of drivers.                                       *)
(***************************************************************************)
THEOREM BusInvariant == Spec => []BusInv
<1>1. Init => BusInv
  BY InitBusInv
<1>2. BusInv /\ [Next]_vars => BusInv'
  BY NextBusInv
<1> QED
  BY <1>1, <1>2, PTL DEF Spec

\* Every variable keeps its type: the cursor and the slot stay in range.
THEOREM BusTypeCorrect == Spec => []TypeOK
<1>1. BusInv => TypeOK
  BY DEF BusInv
<1> QED
  BY <1>1, BusInvariant, PTL

\* platform_bus_enumerate puts every wanted node on the bus once, last first,
\* or a prefix of them when memory runs out.
THEOREM BusAlwaysMirrorsTree == Spec => []BusMirrorsTree
<1>1. BusInv => BusMirrorsTree
  BY DEF BusInv
<1> QED
  BY <1>1, BusInvariant, PTL

\* No probe leaves an allocation behind: what is held is the devices and the
\* private data of those that are ready.
THEOREM ProbesNeverLeak == Spec => []NoProbeLeaks
<1>1. BusInv => NoProbeLeaks
  BY DEF BusInv, NoProbeLeaks, ReadyDevices, Ready
<1> QED
  BY <1>1, BusInvariant, PTL

\* Every device with a matching driver is probed by the first of the array,
\* and matched_count counts the devices that are ready.
THEOREM FirstDriverAlwaysWins == Spec => []FirstDriverWins
<1>1. ASSUME BusInv
      PROVE  FirstDriverWins
  <2> SUFFICES ASSUME pc \notin {"enum", "match"}
               PROVE  /\ matched = Cardinality(Ready)
                      /\ \A d \in DOMAIN bus : Settled(d)
    BY DEF FirstDriverWins, Settled, Matching
  <2>1. pc \in {"console", "run", "panic"}
    BY <1>1 DEF BusInv, TypeOK
  <2> QED
    BY <1>1, <2>1 DEF BusInv, Progress
<1> QED
  BY <1>1, BusInvariant, PTL

\* main goes on only with a console that has a driver and its private data.
THEOREM ConsoleAlwaysUsable == Spec => []ConsoleUsable
<1>1. ASSUME BusInv
      PROVE  ConsoleUsable
  <2> SUFFICES ASSUME pc = "run"
               PROVE  /\ system_console \in DOMAIN bus
                      /\ bus[system_console].driver # NONE
                      /\ bus[system_console].private_data
    BY DEF ConsoleUsable
  <2>1. system_console # NONE /\ system_console \in 0 .. Len(bus)
    BY <1>1 DEF BusInv, TypeOK
  <2>2. system_console \in DOMAIN bus
    BY <1>1, <2>1, Shapes DEF NONE
  <2>3. Usable(system_console)
    BY <1>1, <2>1 DEF BusInv, ConsoleDecided
  <2> QED
    BY <1>1, <2>2, <2>3 DEF Usable, BusInv, ReadyDevices
<1> QED
  BY <1>1, BusInvariant, PTL

\* A sequence of one element.
LEMMA OneElement ==
  ASSUME NEW C, NEW a \in C
  PROVE  <<a>> \in Seq(C) /\ Len(<<a>>) = 1 /\ <<a>>[1] = a
OBVIOUS

\* The empty string is the only text of one empty part.
LEMMA NoTextFacts ==
  ASSUME NEW S, NEW s \in Seq(S)
  PROVE  Len(s) = 1 /\ s[1] = "" => s = NoText
<1> DEFINE T == S \cup {""}
<1>1. s \in Seq(T)
  <2>1. S \subseteq T
    OBVIOUS
  <2> HIDE DEF T
  <2> QED
    BY <2>1
<1>2. NoText \in Seq(T) /\ Len(NoText) = 1 /\ NoText[1] = ""
  <2>1. "" \in T
    OBVIOUS
  <2> HIDE DEF T
  <2> QED
    BY <2>1, OneElement, Zenon DEF NoText
<1> HIDE DEF T
<1>3. ASSUME Len(s) = 1, s[1] = ""
      PROVE  \A i \in 1 .. Len(s) : s[i] = NoText[i]
  <2> SUFFICES ASSUME NEW i \in 1 .. Len(s) PROVE s[i] = NoText[i]
    OBVIOUS
  <2>1. Len(s) = 1
    BY <1>3
  <2>2. i \in 1 .. 1
    BY <2>1
  <2>3. i = 1
    BY <2>2
  <2> QED
    BY <1>2, <1>3, <2>3, Zenon
<1> QED
  BY <1>1, <1>2, <1>3, SeqEqual

\* A text that is one name once NodeName has cut it ends with that name.
LEMMA OnlyName ==
  ASSUME NEW S, NEW t \in Seq(S), NEW u \in Seq(S)
  PROVE  /\ NodeName(t) # NoText
         /\ Len(u) = 1
         /\ u = NodeName(t) \/ u = t
         => u[1] = LastPart(t) /\ LastPart(t) # ""
<1>1. Len(t) \in Nat
  OBVIOUS
<1>2. IsPath(t) => Len(t) # 1
  <2>1. IsPath(t) => Len(t) > 1
    BY Zenon DEF IsPath
  <2>2. \A n \in Nat : n > 1 => n # 1
    OBVIOUS
  <2> QED
    BY <1>1, <2>1, <2>2, Zenon
<1>3. CASE IsPath(t) /\ LastPart(t) # ""
  <2>1. u = t => Len(u) # 1
    BY <1>2, <1>3, Zenon
  <2>2. u = NodeName(t) => u[1] = LastPart(t)
    <3>1. NodeName(t) = <<LastPart(t)>>
      BY <1>3 DEF NodeName
    <3>2. <<LastPart(t)>>[1] = LastPart(t)
      OBVIOUS
    <3> QED
      BY <3>1, <3>2
  <2> QED
    BY <1>3, <2>1, <2>2
<1>4. CASE IsPath(t) /\ LastPart(t) = ""
  <2>1. u = t => Len(u) # 1
    BY <1>2, <1>4, Zenon
  <2>2. NodeName(t) = Tail(t) /\ Len(t) > 1
    BY <1>4 DEF NodeName, IsPath
  <2>3. ASSUME Len(u) = 1, u = NodeName(t)
        PROVE  NodeName(t) = NoText
    <3>1. Len(t) = 2
      BY <1>1, <2>2, <2>3
    <3>2. u[1] = t[2]
      BY <2>2, <2>3, <3>1
    <3>3. u[1] = ""
      BY <1>4, <3>1, <3>2 DEF LastPart
    <3> QED
      BY <2>3, <3>3, NoTextFacts
  <2> QED
    BY <2>1, <2>3
<1>5. CASE ~IsPath(t)
  <2>1. NodeName(t) = t
    BY <1>5 DEF NodeName
  <2>2. ASSUME u = t, Len(u) = 1
        PROVE  u[1] = LastPart(t) /\ (LastPart(t) = "" => t = NoText)
    <3>1. u[1] = LastPart(t)
      BY <2>2 DEF LastPart
    <3> QED
      BY <2>2, <3>1, NoTextFacts
  <2> QED
    BY <2>1, <2>2
<1> QED
  BY <1>3, <1>4, <1>5

\* What console_init finds bears the name the text ends with, and a text that
\* ends in a slash finds nothing.
LEMMA FoundByLastPart ==
  ASSUME BusInv, NEW t \in Texts, Usable(Lookup(t)), NodeName(t) # NoText
  PROVE  bus[Lookup(t)].name = LastPart(t) /\ LastPart(t) # ""
<1> DEFINE d == Lookup(t)
<1>1. \A u : platform_bus_get_device(u) # NONE => platform_bus_get_device(u) \in Named(u)
  <2> SUFFICES ASSUME NEW u, platform_bus_get_device(u) # NONE
               PROVE  platform_bus_get_device(u) \in Named(u)
    OBVIOUS
  <2>1. Named(u) # {}
    BY DEF platform_bus_get_device
  <2> QED
    BY <2>1, Found
<1>2. d # NONE
  BY DEF Usable
<1>3. d \in Named(NodeName(t)) \/ d \in Named(t)
  BY <1>1, <1>2 DEF Lookup
<1> DEFINE u == <<bus[d].name>>
<1>4. u = NodeName(t) \/ u = t
  BY <1>3 DEF Named
<1>5. Len(u) = 1 /\ u[1] = bus[d].name
  OBVIOUS
<1>6. u \in Seq(STRING)
  <2>1. d \in DOMAIN bus
    BY <1>3 DEF Named
  <2>2. bus[d] \in Devices
    BY <2>1 DEF BusInv, TypeOK
  <2>3. bus[d].name \in STRING
    BY <2>2 DEF Devices
  <2> HIDE DEF d
  <2> QED
    BY <2>3
<1>7. t \in Seq(STRING)
  BY DEF Texts
<1> HIDE DEF d, u
<1> QED
  BY <1>4, <1>5, <1>6, <1>7, OnlyName DEF d

(***************************************************************************)
(* When stdout-path is the path of a device that is ready, nothing of it   *)
(* was cut and no slash ends it, and the device's name fits and is its     *)
(* own, console_init finds it; and whatever stdout-path is, the kernel     *)
(* goes on only with a device that bears the name buf ends with.           *)
(***************************************************************************)
THEOREM ChosenConsoleIsFound == Spec => []ChosenConsole
<1>1. ASSUME BusInv
      PROVE  ChosenConsole
  <2> SUFFICES ASSUME pc \in {"run", "panic"}
               PROVE  /\ /\ dt.stdout.present
                         /\ Buf(dt.stdout) = dt.stdout.path
                         /\ LastPart(dt.stdout.path) # ""
                         => \A d \in Ready :
                              /\ bus[d].node = dt.stdout.node
                              /\ NodeOf(d).name31 = NodeOf(d).name
                              /\ \A e \in DOMAIN bus \ {d} : NodeOf(e).name31 # NodeOf(d).name
                              => system_console = d
                      /\ pc = "run" => bus[system_console].name = LastPart(Buf(dt.stdout))
                      /\ LastPart(Buf(dt.stdout)) = "" => pc = "panic"
    BY DEF ChosenConsole
  <2>1. dt \in Trees /\ dt.stdout \in Stdout_t /\ Buf(dt.stdout) \in Texts
    <3>1. dt \in Trees
      BY <1>1 DEF BusInv, TypeOK
    <3>2. dt.stdout \in Stdout_t
      BY <3>1, TreeAssumption
    <3> QED
      BY <3>1, <3>2 DEF Stdout_t, Buf
  <2>2. ASSUME dt.stdout.present, Buf(dt.stdout) = dt.stdout.path,
               LastPart(dt.stdout.path) # "", NEW d \in Ready,
               bus[d].node = dt.stdout.node, NodeOf(d).name31 = NodeOf(d).name,
               \A e \in DOMAIN bus \ {d} : NodeOf(e).name31 # NodeOf(d).name
        PROVE  system_console = d
    <3> DEFINE name == NodeOf(d).name
               text == <<name>>
    <3>1. d \in DOMAIN bus /\ bus[d].state = "ready" /\ d # NONE
      BY <1>1, Shapes DEF Ready, NONE
    <3>2. \A e \in DOMAIN bus : bus[e].name = NodeOf(e).name31 /\ bus[e].node \in DOMAIN dt.nodes
      BY <1>1 DEF BusInv, DevicesNamed
    <3>3. Named(text) = {d}
      <4>1. \A e \in DOMAIN bus : text = <<bus[e].name>> <=> bus[e].name = name
        OBVIOUS
      <4> HIDE DEF text
      <4> QED
        BY <2>2, <3>1, <3>2, <4>1 DEF Named
    <3>4. LeadsTo(dt.stdout.path, name)
      <4>1. dt.stdout.node # NONE
        <5>1. dt.stdout.node \in DOMAIN dt.nodes
          BY <2>2, <3>1, <3>2
        <5>2. dt.nodes \in Seq(Node_t)
          BY <2>1, TreeAssumption
        <5> QED
          BY <5>1, <5>2 DEF NONE
      <4>2. LeadsTo(dt.stdout.path, dt.nodes[dt.stdout.node].name)
        BY <2>1, <4>1, TreeAssumption
      <4> QED
        BY <2>2, <4>2 DEF NodeOf
    <3>5. NodeName(Buf(dt.stdout)) = text
      BY <2>2, <3>4 DEF NodeName, LeadsTo
    <3>6. text # NoText
      BY <2>2, <3>4 DEF LeadsTo, NoText
    <3>7. platform_bus_get_device(text) = d
      <4>1. d <= d
        BY <1>1, <3>1, Shapes
      <4> HIDE DEF text
      <4> QED
        BY <3>3, <4>1 DEF platform_bus_get_device
    <3>8. Lookup(Buf(dt.stdout)) = d
      BY <3>1, <3>5, <3>7 DEF Lookup
    <3>9. Usable(d)
      BY <3>1 DEF Usable
    <3> QED
      BY <1>1, <2>2, <3>5, <3>6, <3>8, <3>9 DEF BusInv, ConsoleDecided
  <2>3. pc = "run" => bus[system_console].name = LastPart(Buf(dt.stdout)) /\ LastPart(Buf(dt.stdout)) # ""
    <3> DEFINE buf == Buf(dt.stdout)
    <3> SUFFICES ASSUME pc = "run"
                 PROVE  bus[system_console].name = LastPart(buf) /\ LastPart(buf) # ""
      OBVIOUS
    <3>1. NodeName(buf) # NoText /\ Usable(Lookup(buf)) /\ system_console = Lookup(buf)
      BY <1>1 DEF BusInv, ConsoleDecided
    <3> QED
      BY <1>1, <2>1, <3>1, FoundByLastPart
  <2> QED
    BY <2>2, <2>3
<1> QED
  BY <1>1, BusInvariant, PTL
=============================================================================
