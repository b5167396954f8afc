------------------------------ MODULE RipProofs ------------------------------
(* What RIP's tables may be relied on for, whatever the topology, the size *)
(* of Infinity and the number of changes.                                  *)
EXTENDS Rip, WellFoundedInduction, TLAPS

(* A link has two routers for ends, and they exist.                        *)
LinksOK == \A l \in links : l \subseteq routers

(* Who a cycle is busy with.                                               *)
CyclesOK ==
    \A g \in Cyclers :
        /\ pc[g] \in {"ports", "process", "install", "answer"} => sender[g] \in Routers
        /\ pc[g] \in {"process", "install"} => update[g].from \in Routers
        /\ pc[g] \in {"process", "install", "answer"} => update[g].to \in Routers

(* What is advertised was once true, and a daemon's metric never grows.    *)
HonestFor(g) ==
    /\ sender[g] \in Routers => BuildRipAdvertisement(sender[g]) <= localRoutes[g]
    /\ pc[g] \in {"process", "install"} =>
           BuildRipAdvertisement(update[g].from) <= update[g].metric
    /\ pc[g] = "install" => NewRoute(update[g]).metric < Infinity
Honest == \A g \in Cyclers : HonestFor(g)

(* The route a goroutine is about to install is still the daemon's.        *)
Installing ==
    \A g \in Cyclers : pc[g] = "install" =>
        \/ update[g].to \in overtaken
        \/ Routes[update[g].to] = NewRoute(update[g])

(* An update of a removed device is known to be late.                      *)
LateKnown ==
    \A g \in Cyclers : pc[g] \in {"process", "install"} =>
        update[g].from \in routers \/ update[g].to \in late

IInv ==
    /\ TypeOK /\ LinksOK /\ CyclesOK /\ Honest /\ NextHopCloser
    /\ Installing /\ TableIsDaemons /\ LateKnown /\ RemovedStaysOut

(* The types, in parts.                                                    *)
TopologyTypes ==
    /\ routers \subseteq Routers /\ enabled \subseteq Routers
    /\ links \subseteq Cables /\ shut \subseteq Ports /\ unlisted \subseteq Cables
    /\ changes \in Nat
AddressTypes ==
    /\ Interfaces \in [Routers -> [Routers -> Addresses \cup {None}]]
    /\ Neighbors \in [Routers -> [Routers -> Addresses \cup {None}]]
TableTypes ==
    /\ Routes \in [Routers -> Route] /\ RoutingTable \in [Routers -> Route]
    /\ overtaken \subseteq Routers /\ late \subseteq Routers
CycleTypes ==
    /\ pc \in [Cyclers -> {"idle", "routers", "ports", "process", "install", "answer"}]
    /\ todo \in [Cyclers -> SUBSET Routers]
    /\ sender \in [Cyclers -> Routers \cup {None}]
    /\ localRoutes \in [Cyclers -> 1 .. Infinity]
    /\ ports \in [Cyclers -> SUBSET Routers]

LEMMA TypeParts ==
    /\ TypeOK <=> /\ TopologyTypes /\ AddressTypes /\ TableTypes /\ CycleTypes
                 /\ update \in [Cyclers -> Update]
    /\ TypeOK' <=> /\ TopologyTypes' /\ AddressTypes' /\ TableTypes' /\ CycleTypes'
                  /\ update' \in [Cyclers -> Update]
  BY DEF TypeOK, TopologyTypes, AddressTypes, TableTypes, CycleTypes

LEMMA CyclersTwo == Loop \in Cyclers /\ Conn \in Cyclers
  BY DEF Cyclers

(* The ends of a cable are routers.                                        *)
LEMMA CableEnds == \A l \in Cables : l \subseteq Routers
  BY RipAssumption

LEMMA NoRouteType == NoRoute \in Route
  BY RipAssumption DEF NoRoute, Route

LEMMA NoUpdateType == NoUpdate \in Update
  BY RipAssumption DEF NoUpdate, Update

(* What a router advertises is a metric.                                   *)
LEMMA AdvertisementType ==
    ASSUME TypeOK, NEW r \in Routers
    PROVE  BuildRipAdvertisement(r) \in 1 .. Infinity
  BY RipAssumption DEF TypeOK, Route, BuildRipAdvertisement

LEMMA InitOK == Init => IInv
<1> SUFFICES ASSUME Init PROVE IInv
  OBVIOUS
<1>1. TypeOK
  <2>1. Interfaces \in [Routers -> [Routers -> Addresses \cup {None}]]
    BY RipAssumption DEF Init
  <2>2. Neighbors \in [Routers -> [Routers -> Addresses \cup {None}]]
    BY <2>1 DEF Init, Refreshed
  <2>3. Routes \in [Routers -> Route] /\ RoutingTable \in [Routers -> Route]
    BY NoRouteType DEF Init
  <2>4. update \in [Cyclers -> Update]
    BY NoUpdateType DEF Init
  <2>5. CycleTypes
    BY RipAssumption DEF Init, CycleTypes
  <2>6. TopologyTypes
    BY RipAssumption DEF Init, TopologyTypes
  <2> QED
    BY <2>1, <2>2, <2>3, <2>4, <2>5, <2>6, TypeParts DEF Init, AddressTypes, TableTypes
<1>2. LinksOK
  BY RipAssumption, CableEnds DEF Init, LinksOK
<1>3. CyclesOK
  BY DEF Init, CyclesOK
<1>4. Honest
  BY RipAssumption DEF Init, Honest, HonestFor
<1>5. NextHopCloser
  BY DEF Init, NextHopCloser
<1>6. Installing /\ LateKnown
  BY DEF Init, Installing, LateKnown
<1>7. TableIsDaemons
  BY DEF Init, TableIsDaemons
<1>8. RemovedStaysOut
  BY DEF Init, RemovedStaysOut, NoRoute
<1> QED BY <1>1, <1>2, <1>3, <1>4, <1>5, <1>6, <1>7, <1>8 DEF IInv

-----------------------------------------------------------------------------
(* Types are kept by every step of a cycle.                                *)
LEMMA TypesKeptByCycle ==
    ASSUME TypeOK, CyclesOK, Honest, NEW g \in Cyclers, RunRipUpdateCycle(g)
    PROVE  TypeOK'
<1>1. ASSUME NEW r \in Routers, TakeRouter(g, r) PROVE TypeOK'
  <2>1. BuildRipAdvertisement(r) \in 1 .. Infinity
    BY AdvertisementType
  <2>2. CASE r \in enabled
    <3>1. CycleTypes'
      BY <1>1, <2>1, <2>2, TypeParts DEF TakeRouter, CycleTypes
    <3> QED BY <1>1, <3>1, TypeParts
            DEF TakeRouter, topology, tables, TopologyTypes, AddressTypes, TableTypes
  <2>3. CASE r \notin enabled
    BY <1>1, <2>3 DEF TakeRouter, TypeOK, topology, tables
  <2> QED BY <2>2, <2>3
<1>2. ASSUME NEW q \in Routers, SendUpdate(g, q) PROVE TypeOK'
  <2>1. CASE Peer(sender[g], q)
    <3> DEFINE u == [from |-> sender[g], to |-> q, source |-> Interfaces[sender[g]][q],
                     metric |-> localRoutes[g], answer |-> FALSE]
    <3>1. u \in Update
      BY <1>2 DEF SendUpdate, CyclesOK, TypeOK, Update
    <3>2. update' = [update EXCEPT ![g] = u]
      BY <1>2, <2>1 DEF SendUpdate
    <3> HIDE DEF u
    <3>3. update' \in [Cyclers -> Update]
      BY <3>1, <3>2 DEF TypeOK
    <3> QED BY <1>2, <2>1, <3>3 DEF SendUpdate, TypeOK, topology, tables
  <2>2. CASE ~Peer(sender[g], q)
    BY <1>2, <2>2 DEF SendUpdate, TypeOK, topology, tables
  <2> QED BY <2>1, <2>2
<1>3. CASE ProcessUpdate(g)
  <2>1. CASE Better(update[g])
    <3>1. update[g].to \in Routers /\ update[g].from \in Routers
      BY <1>3 DEF ProcessUpdate, CyclesOK
    <3>2. NewRoute(update[g]) \in Route
      <4>1. update[g].metric \in 1 .. Infinity /\ update[g].source \in Addresses \cup {None}
        BY DEF TypeOK, Update
      <4>2. update[g].metric + 1 \in 2 .. Infinity
        BY <2>1, <4>1, RipAssumption DEF Better, NewRoute
      <4> QED BY <3>1, <4>1, <4>2 DEF NewRoute, Route
    <3>3. Overtaken(g) \subseteq Routers
      BY DEF Overtaken
    <3>4. TableTypes'
      BY <1>3, <2>1, <3>1, <3>2, <3>3, TypeParts DEF ProcessUpdate, TableTypes
    <3>5. CycleTypes' /\ update' = update
      BY <1>3, <2>1, TypeParts DEF ProcessUpdate, CycleTypes, cycle
    <3> QED BY <1>3, <3>4, <3>5, TypeParts
            DEF ProcessUpdate, topology, TopologyTypes, AddressTypes
  <2>2. CASE ~Better(update[g])
    <3>1. pc' \in [Cyclers -> {"idle", "routers", "ports", "process", "install", "answer"}]
      BY <1>3, <2>2 DEF ProcessUpdate, Handled, TypeOK
    <3>2. update' \in [Cyclers -> Update]
      BY <1>3, <2>2, NoUpdateType DEF ProcessUpdate, Handled, TypeOK
    <3> QED BY <1>3, <2>2, <3>1, <3>2 DEF ProcessUpdate, TypeOK, topology, cycle
  <2> QED BY <2>1, <2>2
<1>4. CASE AddRoute(g)
  <2>1. update[g].to \in Routers /\ update[g].from \in Routers
    BY <1>4 DEF AddRoute, CyclesOK
  <2>2. NewRoute(update[g]) \in Route
    BY <1>4, <2>1, RipAssumption DEF AddRoute, Honest, HonestFor, NewRoute, Route, Update, TypeOK
  <2>3. pc' \in [Cyclers -> {"idle", "routers", "ports", "process", "install", "answer"}]
    BY <1>4 DEF AddRoute, Handled, TypeOK
  <2>4. update' \in [Cyclers -> Update]
    BY <1>4, NoUpdateType DEF AddRoute, Handled, TypeOK
  <2> QED BY <1>4, <2>1, <2>2, <2>3, <2>4 DEF AddRoute, TypeOK, topology, cycle
<1>5. CASE SendAnswer(g)
  <2>1. update[g].to \in Routers /\ sender[g] \in Routers
    BY <1>5 DEF SendAnswer, CyclesOK
  <2>2. BuildRipAdvertisement(update[g].to) \in 1 .. Infinity
    BY <2>1, AdvertisementType
  <2>3. CASE Peer(update[g].to, sender[g]) /\ IsInterfaceUp(sender[g], update[g].to)
    <3> DEFINE u == [from |-> update[g].to, to |-> sender[g],
                     source |-> Interfaces[update[g].to][sender[g]],
                     metric |-> BuildRipAdvertisement(update[g].to), answer |-> TRUE]
    <3>1. u \in Update
      BY <2>1, <2>2 DEF TypeOK, Update
    <3>2. update' = [update EXCEPT ![g] = u]
      BY <1>5, <2>3 DEF SendAnswer
    <3> HIDE DEF u
    <3>3. update' \in [Cyclers -> Update]
      BY <3>1, <3>2 DEF TypeOK
    <3> QED BY <1>5, <2>3, <3>3 DEF SendAnswer, TypeOK, topology, tables, cycle
  <2>4. CASE ~(Peer(update[g].to, sender[g]) /\ IsInterfaceUp(sender[g], update[g].to))
    BY <1>5, <2>4, NoUpdateType DEF SendAnswer, TypeOK, topology, tables, cycle
  <2> QED BY <2>3, <2>4
<1>6. CASE EndRouter(g)
  BY <1>6, RipAssumption DEF EndRouter, TypeOK, topology, tables
<1>7. CASE EndCycle(g)
  BY <1>7 DEF EndCycle, TypeOK, topology, tables, cycle
<1> QED BY <1>1, <1>2, <1>3, <1>4, <1>5, <1>6, <1>7 DEF RunRipUpdateCycle

(* What the removal of a device's addresses does to the others.            *)
LEMMA RemovalSteps ==
    ASSUME TypeOK, NEW S, RemoveAddresses(S), links' \subseteq Cables
    PROVE  /\ Neighbors' \in [Routers -> [Routers -> Addresses \cup {None}]]
           /\ RoutingTable' \in [Routers -> Route]
           /\ \A q \in Routers : RoutingTable'[q] \in {RoutingTable[q], NoRoute}
           /\ \A q \in routers' \cap Routers : RoutingTable[q].address \in S => RoutingTable'[q] = NoRoute
           /\ overtaken' \subseteq Routers /\ overtaken \subseteq overtaken'
           /\ \A q \in Routers \ overtaken' : RoutingTable'[q] = RoutingTable[q]
           /\ unlisted' \subseteq Cables
<1>1. Neighbors' \in [Routers -> [Routers -> Addresses \cup {None}]]
  BY DEF RemoveAddresses, TypeOK
<1>2. RoutingTable' \in [Routers -> Route]
  BY NoRouteType DEF RemoveAddresses, Purged, TypeOK
<1>3. \A q \in Routers : RoutingTable'[q] \in {RoutingTable[q], NoRoute}
  BY DEF RemoveAddresses, Purged
<1>4. \A q \in routers' \cap Routers : RoutingTable[q].address \in S => RoutingTable'[q] = NoRoute
  BY DEF RemoveAddresses, Purged
<1>5. /\ overtaken' \subseteq Routers /\ overtaken \subseteq overtaken'
      /\ \A q \in Routers \ overtaken' : RoutingTable'[q] = RoutingTable[q]
      /\ unlisted' \subseteq Cables
  BY DEF RemoveAddresses, TypeOK
<1> QED BY <1>1, <1>2, <1>3, <1>4, <1>5

LEMMA TypesKept ==
    ASSUME TypeOK, CyclesOK, Honest, [Next]_vars
    PROVE  TypeOK'
<1>1. CASE RipTimer
  BY <1>1, CyclersTwo DEF RipTimer, StartCycle, TypeOK, topology, tables
<1>2. ASSUME NEW r \in Routers, ConfigRip(r) PROVE TypeOK'
  <2>1. Neighbors' \in [Routers -> [Routers -> Addresses \cup {None}]]
    BY <1>2 DEF ConfigRip, Refreshed, TypeOK
  <2>2. CycleTypes' /\ TopologyTypes'
    BY <1>2, CyclersTwo, TypeParts
       DEF ConfigRip, StartCycle, Change, CycleTypes, TopologyTypes
  <2> QED BY <1>2, <2>1, <2>2, TypeParts DEF ConfigRip, tables, AddressTypes, TableTypes
<1>3. ASSUME NEW r \in Routers, RemoveDevice(r) PROVE TypeOK'
  <2> DEFINE S == {Interfaces[r][q] : q \in Routers} \ {None}
  <2>1. RemoveAddresses(S) /\ links' \subseteq Cables
    BY <1>3 DEF RemoveDevice, TypeOK
  <2> HIDE DEF S
  <2>2. late' \subseteq Routers
    BY <1>3 DEF RemoveDevice, TypeOK
  <2> QED BY <1>3, <2>1, <2>2, RemovalSteps DEF RemoveDevice, Change, TypeOK, cycle
<1>4. ASSUME NEW r \in Routers, NEW q \in Routers, AddLink(r, q) PROVE TypeOK'
  <2>1. PICK i \in Subnets : Interfaces' = Addressed(r, q, i)
    BY <1>4 DEF AddLink
  <2>2. Interfaces' \in [Routers -> [Routers -> Addresses \cup {None}]]
    <3> DEFINE A == Addresses \cup {None}
    <3>1. AssignLinkAddress(r, q, <<i, 1>>) \in A /\ AssignLinkAddress(q, r, <<i, 2>>) \in A
      BY TypeParts DEF AssignLinkAddress, Addresses, AddressTypes
    <3> HIDE DEF A
    <3>2. Interfaces \in [Routers -> [Routers -> A]]
      BY TypeParts DEF AddressTypes, A
    <3>3. Interfaces' \in [Routers -> [Routers -> A]]
      BY <2>1, <3>1, <3>2 DEF Addressed
    <3> QED BY <3>3 DEF A
  <2>3. Neighbors' \in [Routers -> [Routers -> Addresses \cup {None}]]
    <3>1. Neighbors' = Refreshed(Neighbors, {{r, q}}, enabled, Interfaces')
      BY <1>4 DEF AddLink
    <3>2. \A x, y \in Routers : Interfaces'[y][x] \in Addresses \cup {None}
      BY <2>2
    <3>3. \A x, y \in Routers : Neighbors[x][y] \in Addresses \cup {None}
      BY TypeParts DEF AddressTypes
    <3> DEFINE A == Addresses \cup {None}
    <3> HIDE DEF A
    <3>4. Refreshed(Neighbors, {{r, q}}, enabled, Interfaces') \in [Routers -> [Routers -> A]]
      BY <3>2, <3>3 DEF Refreshed, A
    <3> QED BY <3>1, <3>4 DEF A
  <2>4. TopologyTypes'
    <3>1. {r, q} \in Cables /\ links' = links \cup {{r, q}}
      BY <1>4 DEF AddLink
    <3>2. links \subseteq Cables
      BY TypeParts DEF TopologyTypes
    <3>3. links' \subseteq Cables
      BY <3>1, <3>2, Zenon
    <3>4. changes \in Nat /\ changes' \in Nat
      BY <1>4, TypeParts DEF AddLink, Change, TopologyTypes
    <3>5. UNCHANGED <<routers, enabled, shut, unlisted>>
      BY <1>4 DEF AddLink
    <3> QED BY <3>3, <3>4, <3>5, TypeParts DEF TopologyTypes
  <2>5. TableTypes'
    BY <1>4, TypeParts DEF AddLink, idle, tables, TableTypes
  <2>6. CycleTypes'
    BY <1>4, TypeParts DEF AddLink, idle, cycle, CycleTypes
  <2> QED BY <1>4, <2>2, <2>3, <2>4, <2>5, <2>6, TypeParts DEF AddLink, idle, AddressTypes
<1>5. ASSUME NEW l \in Cables, RemoveLink(l) PROVE TypeOK'
  BY <1>5 DEF RemoveLink, Change, TypeOK, idle, tables, cycle
<1>6. CASE UNCHANGED vars
  BY <1>6 DEF vars, TypeOK
<1>7. ASSUME NEW p \in ShutPorts, SetInterfaceShutdown(p) PROVE TypeOK'
  BY <1>7, RipAssumption DEF SetInterfaceShutdown, Change, TypeOK, idle, tables, cycle
<1>8. ASSUME NEW a \in Readdressed, AddInterface(a[1], a[2]) PROVE TypeOK'
  <2>1. a[1][1] \in Routers /\ a[1][2] \in Routers /\ a[2] \in Addresses
    BY RipAssumption DEF Ports
  <2>2. Interfaces' \in [Routers -> [Routers -> Addresses \cup {None}]]
    BY <1>8, <2>1 DEF AddInterface, TypeOK
  <2> QED BY <1>8, <2>2 DEF AddInterface, Change, TypeOK, idle, tables, cycle
<1>9. ASSUME NEW ip \in Duplicates, RemoveHost(ip) PROVE TypeOK'
  <2>1. RemoveAddresses({ip}) /\ links' \subseteq Cables
    BY <1>9 DEF RemoveHost, TypeOK
  <2> QED BY <1>9, <2>1, RemovalSteps DEF RemoveHost, Change, TypeOK, cycle
<1> QED
  BY <1>1, <1>2, <1>3, <1>4, <1>5, <1>6, <1>7, <1>8, <1>9, TypesKeptByCycle DEF Next, Ports

-----------------------------------------------------------------------------
(* Only ProcessUpdate changes a daemon's route, and for a better one: what *)
(* a router advertises never grows.                                        *)
LEMMA AdvertisementsShrink ==
    ASSUME TypeOK, CyclesOK, [Next]_vars, NEW r \in Routers
    PROVE  BuildRipAdvertisement(r)' <= BuildRipAdvertisement(r)
<1>1. BuildRipAdvertisement(r) \in Int
  BY AdvertisementType, RipAssumption
<1>2. ASSUME NEW g \in Cyclers, ProcessUpdate(g)
      PROVE  BuildRipAdvertisement(r)' <= BuildRipAdvertisement(r)
  <2>1. CASE Better(update[g])
    <3>1. Routes' = [Routes EXCEPT ![update[g].to] = NewRoute(update[g])]
      BY <1>2, <2>1 DEF ProcessUpdate
    <3>2. CASE r = update[g].to
      <4>1. Routes'[r] = NewRoute(update[g])
        BY <3>1, <3>2 DEF TypeOK
      <4>2. Routes'[r].metric < Routes[r].metric
        BY <2>1, <3>2, <4>1 DEF Better
      <4>3. Routes'[r].metric \in Int /\ Routes[r].metric \in Int
        BY <4>1, RipAssumption DEF NewRoute, TypeOK, Update, Route
      <4> QED BY <1>1, <4>2, <4>3 DEF BuildRipAdvertisement
    <3>3. CASE r # update[g].to
      BY <1>1, <3>1, <3>3 DEF BuildRipAdvertisement, TypeOK
    <3> QED BY <3>2, <3>3
  <2>2. CASE ~Better(update[g])
    BY <1>1, <1>2, <2>2 DEF ProcessUpdate, BuildRipAdvertisement
  <2> QED BY <2>1, <2>2
<1>3. (\A g \in Cyclers : ~ProcessUpdate(g)) => Routes' = Routes
  BY DEF Next, vars, RunRipUpdateCycle, RipTimer, TakeRouter, SendUpdate, AddRoute,
         SendAnswer, EndRouter, EndCycle, ConfigRip, AddLink, RemoveLink,
         SetInterfaceShutdown, AddInterface, RemoveDevice, RemoveHost, idle, tables
<1> QED BY <1>1, <1>2, <1>3 DEF BuildRipAdvertisement

(* A link never has an end that does not exist.                            *)
LEMMA LinksKept ==
    ASSUME TypeOK, LinksOK, [Next]_vars
    PROVE  LinksOK'
<1>1. ASSUME NEW r \in Routers, RemoveDevice(r) PROVE LinksOK'
  BY <1>1 DEF RemoveDevice, LinksOK
<1>2. ASSUME NEW p \in Ports, AddLink(p[1], p[2]) PROVE LinksOK'
  BY <1>2 DEF AddLink, LinksOK, idle
<1>7. ASSUME NEW l \in Cables, RemoveLink(l) PROVE LinksOK'
  BY <1>7 DEF RemoveLink, LinksOK
<1>8. ASSUME NEW p, NEW ip, SetInterfaceShutdown(p) \/ AddInterface(p, ip) \/ RemoveHost(ip)
      PROVE  UNCHANGED <<routers, links>>
  BY <1>8 DEF SetInterfaceShutdown, AddInterface, RemoveHost
<1>3. ASSUME UNCHANGED <<routers, links>> PROVE LinksOK'
  BY <1>3 DEF LinksOK
<1>4. ASSUME NEW r \in Routers, ConfigRip(r) PROVE UNCHANGED <<routers, links>>
  BY <1>4 DEF ConfigRip
<1>5. ASSUME NEW g \in Cyclers, RunRipUpdateCycle(g) PROVE UNCHANGED <<routers, links>>
  BY <1>5 DEF RunRipUpdateCycle, TakeRouter, SendUpdate, ProcessUpdate, AddRoute,
              SendAnswer, EndRouter, EndCycle, topology
<1>6. RipTimer \/ UNCHANGED vars => UNCHANGED <<routers, links>>
  BY DEF RipTimer, vars, topology
<1> QED BY <1>1, <1>2, <1>3, <1>4, <1>5, <1>6, <1>7, <1>8 DEF Next

(* A step of one cycle leaves the other cycle alone.                       *)
LEMMA OthersIdle ==
    ASSUME TypeOK, NEW g \in Cyclers, RunRipUpdateCycle(g), NEW h \in Cyclers, h # g
    PROVE  /\ pc'[h] = pc[h] /\ sender'[h] = sender[h]
           /\ localRoutes'[h] = localRoutes[h] /\ update'[h] = update[h]
  BY DEF TypeOK, RunRipUpdateCycle, TakeRouter, SendUpdate, ProcessUpdate, Handled,
         AddRoute, SendAnswer, EndRouter, EndCycle, cycle

(* The steps outside the cycles change no route on its way.                *)
LEMMA OutsideCycles ==
    ASSUME TypeOK, [Next]_vars, \A g \in Cyclers : ~RunRipUpdateCycle(g)
    PROVE  /\ UNCHANGED <<Routes, sender, localRoutes, update>>
           /\ \A g \in Cyclers : pc'[g] = pc[g] \/ pc'[g] = "routers"
  BY CyclersTwo DEF TypeOK, Next, vars, RipTimer, StartCycle, ConfigRip, AddLink,
         RemoveLink, SetInterfaceShutdown, AddInterface, RemoveDevice, RemoveHost,
         idle, tables, cycle

LEMMA CyclesKept ==
    ASSUME TypeOK, CyclesOK, [Next]_vars
    PROVE  CyclesOK'
<1>1. ASSUME NEW g \in Cyclers, RunRipUpdateCycle(g) PROVE CyclesOK'
  <2> SUFFICES ASSUME NEW h \in Cyclers
               PROVE  /\ pc'[h] \in {"ports", "process", "install", "answer"} =>
                             sender'[h] \in Routers
                      /\ pc'[h] \in {"process", "install"} => update'[h].from \in Routers
                      /\ pc'[h] \in {"process", "install", "answer"} =>
                             update'[h].to \in Routers
    BY DEF CyclesOK
  <2>1. CASE h # g
    BY <1>1, <2>1, OthersIdle DEF CyclesOK
  <2>2. CASE h = g
    <3>1. ASSUME NEW r \in Routers, TakeRouter(g, r) \/ SendUpdate(g, r)
          PROVE  /\ pc'[g] \in {"routers", "ports", "process", "answer"}
                 /\ pc'[g] # "routers" => sender'[g] \in Routers
                 /\ pc'[g] \in {"process", "answer"} => /\ update'[g].from \in Routers
                                                     /\ update'[g].to \in Routers
      BY <3>1 DEF TakeRouter, SendUpdate, CyclesOK, TypeOK
    <3>2. CASE ProcessUpdate(g)
      BY <2>2, <3>2 DEF ProcessUpdate, Handled, CyclesOK, TypeOK, cycle
    <3>3. CASE AddRoute(g)
      BY <2>2, <3>3 DEF AddRoute, Handled, CyclesOK, TypeOK, cycle
    <3>4. CASE SendAnswer(g)
      BY <2>2, <3>4 DEF SendAnswer, CyclesOK, TypeOK, cycle
    <3>5. CASE EndRouter(g) \/ EndCycle(g)
      BY <2>2, <3>5 DEF EndRouter, EndCycle, TypeOK
    <3> QED BY <1>1, <2>2, <3>1, <3>2, <3>3, <3>4, <3>5 DEF RunRipUpdateCycle
  <2> QED BY <2>1, <2>2
<1>2. CASE \A g \in Cyclers : ~RunRipUpdateCycle(g)
  BY <1>2, OutsideCycles DEF CyclesOK
<1> QED BY <1>1, <1>2

-----------------------------------------------------------------------------
(* An advertisement that was true when it was read is still an upper bound.*)
LEMMA HonestKept ==
    ASSUME TypeOK, CyclesOK, Honest, [Next]_vars
    PROVE  Honest'
<1>1. TypeOK' /\ CyclesOK'
  BY TypesKept, CyclesKept
<1>2. ASSUME NEW r \in Routers
      PROVE  /\ BuildRipAdvertisement(r)' <= BuildRipAdvertisement(r)
             /\ BuildRipAdvertisement(r)' \in Int /\ BuildRipAdvertisement(r) \in Int
  <2>1. BuildRipAdvertisement(r)' \in 1 .. Infinity
    BY <1>1, RipAssumption DEF TypeOK, Route, BuildRipAdvertisement
  <2> QED BY <2>1, AdvertisementsShrink, AdvertisementType, RipAssumption
<1>3. \A h \in Cyclers : localRoutes[h] \in Int /\ update[h].metric \in Int
  BY RipAssumption DEF TypeOK, Update
<1>4. ASSUME NEW h \in Cyclers, pc'[h] \notin {"process", "install"} \/ pc'[h] = pc[h],
             sender'[h] = sender[h], localRoutes'[h] = localRoutes[h],
             pc'[h] \in {"process", "install"} => update'[h] = update[h]
      PROVE  HonestFor(h)'
  BY <1>2, <1>3, <1>4 DEF Honest, HonestFor, CyclesOK
<1>5. ASSUME NEW g \in Cyclers, RunRipUpdateCycle(g) PROVE HonestFor(g)'
  <2>1. ASSUME NEW r \in Routers, TakeRouter(g, r) PROVE HonestFor(g)'
    <3>1. CASE r \in enabled
      <4>1. /\ pc'[g] = "ports" /\ sender'[g] = r
            /\ localRoutes'[g] = BuildRipAdvertisement(r)
        BY <2>1, <3>1 DEF TakeRouter, TypeOK
      <4> QED BY <1>2, <4>1 DEF HonestFor, BuildRipAdvertisement
    <3>2. CASE r \notin enabled
      BY <1>4, <2>1, <3>2 DEF TakeRouter
    <3> QED BY <3>1, <3>2
  <2>2. ASSUME NEW q \in Routers, SendUpdate(g, q) PROVE HonestFor(g)'
    <3>1. CASE Peer(sender[g], q)
      <4>1. /\ pc'[g] \in {"process", "answer"} /\ sender'[g] = sender[g] /\ sender[g] \in Routers
            /\ localRoutes'[g] = localRoutes[g]
            /\ update'[g].from = sender[g] /\ update'[g].metric = localRoutes[g]
        BY <2>2, <3>1 DEF SendUpdate, TypeOK, CyclesOK
      <4>2. BuildRipAdvertisement(sender[g])' <= localRoutes[g]
        BY <1>2, <1>3, <4>1 DEF Honest, HonestFor, BuildRipAdvertisement
      <4> QED BY <4>1, <4>2 DEF HonestFor, BuildRipAdvertisement
    <3>2. CASE ~Peer(sender[g], q)
      BY <1>4, <2>2, <3>2 DEF SendUpdate
    <3> QED BY <3>1, <3>2
  <2>3. CASE ProcessUpdate(g)
    <3>1. CASE Better(update[g])
      <4>1. /\ pc[g] = "process" /\ pc'[g] = "install" /\ update' = update
            /\ sender' = sender /\ localRoutes' = localRoutes
        BY <2>3, <3>1 DEF ProcessUpdate, TypeOK, cycle
      <4>2. update[g].from \in Routers
        BY <4>1 DEF CyclesOK
      <4>3. BuildRipAdvertisement(update[g].from)' <= update[g].metric
        BY <1>2, <1>3, <4>1, <4>2 DEF Honest, HonestFor, BuildRipAdvertisement
      <4>4. sender[g] \in Routers => BuildRipAdvertisement(sender[g])' <= localRoutes[g]
        BY <1>2, <1>3, <4>1 DEF Honest, HonestFor, BuildRipAdvertisement
      <4> QED BY <3>1, <4>1, <4>3, <4>4 DEF HonestFor, BuildRipAdvertisement, Better
    <3>2. CASE ~Better(update[g])
      BY <1>4, <2>3, <3>2 DEF ProcessUpdate, Handled, TypeOK, cycle
    <3> QED BY <3>1, <3>2
  <2>4. CASE AddRoute(g)
    BY <1>4, <2>4 DEF AddRoute, Handled, TypeOK, cycle
  <2>5. CASE SendAnswer(g)
    <3>1. CASE Peer(update[g].to, sender[g]) /\ IsInterfaceUp(sender[g], update[g].to)
      <4>1. /\ pc'[g] = "process" /\ sender'[g] = sender[g]
            /\ localRoutes'[g] = localRoutes[g]
            /\ update'[g].from = update[g].to /\ update[g].to \in Routers
            /\ update'[g].metric = BuildRipAdvertisement(update[g].to)
        BY <2>5, <3>1 DEF SendAnswer, TypeOK, CyclesOK, cycle
      <4>2. sender[g] \in Routers => BuildRipAdvertisement(sender[g])' <= localRoutes[g]
        BY <1>2, <1>3, <4>1 DEF Honest, HonestFor, BuildRipAdvertisement
      <4>3. ASSUME NEW r \in Routers, r = update'[g].from
            PROVE  BuildRipAdvertisement(update[g].from)' <= update'[g].metric
        BY <1>2, <4>1, <4>3 DEF BuildRipAdvertisement
      <4> QED BY <4>1, <4>2, <4>3 DEF HonestFor, BuildRipAdvertisement
    <3>2. CASE ~(Peer(update[g].to, sender[g]) /\ IsInterfaceUp(sender[g], update[g].to))
      BY <1>4, <2>5, <3>2 DEF SendAnswer, TypeOK, cycle
    <3> QED BY <3>1, <3>2
  <2>6. CASE EndRouter(g)
    BY <2>6, RipAssumption DEF EndRouter, TypeOK, HonestFor
  <2>7. CASE EndCycle(g)
    BY <1>4, <2>7 DEF EndCycle, TypeOK, cycle
  <2> QED BY <1>5, <2>1, <2>2, <2>3, <2>4, <2>5, <2>6, <2>7 DEF RunRipUpdateCycle
<1>6. ASSUME NEW g \in Cyclers, RunRipUpdateCycle(g), NEW h \in Cyclers, h # g
      PROVE  HonestFor(h)'
  BY <1>4, <1>6, OthersIdle
<1>7. CASE \A g \in Cyclers : ~RunRipUpdateCycle(g)
  BY <1>4, <1>7, OutsideCycles DEF Honest
<1> QED BY <1>5, <1>6, <1>7 DEF Honest

-----------------------------------------------------------------------------
(* What a step may do to a router's two routes.                            *)
LEMMA RouteSteps ==
    ASSUME TypeOK, CyclesOK, [Next]_vars, NEW r \in Routers
    PROVE  /\ \/ Routes'[r] = Routes[r]
              \/ \E g \in Cyclers : /\ pc[g] = "process" /\ update[g].to = r
                                    /\ Routes'[r] = NewRoute(update[g])
           /\ \/ RoutingTable'[r] \in {RoutingTable[r], NoRoute}
              \/ \E g \in Cyclers : /\ pc[g] = "install" /\ update[g].to = r
                                    /\ RoutingTable'[r] = NewRoute(update[g])
<1>1. ASSUME NEW g \in Cyclers, ProcessUpdate(g)
      PROVE  /\ RoutingTable' = RoutingTable
             /\ \/ Routes'[r] = Routes[r]
                \/ /\ pc[g] = "process" /\ update[g].to = r
                   /\ Routes'[r] = NewRoute(update[g])
  BY <1>1 DEF ProcessUpdate, TypeOK
<1>2. ASSUME NEW g \in Cyclers, AddRoute(g)
      PROVE  /\ Routes' = Routes
             /\ \/ RoutingTable'[r] = RoutingTable[r]
                \/ /\ pc[g] = "install" /\ update[g].to = r
                   /\ RoutingTable'[r] = NewRoute(update[g])
  BY <1>2 DEF AddRoute, TypeOK
<1>3. ASSUME NEW d, RemoveDevice(d) \/ RemoveHost(d)
      PROVE  Routes' = Routes /\ RoutingTable'[r] \in {RoutingTable[r], NoRoute}
  BY <1>3 DEF RemoveDevice, RemoveHost, RemoveAddresses, Purged
<1>4. CASE /\ \A g \in Cyclers : ~ProcessUpdate(g) /\ ~AddRoute(g)
           /\ \A d \in Routers : ~RemoveDevice(d)
           /\ \A ip \in Duplicates : ~RemoveHost(ip)
  <2>1. UNCHANGED tables
    BY <1>4 DEF Next, vars, RunRipUpdateCycle, RipTimer, TakeRouter, SendUpdate,
                SendAnswer, EndRouter, EndCycle, ConfigRip, AddLink, RemoveLink,
                SetInterfaceShutdown, AddInterface, idle, tables
  <2> QED BY <2>1 DEF tables
<1> QED BY <1>1, <1>2, <1>3, <1>4

(* A new route points to a router that is closer still, and a router that  *)
(* is pointed to never gets further away.                                  *)
LEMMA CloserKept ==
    ASSUME TypeOK, CyclesOK, Honest, NextHopCloser, [Next]_vars
    PROVE  NextHopCloser'
<1>1. TypeOK'
  BY TypesKept
<1>2. ASSUME NEW r \in Routers
      PROVE  /\ BuildRipAdvertisement(r)' <= BuildRipAdvertisement(r)
             /\ BuildRipAdvertisement(r)' \in Int /\ BuildRipAdvertisement(r) \in Int
  <2>1. BuildRipAdvertisement(r)' \in 1 .. Infinity
    BY <1>1, RipAssumption DEF TypeOK, Route, BuildRipAdvertisement
  <2> QED BY <2>1, AdvertisementsShrink, AdvertisementType, RipAssumption
<1> DEFINE Closer(route) ==
             route # NoRoute => /\ route.nextHop \in Routers
                                /\ BuildRipAdvertisement(route.nextHop) < route.metric
           CloserNext(route) ==
             route # NoRoute => /\ route.nextHop \in Routers
                                /\ IF route.nextHop \in Origins THEN 1 < route.metric
                                   ELSE Routes'[route.nextHop].metric < route.metric
<1>3. ASSUME NEW r \in Routers
      PROVE  CloserNext(Routes[r]) /\ CloserNext(RoutingTable[r])
  <2>1. Closer(Routes[r]) /\ Closer(RoutingTable[r])
    BY DEF NextHopCloser
  <2>2. Routes[r].metric \in Int /\ RoutingTable[r].metric \in Int
    BY RipAssumption DEF TypeOK, Route
  <2> QED BY <1>2, <2>1, <2>2 DEF BuildRipAdvertisement
<1>4. ASSUME NEW g \in Cyclers, pc[g] \in {"process", "install"}
      PROVE  CloserNext(NewRoute(update[g]))
  <2>1. /\ update[g].from \in Routers /\ update[g].metric \in Int
        /\ BuildRipAdvertisement(update[g].from) <= update[g].metric
    BY <1>4, RipAssumption DEF CyclesOK, TypeOK, Update, Honest, HonestFor
  <2> QED BY <1>2, <2>1 DEF NewRoute, BuildRipAdvertisement
<1>5. CloserNext(NoRoute)
  OBVIOUS
<1>6. ASSUME NEW r \in Routers
      PROVE  CloserNext(Routes'[r]) /\ CloserNext(RoutingTable'[r])
  <2> HIDE DEF CloserNext
  <2> QED BY <1>3, <1>4, <1>5, RouteSteps
<1> QED BY <1>6 DEF NextHopCloser, BuildRipAdvertisement

-----------------------------------------------------------------------------
(* The daemon's table and the routing table change in two steps; between   *)
(* them the route is in the hands of one goroutine, or the router is one   *)
(* where two have overtaken each other.                                    *)
LEMMA TablesKept ==
    ASSUME TypeOK, CyclesOK, Installing, TableIsDaemons, [Next]_vars
    PROVE  Installing' /\ TableIsDaemons'
<1>1. ASSUME NEW g \in Cyclers, ProcessUpdate(g), Better(update[g])
      PROVE  Installing' /\ TableIsDaemons'
  <2>1. /\ Routes' = [Routes EXCEPT ![update[g].to] = NewRoute(update[g])]
        /\ pc' = [pc EXCEPT ![g] = "install"] /\ pc[g] = "process"
        /\ overtaken' = overtaken \cup Overtaken(g)
        /\ update' = update /\ RoutingTable' = RoutingTable
    BY <1>1 DEF ProcessUpdate
  <2>2. update[g].to \in Routers
    BY <2>1 DEF CyclesOK
  <2>3. ASSUME NEW h \in Cyclers, pc'[h] = "install"
        PROVE  update[h].to \in overtaken' \/ Routes'[update[h].to] = NewRoute(update[h])
    <3>1. CASE h = g
      BY <2>1, <2>2, <3>1 DEF TypeOK
    <3>2. CASE h # g /\ update[h].to = update[g].to
      BY <2>1, <2>2, <2>3, <3>2 DEF Overtaken, TypeOK
    <3>3. CASE h # g /\ update[h].to # update[g].to
      BY <2>1, <2>2, <2>3, <3>3 DEF Installing, TypeOK, CyclesOK
    <3> QED BY <3>1, <3>2, <3>3
  <2>4. ASSUME NEW r \in Routers \ overtaken', Settled(r)'
        PROVE  RoutingTable'[r] = Routes'[r]
    <3>1. r # update[g].to
      BY <2>1, <2>4 DEF Settled, TypeOK
    <3>2. Settled(r)
      BY <2>1, <2>4 DEF Settled, TypeOK
    <3> QED BY <2>1, <2>4, <3>1, <3>2 DEF TableIsDaemons, TypeOK
  <2> QED BY <2>1, <2>3, <2>4 DEF Installing, TableIsDaemons, NewRoute
<1>2. ASSUME NEW g \in Cyclers, AddRoute(g) PROVE Installing' /\ TableIsDaemons'
  <2>1. /\ RoutingTable' = [RoutingTable EXCEPT ![update[g].to] = NewRoute(update[g])]
        /\ pc[g] = "install" /\ pc'[g] # "install" /\ update[g].to \in Routers
        /\ Routes' = Routes /\ overtaken' = overtaken
    BY <1>2 DEF AddRoute, Handled, TypeOK, CyclesOK
  <2>2. \A h \in Cyclers \ {g} : pc'[h] = pc[h] /\ update'[h] = update[h]
    BY <1>2 DEF AddRoute, Handled, TypeOK
  <2>3. Installing'
    BY <2>1, <2>2 DEF Installing, NewRoute
  <2>4. ASSUME NEW r \in Routers \ overtaken', Settled(r)'
        PROVE  RoutingTable'[r] = Routes'[r]
    <3>1. CASE r = update[g].to
      BY <2>1, <2>4, <3>1 DEF Installing, TypeOK
    <3>2. CASE r # update[g].to
      <4>1. Settled(r)
        BY <2>1, <2>2, <2>4, <3>2 DEF Settled
      <4> QED BY <2>1, <2>4, <3>2, <4>1 DEF TableIsDaemons, TypeOK
    <3> QED BY <3>1, <3>2
  <2> QED BY <2>3, <2>4 DEF TableIsDaemons
<1>3. ASSUME NEW S, RemoveAddresses(S), links' \subseteq Cables, UNCHANGED <<Routes, pc, update>>
      PROVE  Installing' /\ TableIsDaemons'
  <2>1. /\ overtaken \subseteq overtaken'
        /\ \A q \in Routers \ overtaken' : RoutingTable'[q] = RoutingTable[q]
    BY <1>3, RemovalSteps
  <2> QED BY <1>3, <2>1 DEF Installing, TableIsDaemons, Settled, NewRoute, TypeOK
<1>4. ASSUME UNCHANGED <<Routes, RoutingTable, overtaken>>,
             \A h \in Cyclers : /\ pc'[h] = "install" <=> pc[h] = "install"
                                /\ pc[h] = "install" => update'[h] = update[h]
      PROVE  Installing' /\ TableIsDaemons'
  BY <1>4 DEF Installing, TableIsDaemons, Settled, NewRoute
<1>5. ASSUME NEW g \in Cyclers, RunRipUpdateCycle(g), ~AddRoute(g),
             ~(ProcessUpdate(g) /\ Better(update[g]))
      PROVE  Installing' /\ TableIsDaemons'
  <2>1. UNCHANGED <<Routes, RoutingTable, overtaken>>
    BY <1>5 DEF RunRipUpdateCycle, TakeRouter, SendUpdate, ProcessUpdate, SendAnswer,
                EndRouter, EndCycle, tables
  <2>2. pc'[g] # "install" /\ pc[g] # "install"
    BY <1>5 DEF RunRipUpdateCycle, TakeRouter, SendUpdate, ProcessUpdate, Handled,
                SendAnswer, EndRouter, EndCycle, TypeOK
  <2> QED BY <1>4, <1>5, <2>1, <2>2, OthersIdle
<1>6. CASE /\ \A g \in Cyclers : ~RunRipUpdateCycle(g)
           /\ \A d \in Routers : ~RemoveDevice(d)
           /\ \A ip \in Duplicates : ~RemoveHost(ip)
  <2>1. UNCHANGED <<Routes, RoutingTable, overtaken, update>>
    BY <1>6 DEF Next, vars, RipTimer, ConfigRip, AddLink, RemoveLink,
                SetInterfaceShutdown, AddInterface, idle, tables
  <2>2. \A h \in Cyclers : pc'[h] = "install" <=> pc[h] = "install"
    BY <1>6, CyclersTwo DEF Next, vars, RipTimer, StartCycle, ConfigRip, AddLink,
                            RemoveLink, SetInterfaceShutdown, AddInterface, idle, TypeOK
  <2> QED BY <1>4, <2>1, <2>2
<1>7. ASSUME NEW d \in Routers, RemoveDevice(d) PROVE Installing' /\ TableIsDaemons'
  <2> DEFINE S == {Interfaces[d][q] : q \in Routers} \ {None}
  <2>1. RemoveAddresses(S) /\ links' \subseteq Cables /\ UNCHANGED <<Routes, pc, update>>
    BY <1>7 DEF RemoveDevice, TypeOK
  <2> HIDE DEF S
  <2> QED BY <1>3, <2>1
<1>8. ASSUME NEW ip \in Duplicates, RemoveHost(ip) PROVE Installing' /\ TableIsDaemons'
  BY <1>3, <1>8 DEF RemoveHost, TypeOK
<1> QED BY <1>1, <1>2, <1>5, <1>6, <1>7, <1>8

(* An update sets out from a router that exists.  RemoveDevice purges what *)
(* it has installed and marks what it has not.                             *)
LEMMA RemovedKept ==
    ASSUME TypeOK, LinksOK, CyclesOK, LateKnown, RemovedStaysOut, [Next]_vars
    PROVE  LateKnown' /\ RemovedStaysOut'
<1>1. ASSUME NEW d \in Routers, RemoveDevice(d) PROVE LateKnown' /\ RemovedStaysOut'
  <2>1. LateKnown'
    BY <1>1 DEF RemoveDevice, LateKnown, CyclesOK
  <2> DEFINE S == {Interfaces[d][q] : q \in Routers} \ {None}
  <2>3. RemoveAddresses(S) /\ links' \subseteq Cables /\ routers' = routers \ {d}
    BY <1>1 DEF RemoveDevice, TypeOK
  <2>4. \A q \in Routers : RoutingTable[q].nextHop = d /\ RoutingTable[q].address \notin S => q \in late'
    BY <1>1 DEF RemoveDevice
  <2>5. late \subseteq late'
    BY <1>1 DEF RemoveDevice
  <2> HIDE DEF S
  <2>6. ASSUME NEW q \in routers' \ late' PROVE RoutingTable'[q].nextHop \in routers' \cup {None}
    <3>1. q \in Routers /\ q \in routers \ late
      BY <2>3, <2>5 DEF TypeOK
    <3>2. RoutingTable'[q] \in {RoutingTable[q], NoRoute}
      BY <2>3, <3>1, RemovalSteps
    <3>3. RoutingTable[q].address \in S => RoutingTable'[q] = NoRoute
      BY <2>3, <3>1, RemovalSteps
    <3>4. RoutingTable[q].nextHop = d => RoutingTable[q].address \in S
      BY <2>4, <2>6, <3>1
    <3> QED BY <2>3, <3>1, <3>2, <3>3, <3>4 DEF RemovedStaysOut, NoRoute
  <2>2. RemovedStaysOut'
    BY <2>6 DEF RemovedStaysOut
  <2> QED BY <2>1, <2>2
<1>2. ASSUME \A d \in Routers : ~RemoveDevice(d) PROVE UNCHANGED <<routers, late>>
  BY <1>2 DEF Next, vars, RunRipUpdateCycle, RipTimer, TakeRouter, SendUpdate,
              ProcessUpdate, AddRoute, SendAnswer, EndRouter, EndCycle, ConfigRip,
              AddLink, RemoveLink, SetInterfaceShutdown, AddInterface, RemoveHost,
              idle, topology
<1>3. ASSUME \A d \in Routers : ~RemoveDevice(d) PROVE RemovedStaysOut'
  <2> SUFFICES ASSUME NEW r \in routers \ late
               PROVE  RoutingTable'[r].nextHop \in routers \cup {None}
    BY <1>2, <1>3 DEF RemovedStaysOut
  <2>1. CASE RoutingTable'[r] \in {RoutingTable[r], NoRoute}
    BY <2>1 DEF RemovedStaysOut, NoRoute
  <2>2. ASSUME NEW g \in Cyclers, pc[g] = "install", update[g].to = r,
               RoutingTable'[r] = NewRoute(update[g])
        PROVE  RoutingTable'[r].nextHop \in routers \cup {None}
    BY <2>2 DEF LateKnown, NewRoute
  <2> QED BY <2>1, <2>2, RouteSteps DEF TypeOK
<1>4. ASSUME \A d \in Routers : ~RemoveDevice(d), NEW h \in Cyclers,
             pc'[h] \in {"process", "install"}
      PROVE  update'[h].from \in routers \/ update'[h].to \in late
  <2>1. CASE pc[h] \in {"process", "install"} /\ update'[h] = update[h]
    BY <2>1 DEF LateKnown
  <2>2. ASSUME NEW q \in Routers, SendUpdate(h, q) PROVE update'[h].from \in routers
    <3>1. Peer(sender[h], q)
      BY <1>4, <2>2 DEF SendUpdate
    <3>2. update'[h].from = sender[h]
      BY <2>2, <3>1 DEF SendUpdate, TypeOK
    <3> QED BY <3>1, <3>2 DEF Peer, LinksOK
  <2>3. ASSUME SendAnswer(h) PROVE update'[h].from \in routers
    BY <1>4, <2>3 DEF SendAnswer, Peer, LinksOK, TypeOK
  <2>4. ASSUME RunRipUpdateCycle(h), \A q \in Routers : ~SendUpdate(h, q), ~SendAnswer(h)
        PROVE  pc[h] \in {"process", "install"} /\ update'[h] = update[h]
    BY <1>4, <2>4 DEF RunRipUpdateCycle, TakeRouter, ProcessUpdate, Handled, AddRoute,
                      EndRouter, EndCycle, TypeOK
  <2>5. ASSUME ~RunRipUpdateCycle(h)
        PROVE  pc[h] \in {"process", "install"} /\ update'[h] = update[h]
    <3>1. CASE \E g \in Cyclers : g # h /\ RunRipUpdateCycle(g)
      BY <1>4, <3>1, OthersIdle
    <3>2. CASE \A g \in Cyclers : ~RunRipUpdateCycle(g)
      BY <1>4, <3>2, OutsideCycles
    <3> QED BY <2>5, <3>1, <3>2
  <2>6. CASE RunRipUpdateCycle(h)
    BY <2>1, <2>2, <2>3, <2>4, <2>6
  <2> QED BY <2>1, <2>5, <2>6
<1> QED BY <1>1, <1>2, <1>3, <1>4 DEF LateKnown

-----------------------------------------------------------------------------
LEMMA Inductive == IInv /\ [Next]_vars => IInv'
  BY TypesKept, LinksKept, CyclesKept, HonestKept, CloserKept, TablesKept, RemovedKept
     DEF IInv

LEMMA Invariance == Spec => []IInv
  BY InitOK, Inductive, PTL DEF Spec

(* The best of some metrics.                                               *)
LEMMA SmallestMetric ==
    ASSUME NEW M, M \subseteq Nat, M # {}
    PROVE  \E m \in M : \A k \in M : m <= k
<1> DEFINE R == OpToRel(<, Nat)
<1>1. IsWellFoundedOn(R, Nat)
  BY NatLessThanWellFounded
<1>2. PICK m \in M : \A k \in M : <<k, m>> \notin R
  <2> HIDE DEF R
  <2> QED BY <1>1, WFMin, Zenon
<1>3. \A k \in M : ~(k < m)
  BY <1>2 DEF OpToRel
<1> QED BY <1>3

(* Of routers that all forward to one another, the one with the smallest   *)
(* metric would forward to one with a smaller metric still.                *)
LEMMA NoLoop == IInv => NoForwardingLoop
<1> SUFFICES ASSUME IInv,
                    NEW S \in SUBSET {r \in Routers \ overtaken : Settled(r)}, S # {},
                    \A r \in S : r \notin Origins /\ RoutingTable[r].nextHop \in S
             PROVE  FALSE
  BY DEF NoForwardingLoop
<1> DEFINE M == {Routes[r].metric : r \in S}
<1>1. M \subseteq Nat /\ M # {}
  BY RipAssumption DEF IInv, TypeOK, Route
<1>2. PICK m \in M : \A k \in M : m <= k
  <2> HIDE DEF M
  <2> QED BY <1>1, SmallestMetric
<1>3. PICK r \in S : Routes[r].metric = m
  OBVIOUS
<1> DEFINE n == RoutingTable[r].nextHop
<1>4. RoutingTable[r] = Routes[r] /\ n \in S
  BY DEF IInv, TableIsDaemons
<1>5. RoutingTable[r] # NoRoute
  BY <1>4, RipAssumption DEF NoRoute
<1>6. BuildRipAdvertisement(n) < Routes[r].metric
  BY <1>4, <1>5 DEF IInv, NextHopCloser
<1>7. Routes[n].metric < m
  BY <1>3, <1>4, <1>6 DEF BuildRipAdvertisement
<1>8. m <= Routes[n].metric
  BY <1>2, <1>4
<1>9. m \in Nat /\ Routes[n].metric \in Nat
  BY <1>1, <1>4
<1> QED BY <1>7, <1>8, <1>9

(* The types hold: RIP's metrics stay below Infinity, through every        *)
(* overlap of cycles.                                                      *)
THEOREM TypesHold == Spec => []TypeOK
<1>1. IInv => TypeOK
  BY DEF IInv
<1> QED BY <1>1, Invariance, PTL

(* A route always points to a router that is closer to the network, in the *)
(* daemon's table and in the routing table.                                *)
THEOREM RoutesPointCloser == Spec => []NextHopCloser
<1>1. IInv => NextHopCloser
  BY DEF IInv
<1> QED BY <1>1, Invariance, PTL

(* Only updates that overtake each other, and RemoveDevice, can make the   *)
(* routing table differ from the daemon's table.                           *)
THEOREM TablesAgree == Spec => []TableIsDaemons
<1>1. IInv => TableIsDaemons
  BY DEF IInv
<1> QED BY <1>1, Invariance, PTL

(* Only an update that was under way can bring back a route through a      *)
(* device that RemoveDevice has removed.                                   *)
THEOREM RemovedDevicesStayOut == Spec => []RemovedStaysOut
<1>1. IInv => RemovedStaysOut
  BY DEF IInv
<1> QED BY <1>1, Invariance, PTL

(* No packet goes round: where no update overtook another and none is      *)
(* being installed, following the next hops ends.                          *)
THEOREM RoutesStaySound == Spec => []RoutesSound
<1>1. IInv => RoutesSound
  BY NoLoop DEF IInv, RoutesSound
<1> QED BY <1>1, Invariance, PTL

(* The routing table is the daemon's and names no removed router, except   *)
(* for updates that overtook each other or were late.                      *)
THEOREM TablesStayClose == Spec => []TablesFollow
<1>1. IInv => TablesFollow
  BY DEF IInv, TablesFollow
<1> QED BY <1>1, Invariance, PTL
=============================================================================
