--------------------------------- MODULE Rip ---------------------------------
(***************************************************************************)
(* RIP (engine/network/protocol/rip.go), the update cycle that runs it     *)
(* (manager.go), and the topology changes it has to live with              *)
(* (topology_ops.go).                                                      *)
(*                                                                         *)
(* The cycle runs in the simulation loop, for every TIMER_RIP, and in a    *)
(* connection goroutine, for every CONFIG_RIP.  It advertises router by    *)
(* router and port by port; an update changes the daemon's own table under *)
(* the daemon's lock and, afterwards, the router's routing table under the *)
(* router's.  Links and devices come and go in between.                    *)
(*                                                                         *)
(* Entries of an update are independent of each other, so that the module  *)
(* follows one network, connected at the Origins.  A pair of routers has   *)
(* at most one cable, between ports of its own, so that the neighbour's    *)
(* name stands for the port.  Addresses are not unique: the user assigns   *)
(* them, and a new cable gets those of the subnet with its number, which a *)
(* cable that was there before may have had.                               *)
(***************************************************************************)
EXTENDS Integers, FiniteSets

CONSTANTS
    Routers,
    Subnets,        \* numbers of the /30 subnets that cables get
    Loaded,         \* the addresses a loaded topology may have on its ports
    Origins,        \* routers with an interface in the network
    Cables,         \* the links the user may connect, as pairs of routers
    Cabled,         \* the links of the topology that was loaded
    Configured,     \* the routers of that topology that run RIP
    ShutPorts,      \* ports the user shuts and opens
    Readdressed,    \* ports the user assigns addresses to, with these
    Duplicates,     \* addresses of hosts the user removes
    Infinity,       \* RipInfinity
    None,           \* no next hop, no router, no address
    MaxChanges      \* bound: what the user changes and configures

(* A port, by its router and the router it is cabled to; <<r, r>> stands   *)
(* for an interface that faces no router.                                  *)
Ports == Routers \X Routers

(* The first and the second address of a subnet.                           *)
Addresses == Subnets \X {1, 2}

ASSUME RipAssumption ==
    /\ IsFiniteSet(Routers) /\ None \notin Routers
    /\ Origins \subseteq Routers /\ Configured \subseteq Routers
    /\ Cabled \subseteq Cables
    /\ \A l \in Cables : \E r, q \in Routers : r # q /\ l = {r, q}
    /\ \A loaded \in Loaded :
         /\ loaded \in [Routers -> [Routers -> Addresses \cup {None}]]
         /\ \A l \in Cabled : \A r, q \in l : r # q => loaded[r][q] # None
    /\ ShutPorts \subseteq Ports /\ Readdressed \subseteq Ports \X Addresses
    /\ Duplicates \subseteq Addresses
    /\ None \notin Addresses /\ Subnets \subseteq Nat
    /\ Infinity \in Nat /\ Infinity > 2
    /\ MaxChanges \in Nat

Loop == "loop"          \* the simulation loop's cycle
Conn == "connection"    \* the connection goroutine's cycle
Cyclers == {Loop, Conn}

(* A route: its metric, the router at the port it leaves through, and the  *)
(* address that is its next hop.  The metric Infinity says there is none.  *)
Route == [metric : 2 .. Infinity, nextHop : Routers \cup {None},
          address : Addresses \cup {None}]
NoRoute == [metric |-> Infinity, nextHop |-> None, address |-> None]

VARIABLES
    routers,        \* routers that exist
    links,          \* m.Links
    enabled,        \* routers whose RIP daemon runs
    Interfaces,     \* Interfaces[r][q]: the address of r's port towards q
    shut,           \* ports whose interface is shut down
    Neighbors,      \* Neighbors[r][q]: the address r's daemon has for its peer q
    Routes,         \* Routes[r]: the daemon's route to the network
    RoutingTable,   \* RoutingTable[r]: the router's RIP route to the network
    pc,             \* pc[g]: where goroutine g is in its cycle
    todo,           \* todo[g]: routers the cycle has yet to come to
    sender,         \* sender[g]: the router it is at
    localRoutes,    \* localRoutes[g]: the metric that router advertises
    ports,          \* ports[g]: neighbours it has yet to send to
    update,         \* update[g]: the update on the wire
    changes,        \* changes the user has made
    overtaken,      \* history: see Overtaken and RemoveAddresses
    late,           \* history: see RemoveDevice
    unlisted        \* history: see RemoveAddresses

topology == <<routers, links, enabled, Interfaces, shut, Neighbors, unlisted, changes>>
tables == <<Routes, RoutingTable>>
cycle == <<todo, sender, localRoutes, ports>>
vars == <<routers, links, enabled, Interfaces, shut, Neighbors, Routes,
          RoutingTable, pc, todo, sender, localRoutes, ports, update, changes,
          overtaken, late, unlisted>>

(* An update on the wire: the metric from says it has, for to, and the     *)
(* address it comes from; an answer goes from the neighbour to the router  *)
(* the cycle is at.                                                        *)
Update == [from : Routers \cup {None}, to : Routers \cup {None},
           source : Addresses \cup {None}, metric : 1 .. Infinity, answer : BOOLEAN]
NoUpdate == [from |-> None, to |-> None, source |-> None, metric |-> Infinity,
             answer |-> FALSE]

(* RefreshRipNeighbors and the part of AddLink that is about RIP: every    *)
(* running daemon has the address at the other end of its router's links.  *)
Refreshed(nbrs, ls, on, addr) ==
    [r \in Routers |-> [q \in Routers |->
        IF r \in on /\ {r, q} \in ls THEN addr[q][r] ELSE nbrs[r][q]]]

-----------------------------------------------------------------------------
(* A topology was loaded: RestoreRouter has started the daemons and        *)
(* AddLink has given them their neighbours.                                *)
Init ==
    /\ routers = Routers /\ links = Cabled /\ enabled = Configured
    /\ Interfaces \in Loaded /\ shut = {}
    /\ Neighbors = Refreshed([r \in Routers |-> [q \in Routers |-> None]],
                             Cabled, Configured, Interfaces)
    /\ Routes = [r \in Routers |-> NoRoute]
    /\ RoutingTable = [r \in Routers |-> NoRoute]
    /\ pc = [g \in Cyclers |-> "idle"]
    /\ todo = [g \in Cyclers |-> {}]
    /\ sender = [g \in Cyclers |-> None]
    /\ localRoutes = [g \in Cyclers |-> Infinity]
    /\ ports = [g \in Cyclers |-> {}]
    /\ update = [g \in Cyclers |-> NoUpdate]
    /\ changes = 0
    /\ overtaken = {} /\ late = {} /\ unlisted = {}

-----------------------------------------------------------------------------
(* --- The update cycle -------------------------------------------------- *)
StartCycle(g) ==
    /\ pc[g] = "idle"
    /\ pc' = [pc EXCEPT ![g] = "routers"]
    /\ todo' = [todo EXCEPT ![g] = routers]

(* TIMER_RIP.                                                              *)
RipTimer ==
    /\ StartCycle(Loop)
    /\ UNCHANGED <<topology, tables, sender, localRoutes, ports, update,
                   overtaken, late>>

(* BuildRipAdvertisement: a connected network has metric 1, a learned one  *)
(* the daemon's.  Routes of the other kinds are not redistributed.         *)
BuildRipAdvertisement(r) == IF r \in Origins THEN 1 ELSE Routes[r].metric

(* The next router in map order; it is passed over if it runs no RIP.      *)
TakeRouter(g, r) ==
    /\ pc[g] = "routers" /\ r \in todo[g]
    /\ todo' = [todo EXCEPT ![g] = @ \ {r}]
    /\ \/ /\ r \in enabled
          /\ pc' = [pc EXCEPT ![g] = "ports"]
          /\ sender' = [sender EXCEPT ![g] = r]
          /\ localRoutes' = [localRoutes EXCEPT ![g] = BuildRipAdvertisement(r)]
          /\ ports' = [ports EXCEPT ![g] = {q \in Routers : Neighbors[r][q] # None}]
       \/ /\ r \notin enabled
          /\ UNCHANGED <<pc, sender, localRoutes, ports>>
    /\ UNCHANGED <<topology, tables, update, overtaken, late>>

(* FindNeighborOnPort and GetRouter, and the same lookups once more in     *)
(* deliverProtocolFrame and HandleWireRIP.                                 *)
Peer(r, q) == {r, q} \in links /\ q \in routers /\ q \in enabled

(* deliverToRouter drops what arrives at a port that is shut down.  The    *)
(* port it was sent from is not looked at.                                 *)
IsInterfaceUp(r, q) == <<r, q>> \notin shut

(* The next port in map order: the update goes out; at a port of the peer  *)
(* that is shut it is lost, and the peer answers all the same.  Where the  *)
(* cable or the peer is gone the port is passed over.                      *)
SendUpdate(g, q) ==
    /\ pc[g] = "ports" /\ q \in ports[g]
    /\ ports' = [ports EXCEPT ![g] = @ \ {q}]
    /\ \/ /\ Peer(sender[g], q)
          /\ pc' = [pc EXCEPT ![g] =
               IF IsInterfaceUp(q, sender[g]) THEN "process" ELSE "answer"]
          /\ update' = [update EXCEPT ![g] =
               [from |-> sender[g], to |-> q, source |-> Interfaces[sender[g]][q],
                metric |-> localRoutes[g], answer |-> FALSE]]
       \/ /\ ~Peer(sender[g], q)
          /\ UNCHANGED <<pc, update>>
    /\ UNCHANGED <<topology, tables, todo, sender, localRoutes, overtaken, late>>

(* After an update the peer answers with its own; after that the cycle     *)
(* comes to the next port.                                                 *)
Handled(g) ==
    /\ pc' = [pc EXCEPT ![g] = IF update[g].answer THEN "ports" ELSE "answer"]
    /\ update' = [update EXCEPT ![g] = IF update[g].answer THEN NoUpdate ELSE @]

(* Mutant: the hop is not counted.                                         *)
MutNewRoute(u) ==
    [metric |-> IF u.metric = 1 THEN 2 ELSE u.metric, nextHop |-> u.from,
     address |-> u.source]

(* The route an update offers: the sender, one hop further.                *)
NewRoute(u) ==
    [metric |-> u.metric + 1, nextHop |-> u.from, address |-> u.source]

(* Mutant: any update within Infinity is taken.                            *)
MutBetter(u) == NewRoute(u).metric < Infinity

(* Mutant: the last metric below Infinity is refused, too.                 *)
MutInfinity(u) ==
    /\ NewRoute(u).metric + 1 < Infinity
    /\ NewRoute(u).metric < Routes[u.to].metric

(* It is taken below Infinity, and only if it is strictly better.          *)
Better(u) ==
    /\ NewRoute(u).metric < Infinity
    /\ NewRoute(u).metric < Routes[u.to].metric

(* History: another goroutine holds a route that the daemon has accepted   *)
(* and the routing table has not, so that the later one may be overwritten.*)
Overtaken(g) ==
    {r \in Routers : r = update[g].to /\ \E h \in Cyclers \ {g} :
                        pc[h] = "install" /\ update[h].to = r}

(* ProcessUpdate: the daemon takes the route if it is better than its own. *)
ProcessUpdate(g) ==
    /\ pc[g] = "process"
    /\ \/ /\ Better(update[g])
          /\ Routes' = [Routes EXCEPT ![update[g].to] = NewRoute(update[g])]
          /\ pc' = [pc EXCEPT ![g] = "install"]
          /\ overtaken' = overtaken \cup Overtaken(g)
          /\ UNCHANGED update
       \/ /\ ~Better(update[g])
          /\ Handled(g)
          /\ UNCHANGED <<Routes, overtaken>>
    /\ UNCHANGED <<topology, RoutingTable, cycle, late>>

(* Mutant: a route that is there already is kept.                          *)
MutAddRoute(g) ==
    /\ pc[g] = "install"
    /\ RoutingTable' = [RoutingTable EXCEPT ![update[g].to] =
                          IF @ = NoRoute THEN NewRoute(update[g]) ELSE @]
    /\ Handled(g)
    /\ UNCHANGED <<topology, Routes, cycle, overtaken, late>>

(* AddRoute: the route replaces the RIP route the routing table has,       *)
(* whichever is better.                                                    *)
AddRoute(g) ==
    /\ pc[g] = "install"
    /\ RoutingTable' = [RoutingTable EXCEPT ![update[g].to] = NewRoute(update[g])]
    /\ Handled(g)
    /\ UNCHANGED <<topology, Routes, cycle, overtaken, late>>

(* The peer's own update comes back, built from what it knows now.  It is  *)
(* lost where the cable or the router was removed meanwhile, or the        *)
(* router's port is shut.                                                  *)
SendAnswer(g) ==
    LET q == update[g].to IN
    /\ pc[g] = "answer"
    /\ \/ /\ Peer(q, sender[g]) /\ IsInterfaceUp(sender[g], q)
          /\ pc' = [pc EXCEPT ![g] = "process"]
          /\ update' = [update EXCEPT ![g] =
               [from |-> q, to |-> sender[g], source |-> Interfaces[q][sender[g]],
                metric |-> BuildRipAdvertisement(q), answer |-> TRUE]]
       \/ /\ ~(Peer(q, sender[g]) /\ IsInterfaceUp(sender[g], q))
          /\ pc' = [pc EXCEPT ![g] = "ports"]
          /\ update' = [update EXCEPT ![g] = NoUpdate]
    /\ UNCHANGED <<topology, tables, cycle, overtaken, late>>

EndRouter(g) ==
    /\ pc[g] = "ports" /\ ports[g] = {}
    /\ pc' = [pc EXCEPT ![g] = "routers"]
    /\ sender' = [sender EXCEPT ![g] = None]
    /\ localRoutes' = [localRoutes EXCEPT ![g] = Infinity]
    /\ UNCHANGED <<topology, tables, todo, ports, update, overtaken, late>>

EndCycle(g) ==
    /\ pc[g] = "routers" /\ todo[g] = {}
    /\ pc' = [pc EXCEPT ![g] = "idle"]
    /\ UNCHANGED <<topology, tables, cycle, update, overtaken, late>>

RunRipUpdateCycle(g) ==
    \/ \E r \in Routers : TakeRouter(g, r) \/ SendUpdate(g, r)
    \/ ProcessUpdate(g) \/ AddRoute(g) \/ SendAnswer(g)
    \/ EndRouter(g) \/ EndCycle(g)

-----------------------------------------------------------------------------
(* --- The connection goroutine ------------------------------------------ *)
Change == changes < MaxChanges /\ changes' = changes + 1

(* CONFIG_RIP: the daemon starts, or goes on with what it has; the         *)
(* neighbours are refreshed and a cycle begins.                            *)
ConfigRip(r) ==
    /\ r \in routers /\ Change
    /\ enabled' = enabled \cup {r}
    /\ Neighbors' = Refreshed(Neighbors, links, enabled \cup {r}, Interfaces)
    /\ StartCycle(Conn)
    /\ UNCHANGED <<routers, links, Interfaces, shut, unlisted, tables, sender,
                   localRoutes, ports, update, overtaken, late>>

idle == <<tables, pc, cycle, update, overtaken, late>>

(* INTERFACE_SHUTDOWN, shut or opened.                                     *)
SetInterfaceShutdown(p) ==
    /\ pc[Conn] = "idle" /\ Change
    /\ p[1] \in routers
    /\ shut' = IF p \in shut THEN shut \ {p} ELSE shut \cup {p}
    /\ UNCHANGED <<routers, links, enabled, Interfaces, Neighbors, unlisted, idle>>

(* AddInterface: the user assigns an address.  What the peers and the      *)
(* routes have of the port stays as it is.                                 *)
AddInterface(p, ip) ==
    /\ pc[Conn] = "idle" /\ Change
    /\ p[1] \in routers
    /\ Interfaces' = [Interfaces EXCEPT ![p[1]][p[2]] = ip]
    /\ UNCHANGED <<routers, links, enabled, shut, Neighbors, unlisted, idle>>

(* AssignLinkAddress: a port that has an address keeps it.                 *)
AssignLinkAddress(r, q, ip) == IF Interfaces[r][q] = None THEN ip ELSE Interfaces[r][q]

(* The ports of a new cable with the number i, of which r is the source.   *)
Addressed(r, q, i) ==
    [Interfaces EXCEPT ![r][q] = AssignLinkAddress(r, q, <<i, 1>>),
                       ![q][r] = AssignLinkAddress(q, r, <<i, 2>>)]

(* AddLink: the ends get addresses, and running daemons at them know each  *)
(* other at once.  The subnet's number is the number of links there are,   *)
(* those to switches and hosts included.                                   *)
AddLink(r, q) ==
    /\ pc[Conn] = "idle" /\ Change
    /\ {r, q} \in Cables \ links /\ {r, q} \subseteq routers
    /\ links' = links \cup {{r, q}}
    /\ \E i \in Subnets : Cardinality(links') <= i /\ Interfaces' = Addressed(r, q, i)
    /\ Neighbors' = Refreshed(Neighbors, {{r, q}}, enabled, Interfaces')
    /\ UNCHANGED <<routers, enabled, shut, unlisted, idle>>

(* RemoveLink: only the link goes.  What was learned over it stays, and    *)
(* its ports keep their addresses.                                         *)
RemoveLink(l) ==
    /\ pc[Conn] = "idle" /\ Change
    /\ l \in links
    /\ links' = links \ {l}
    /\ UNCHANGED <<routers, enabled, Interfaces, shut, Neighbors, unlisted, idle>>

(* Mutant: the routing tables keep their routes through the device.        *)
MutPurged(table, removedIPs) == table

(* purgeRouterReferencesLocked: routes whose next hop is an address of the *)
(* device leave a router's table, whoever they lead through.               *)
Purged(table, removedIPs) ==
    [q \in Routers |-> IF q \in routers' /\ table[q].address \in removedIPs
                       THEN NoRoute ELSE table[q]]

(* What is removed with a device that has these addresses: daemons forget  *)
(* the neighbours with one of them, but not what they were told.  History: *)
(* the routers whose routing table lost a route, and the links that lost a *)
(* neighbour at one of their ends.                                         *)
RemoveAddresses(removedIPs) ==
    /\ Neighbors' = [q \in Routers |-> [p \in Routers |->
                       IF q \in routers' /\ Neighbors[q][p] \in removedIPs
                       THEN None ELSE Neighbors[q][p]]]
    /\ RoutingTable' = Purged(RoutingTable, removedIPs)
    /\ overtaken' = overtaken \cup {q \in Routers : RoutingTable'[q] # RoutingTable[q]}
    /\ unlisted' = unlisted \cup {l \in links' : \E q, p \in l : Neighbors'[q][p] # Neighbors[q][p]}

(* RemoveDevice of a router.  History: the routers for which an update of  *)
(* it is under way, or whose route through it has an address that it does  *)
(* not have any more.                                                      *)
RemoveDevice(r) ==
    LET removedIPs == {Interfaces[r][q] : q \in Routers} \ {None} IN
    /\ pc[Conn] = "idle" /\ Change
    /\ r \in routers
    /\ routers' = routers \ {r}
    /\ links' = {l \in links : r \notin l}
    /\ RemoveAddresses(removedIPs)
    /\ late' = late \cup {q \in Routers :
                  \/ \E g \in Cyclers : update[g].from = r /\ update[g].to = q
                  \/ RoutingTable[q].nextHop = r /\ RoutingTable[q].address \notin removedIPs}
    /\ UNCHANGED <<enabled, Interfaces, shut, Routes, pc, cycle, update>>

(* RemoveDevice of a host whose address is also one of the routers'.       *)
RemoveHost(ip) ==
    /\ pc[Conn] = "idle" /\ Change
    /\ UNCHANGED routers /\ UNCHANGED links
    /\ RemoveAddresses({ip})
    /\ UNCHANGED <<enabled, Interfaces, shut, late, Routes, pc, cycle, update>>

Next ==
    \/ RipTimer
    \/ \E g \in Cyclers : RunRipUpdateCycle(g)
    \/ \E r \in Routers : ConfigRip(r) \/ RemoveDevice(r)
    \/ \E p \in ShutPorts : SetInterfaceShutdown(p)
    \/ \E p \in Ports : AddLink(p[1], p[2])
    \/ \E a \in Readdressed : AddInterface(a[1], a[2])
    \/ \E ip \in Duplicates : RemoveHost(ip)
    \/ \E l \in Cables : RemoveLink(l)

Spec == Init /\ [][Next]_vars

(* The loop keeps running and a connection goroutine ends its call; the    *)
(* user is free.                                                           *)
FairSpec ==
    /\ Spec
    /\ WF_vars(RipTimer \/ RunRipUpdateCycle(Loop))
    /\ WF_vars(RunRipUpdateCycle(Conn))

-----------------------------------------------------------------------------
(* --- Properties -------------------------------------------------------- *)
(* Types; a route's metric is from 2 to Infinity.                          *)
TypeOK ==
    /\ routers \subseteq Routers /\ enabled \subseteq Routers
    /\ links \subseteq Cables /\ shut \subseteq Ports /\ unlisted \subseteq Cables
    /\ Interfaces \in [Routers -> [Routers -> Addresses \cup {None}]]
    /\ Neighbors \in [Routers -> [Routers -> Addresses \cup {None}]]
    /\ Routes \in [Routers -> Route] /\ RoutingTable \in [Routers -> Route]
    /\ pc \in [Cyclers -> {"idle", "routers", "ports", "process", "install", "answer"}]
    /\ todo \in [Cyclers -> SUBSET Routers]
    /\ sender \in [Cyclers -> Routers \cup {None}]
    /\ localRoutes \in [Cyclers -> 1 .. Infinity]
    /\ ports \in [Cyclers -> SUBSET Routers]
    /\ update \in [Cyclers -> Update]
    /\ changes \in Nat
    /\ overtaken \subseteq Routers /\ late \subseteq Routers

(* Whatever was advertised from stale knowledge, by two cycles at once and *)
(* over links that are gone: the router a route points to is strictly      *)
(* closer to the network than the route's metric says, in the daemon's     *)
(* table and in the routing table.                                         *)
NextHopCloser ==
    \A r \in Routers : \A route \in {Routes[r], RoutingTable[r]} :
        route # NoRoute => /\ route.nextHop \in Routers
                           /\ BuildRipAdvertisement(route.nextHop) < route.metric

(* No goroutine is about to change the router's routing table.             *)
Settled(r) == \A g \in Cyclers : ~(pc[g] = "install" /\ update[g].to = r)

(* The routing table has the route the daemon advertises, except where two *)
(* updates overtook each other between ProcessUpdate and AddRoute, or      *)
(* where RemoveDevice took the route out of the routing table alone: one   *)
(* through the device, or through another router with an address of it.    *)
TableIsDaemons ==
    \A r \in Routers \ overtaken :
        Settled(r) => RoutingTable[r] = Routes[r]

(* Apart from those routers no set of routers forwards a packet round and  *)
(* round: one of them has the network, or no route, or points outside.     *)
NoForwardingLoop ==
    \A S \in SUBSET {r \in Routers \ overtaken : Settled(r)} :
        S # {} => \E r \in S : r \in Origins \/ RoutingTable[r].nextHop \notin S

(* Routes lead to the network: every next hop is closer, and so no packet  *)
(* goes round.                                                             *)
RoutesSound == TypeOK /\ NextHopCloser /\ NoForwardingLoop

(* RemoveDevice removes the "routing table entries learned through this    *)
(* device" for good, unless an update of the device was under way, or its  *)
(* address was changed after the route was learned.                        *)
RemovedStaysOut ==
    \A r \in routers \ late : RoutingTable[r].nextHop \in routers \cup {None}

(* The routing table follows the daemon and the topology, except for the   *)
(* two overlaps the code does not prevent.                                 *)
TablesFollow == TableIsDaemons /\ RemovedStaysOut

(* A link whose ends both lost each other when a device with the addresses *)
(* of both was removed: neither sends over it before RIP is configured     *)
(* again.                                                                  *)
Silent(r, q) ==
    {r, q} \in unlisted /\ Neighbors[r][q] = None /\ Neighbors[q][r] = None

(* Routers that an origin's updates reach over at most n links, through    *)
(* routers that run RIP and into ports that are up.                        *)
Within[n \in 0 .. Infinity] ==
    IF n = 0 THEN Origins \cap routers \cap enabled
    ELSE Within[n - 1] \cup
         {q \in routers \cap enabled : \E r \in Within[n - 1] :
              {r, q} \in links /\ IsInterfaceUp(q, r) /\ ~Silent(r, q)}

(* Once the user leaves the topology alone, every router within reach has  *)
(* a metric no larger than the shortest way, and routers further away than *)
(* Infinity allows need none.                                              *)
Converges ==
    \A r \in Routers \ Origins, n \in 1 .. Infinity - 2 :
        <>[](r \in Within[n] => Routes[r].metric <= n + 1)
=============================================================================
