-------------------------------- MODULE Lab --------------------------------
(***************************************************************************)
(* The topology: manager.go, topology_ops.go, persistence.go, the handlers *)
(* of main.go that build a lab, DHCP (module Dhcp) and the goroutine that  *)
(* negotiates a tunnel when two routers are cabled (ipsec.go).             *)
(*                                                                         *)
(* Devices are objects: ADD_ROUTER and LOAD_TOPOLOGY put new objects in    *)
(* the maps, and a goroutine that holds an old one works on without        *)
(* effect.  Network 0 and below are the LANs (192.168.0.0/16), network i   *)
(* above is the /30 of link index i.                                       *)
(***************************************************************************)
EXTENDS Dhcp, Sequences

CONSTANTS
    RouterIds, HostIds, SwitchIds,
    Cables,      \* the links that may be connected: id, ends and ports
    Iface0,      \* Iface0[r]: the addresses router r is added with, by port
    Public,      \* Public[r]: the public one of them
    Lans,        \* networks a pool is configured for
    Files,       \* the labs the program may have loaded at the start
    MaxCommands, \* bound: commands in a behaviour
    MaxCrashes,  \* bound: crashes in a behaviour
    Broken, Absent

Link(id, src, sport, dst, dport) ==
    [id |-> id, src |-> src, sport |-> sport, dst |-> dst, dport |-> dport]
Ends(c) == {<<c.src, c.sport>>, <<c.dst, c.dport>>}

Devices == RouterIds \cup HostIds \cup SwitchIds
Ports == {c.sport : c \in Cables} \cup {c.dport : c \in Cables} \cup UNION {DOMAIN Iface0[r] : r \in RouterIds}
IfaceAddresses == Int \X (Nat \ {0})
Partial(X, S) == UNION {[D -> S] : D \in SUBSET X}
IfaceMaps == Partial(Ports, IfaceAddresses)
HostAddresses == Int \X Nat
Routes == [hop : {Public[r] : r \in RouterIds}, vpn : BOOLEAN]

Pools == [net : Lans, Assigned : Partial(HostIds, Lans \X Nat)]

(* What a file holds.                                                      *)
Snapshots ==
    [routers : Partial(RouterIds, [Interfaces : IfaceMaps, routes : SUBSET Routes]),
     hosts : Partial(HostIds, [ip : HostAddresses \cup {Absent}, uplink : Devices \cup {Absent}]),
     switches : SUBSET SwitchIds, links : Seq(Cables)]

(* The same of one file, written for TLC.                                  *)
IsMap(f, D, S) == DOMAIN f \subseteq D /\ f \in [DOMAIN f -> S]
IsSnapshot(f) ==
    /\ f = [routers |-> f.routers, hosts |-> f.hosts, switches |-> f.switches, links |-> f.links]
    /\ f.routers = [r \in DOMAIN f.routers |-> f.routers[r]] /\ DOMAIN f.routers \subseteq RouterIds
    /\ \A r \in DOMAIN f.routers :
          /\ f.routers[r] = [Interfaces |-> f.routers[r].Interfaces, routes |-> f.routers[r].routes]
          /\ IsMap(f.routers[r].Interfaces, Ports, IfaceAddresses) /\ f.routers[r].routes \subseteq Routes
    /\ IsMap(f.hosts, HostIds, [ip : HostAddresses \cup {Absent}, uplink : Devices \cup {Absent}])
    /\ f.switches \subseteq SwitchIds /\ f.links \in Seq(Cables)

(* Routers have the addresses they were added with.                        *)
Addressed(routers) ==
    \A r \in DOMAIN routers : \A p \in DOMAIN Iface0[r] :
        p \in DOMAIN routers[r].Interfaces /\ routers[r].Interfaces[p] = Iface0[r][p]

(* Every other address is of the /30 of a link at its port.                *)
LinkNumbered(routers, links) ==
    \A r \in DOMAIN routers : \A p \in DOMAIN routers[r].Interfaces \ DOMAIN Iface0[r] :
        \E i \in DOMAIN links :
            routers[r].Interfaces[p][1] = i /\ <<r, p>> \in Ends(links[i])

(* A lab that was saved before any device or link was removed, with its    *)
(* routers cabled after both were added.                                   *)
CompleteFile(f) ==
    /\ IsSnapshot(f)
    /\ Addressed(f.routers) /\ LinkNumbered(f.routers, f.links)
    /\ \A i \in DOMAIN f.links : f.links[i].src \in DOMAIN f.routers /\ f.links[i].dst \in DOMAIN f.routers =>
          \A e \in Ends(f.links[i]) : e[2] \in DOMAIN f.routers[e[1]].Interfaces
    /\ \A r \in DOMAIN f.routers : \A q \in f.routers[r].routes : \E x \in DOMAIN f.routers : q.hop = Public[x]

Saved(f) == IF f = Absent THEN 0 ELSE Len(f.links)

ASSUME LabAssumption ==
    /\ MaxCommands \in Nat /\ MaxCrashes \in Nat
    /\ Lans \subseteq {n \in Int : n <= 0}
    /\ \A c \in Cables :
          /\ c = Link(c.id, c.src, c.sport, c.dst, c.dport)
          /\ c.src \in Devices /\ c.dst \in Devices /\ c.src # c.dst
    /\ \A r \in RouterIds :
          /\ Iface0[r] \in [DOMAIN Iface0[r] -> IfaceAddresses]
          /\ Public[r] \in Range(Iface0[r])
    /\ \A f \in Files : f = Absent \/ CompleteFile(f)
    /\ Absent \notin Snapshots /\ Broken \notin Snapshots /\ Absent # Broken
    /\ Absent \notin RouterIds
    /\ NoPool \notin Pools

(* No router is added with an address of a network that links get.         *)
ASSUME NetworksAssumption ==
    \A f \in Files, r \in RouterIds :
        \A p \in DOMAIN Iface0[r] : Iface0[r][p][1] \notin 1..(Saved(f) + MaxCommands)

NoLab == [routers |-> <<>>, hosts |-> <<>>, switches |-> {}, links |-> <<>>]

VARIABLES
    lab,       \* the manager's routers, hosts, switches and links
    file,      \* the file topologies are saved to
    saving,    \* the snapshot being written, or Absent
    negs,      \* goroutines of TryAutoNegotiateIKE
    offers,    \* addresses HostDHCPRequest has yet to configure on a host
    commands, crashes,
    changed,   \* history: a device or a link was removed, replaced or loaded
    loaded,    \* history: a file was loaded
    late       \* history: peers a goroutine activated after their removal

labVars == <<lab, file, saving, negs, offers, commands, crashes, changed, loaded, late>>

-----------------------------------------------------------------------------
(* Devices and links.                                                      *)

NewRouter(ifaces) ==
    [Interfaces |-> ifaces, PortNeighbors |-> <<>>, routes |-> {}, IKEPeers |-> {},
     crypto |-> {}, pool |-> NoPool]
NewHost(ip, uplink) == [ip |-> ip, uplink |-> uplink, from |-> Absent]

Put(f, x, v) == [y \in DOMAIN f \cup {x} |-> IF y = x THEN v ELSE f[y]]
IsRouter(l, d) == d \in DOMAIN l.routers

(* Mutant: every link gets the first /30.                                  *)
MutAssignLinkAddress(router, port, index, end) ==
    IF port \in DOMAIN router.Interfaces THEN router
    ELSE [router EXCEPT !.Interfaces = Put(@, port, <<1, end>>)]

(* A port that has an address keeps it.                                    *)
AssignLinkAddress(router, port, index, end) ==
    IF port \in DOMAIN router.Interfaces THEN router
    ELSE [router EXCEPT !.Interfaces = Put(@, port, <<index, end>>)]

SetNeighbor(router, port, remote, rport, ip) ==
    [router EXCEPT !.PortNeighbors = Put(@, port, [router |-> remote, port |-> rport, ip |-> ip])]

(* The /30 comes from the number of links there are.                       *)
ApplyToRouters(l, c) ==
    IF ~(IsRouter(l, c.src) /\ IsRouter(l, c.dst)) THEN l.routers
    ELSE LET s == AssignLinkAddress(l.routers[c.src], c.sport, Len(l.links), 1)
             d == AssignLinkAddress(l.routers[c.dst], c.dport, Len(l.links), 2)
         IN  [l.routers EXCEPT
                ![c.src] = SetNeighbor(s, c.sport, c.dst, c.dport, d.Interfaces[c.dport]),
                ![c.dst] = SetNeighbor(d, c.dport, c.src, c.sport, s.Interfaces[c.sport])]

SetUplinks(l, c) ==
    [h \in DOMAIN l.hosts |->
        CASE h = c.src -> [l.hosts[h] EXCEPT !.uplink = c.dst]
          [] h = c.dst -> [l.hosts[h] EXCEPT !.uplink = c.src]
          [] OTHER -> l.hosts[h]]

applyLinkState(l, c) == [l EXCEPT !.routers = ApplyToRouters(l, c), !.hosts = SetUplinks(l, c)]

(* go TryAutoNegotiateIKE, for a link between two routers.                 *)
Spawned(l, links) ==
    {[src |-> c.src, dst |-> c.dst, at |-> "look", srcLive |-> TRUE, dstLive |-> TRUE] :
        c \in {c \in Range(links) : IsRouter(l, c.src) /\ IsRouter(l, c.dst)}}

AddLink(l, c) == applyLinkState([l EXCEPT !.links = Append(@, c)], c)

(* Filtered: a new slice with the links that stay.                         *)
Without(links, gone) ==
    LET filtered[i \in 0..Len(links)] ==
            IF i = 0 THEN <<>>
            ELSE IF links[i] \in gone THEN filtered[i - 1] ELSE Append(filtered[i - 1], links[i])
    IN  filtered[Len(links)]
RemoveLink(l, id) == [l EXCEPT !.links = Without(@, {c \in Cables : c.id = id})]

(* Mutant: only the end a link was drawn from is looked at.                *)
MutResolveLinkPeer(l, end) ==
    {<<c.dst, c.dport>> : c \in {c \in Range(l.links) : <<c.src, c.sport>> = end}}

(* ResolveLinkPeer: the first link that has the port on either end.        *)
EndsOf(c) == {<<<<c.src, c.sport>>, <<c.dst, c.dport>>>>, <<<<c.dst, c.dport>>, <<c.src, c.sport>>>>}
ResolveLinkPeer(l, end) ==
    LET hits == {i \in DOMAIN l.links : \E e \in EndsOf(l.links[i]) : e[1] = end}
    IN  {e[2] : e \in {e \in UNION {EndsOf(l.links[i]) : i \in {i \in hits : \A j \in hits : i <= j}} :
                          e[1] = end}}

collectDeviceIPs(l, d) ==
    IF IsRouter(l, d) THEN Range(l.routers[d].Interfaces)
    ELSE IF d \in DOMAIN l.hosts THEN {l.hosts[d].ip} ELSE {}

(* purgeRouterReferencesLocked, as far as it concerns state kept here.     *)
PurgeNeighbors(router, d) ==
    Restrict(router.PortNeighbors, {p \in DOMAIN router.PortNeighbors : router.PortNeighbors[p].router # d})
(* Mutant: the routes by the removed device stay.                          *)
MutPurgeRoutes(router, ips) == router.routes
PurgeRoutes(router, ips) == {q \in router.routes : q.hop \notin ips}
(* Mutant: the tunnels to the removed device stay.                         *)
MutPurgePeers(router, ips) == router.IKEPeers
PurgePeers(router, ips) == router.IKEPeers \ ips
Purge(router, d, ips) ==
    [router EXCEPT !.PortNeighbors = PurgeNeighbors(router, d), !.routes = PurgeRoutes(router, ips),
                   !.IKEPeers = PurgePeers(router, ips)]

RemoveDevice(l, d) ==
    LET ips == collectDeviceIPs(l, d)
    IN  [routers |-> [r \in DOMAIN l.routers \ {d} |-> Purge(l.routers[r], d, ips)],
         hosts |-> Restrict(l.hosts, DOMAIN l.hosts \ {d}),
         switches |-> l.switches \ {d},
         links |-> Without(l.links, {c \in Cables : d \in {c.src, c.dst}})]

-----------------------------------------------------------------------------
(* Snapshots keep the interfaces and static routes of routers.             *)

SnapshotRouter(router) == [Interfaces |-> router.Interfaces, routes |-> router.routes]
SnapshotHost(host) == [ip |-> host.ip, uplink |-> host.uplink]
ExportSnapshot(l) ==
    [routers |-> [r \in DOMAIN l.routers |-> SnapshotRouter(l.routers[r])],
     hosts |-> [h \in DOMAIN l.hosts |-> SnapshotHost(l.hosts[h])],
     switches |-> l.switches, links |-> l.links]

(* Mutant: static routes are not taken back.                               *)
MutRestoreRouter(snap) == NewRouter(snap.Interfaces)
RestoreRouter(snap) == [NewRouter(snap.Interfaces) EXCEPT !.routes = snap.routes]
RestoreHost(snap) == NewHost(snap.ip, snap.uplink)
Restored(snap) ==
    [routers |-> [r \in DOMAIN snap.routers |-> RestoreRouter(snap.routers[r])],
     hosts |-> [h \in DOMAIN snap.hosts |-> RestoreHost(snap.hosts[h])],
     switches |-> snap.switches, links |-> snap.links]

(* All links are in place before the first is applied.                     *)
ImportSnapshot(snap) ==
    LET applied[i \in 0..Len(snap.links)] ==
            IF i = 0 THEN Restored(snap) ELSE applyLinkState(applied[i - 1], snap.links[i])
    IN  applied[Len(snap.links)]

-----------------------------------------------------------------------------
LabInit ==
    /\ file \in Files
    /\ lab = IF file = Absent THEN NoLab ELSE ImportSnapshot(file)
    /\ saving = Absent /\ offers = {}
    /\ negs = IF file = Absent THEN {} ELSE Spawned(lab, lab.links)
    /\ commands = 0 /\ crashes = 0 /\ changed = FALSE /\ loaded = (file # Absent) /\ late = {}

Command == commands < MaxCommands /\ commands' = commands + 1 /\ UNCHANGED crashes

(* Objects leave the maps: who holds one works on without effect.          *)
Orphaned(gs, ds) == {[g EXCEPT !.srcLive = @ /\ g.src \notin ds, !.dstLive = @ /\ g.dst \notin ds] : g \in gs}
Stranded(os, ds) == {[o EXCEPT !.live = @ /\ o.host \notin ds] : o \in os}
(* The pools of routers rs are gone or new: leases of before are history.  *)
Forget(os, rs) == {[o EXCEPT !.from = IF @ \in rs THEN Absent ELSE @] : o \in os}
ForgetLeases(hosts, rs) ==
    [h \in DOMAIN hosts |-> IF hosts[h].from \in rs THEN [hosts[h] EXCEPT !.from = Absent] ELSE hosts[h]]

NoFile == UNCHANGED <<file, saving>>

ADD_ROUTER(r) ==
    /\ Command
    /\ lab' = [lab EXCEPT !.routers = Put(@, r, NewRouter(Iface0[r])), !.hosts = ForgetLeases(@, {r})]
    /\ negs' = Orphaned(negs, {r}) /\ offers' = Forget(offers, {r})
    /\ changed' = (changed \/ IsRouter(lab, r))
    /\ UNCHANGED <<loaded, late>> /\ NoFile

ADD_SWITCH(s) ==
    /\ Command
    /\ lab' = [lab EXCEPT !.switches = @ \cup {s}]
    /\ UNCHANGED <<negs, offers, changed, loaded, late>> /\ NoFile

ADD_HOST(h) ==
    /\ Command
    /\ lab' = [lab EXCEPT !.hosts = Put(@, h, NewHost(Absent, Absent))]
    /\ offers' = Stranded(offers, {h})
    /\ UNCHANGED <<negs, changed, loaded, late>> /\ NoFile

CONNECT_LINK(c) ==
    /\ Command /\ c \notin Range(lab.links)
    /\ lab' = AddLink(lab, c)
    /\ negs' = negs \cup Spawned(lab, <<c>>)
    /\ UNCHANGED <<offers, changed, loaded, late>> /\ NoFile

REMOVE_LINK(id) ==
    /\ Command /\ \E i \in DOMAIN lab.links : lab.links[i].id = id
    /\ lab' = RemoveLink(lab, id)
    /\ changed' = TRUE
    /\ UNCHANGED <<negs, offers, loaded, late>> /\ NoFile

REMOVE_DEVICE(d) ==
    /\ Command /\ d \in DOMAIN lab.routers \cup DOMAIN lab.hosts \cup lab.switches
    /\ lab' = LET l == RemoveDevice(lab, d) IN [l EXCEPT !.hosts = ForgetLeases(@, {d})]
    /\ negs' = Orphaned(negs, {d}) /\ offers' = Stranded(Forget(offers, {d}), {d})
    /\ changed' = TRUE
    /\ UNCHANGED <<loaded, late>> /\ NoFile

Owned(l, a) == \E r \in DOMAIN l.routers : a \in Range(l.routers[r].Interfaces)

(* A static route by the public address of another router.                 *)
ADD_STATIC_ROUTE(r, q) ==
    /\ Command /\ IsRouter(lab, r) /\ IsRouter(lab, q)
    /\ lab' = [lab EXCEPT !.routers[r].routes = @ \cup {[hop |-> Public[q], vpn |-> FALSE]}]
    /\ UNCHANGED <<negs, offers, changed, loaded, late>> /\ NoFile

(* The crypto map and the key for the tunnel to router q.                  *)
ConfigureTunnel(r, q) ==
    /\ Command /\ IsRouter(lab, r)
    /\ lab' = [lab EXCEPT !.routers[r].crypto = @ \cup {q}]
    /\ UNCHANGED <<negs, offers, changed, loaded, late>> /\ NoFile

-----------------------------------------------------------------------------
(* TryAutoNegotiateIKE, lock by lock.                                      *)

GoOn(g, w) == negs' = (negs \ {g}) \cup {w}
End(g) == negs' = negs \ {g}
NegOnly == UNCHANGED <<offers, commands, crashes, changed, loaded>> /\ NoFile

LookUp(g) ==
    /\ g.at = "look"
    /\ IF /\ IsRouter(lab, g.src) /\ IsRouter(lab, g.dst)
          /\ g.dst \in lab.routers[g.src].crypto /\ g.src \in lab.routers[g.dst].crypto
       THEN GoOn(g, [g EXCEPT !.at = "src", !.srcLive = TRUE, !.dstLive = TRUE])
       ELSE End(g)
    /\ UNCHANGED <<lab, late>> /\ NegOnly

(* activatePeer on an object that may be in the maps no more.              *)
Activate(g, r, live, peer, next) ==
    /\ lab' = IF live THEN [lab EXCEPT !.routers[r].IKEPeers = @ \cup {Public[peer]}] ELSE lab
    /\ late' = IF live /\ ~IsRouter(lab, peer) THEN late \cup {Public[peer]} ELSE late
    /\ GoOn(g, [g EXCEPT !.at = next]) /\ NegOnly
ActivateSource(g) == g.at = "src" /\ Activate(g, g.src, g.srcLive, g.dst, "dst")
ActivateTarget(g) == g.at = "dst" /\ Activate(g, g.dst, g.dstLive, g.src, "srcRoutes")

VPNRoutes(router) == {[hop |-> a, vpn |-> TRUE] : a \in router.IKEPeers}
(* InstallVPNRoutes looks the router up by its name.                       *)
InstallVPNRoutes(r) ==
    lab' = IF IsRouter(lab, r)
           THEN [lab EXCEPT !.routers[r].routes = @ \cup VPNRoutes(lab.routers[r])] ELSE lab
InstallSource(g) ==
    /\ g.at = "srcRoutes" /\ InstallVPNRoutes(g.src)
    /\ GoOn(g, [g EXCEPT !.at = "dstRoutes"]) /\ UNCHANGED late /\ NegOnly
InstallTarget(g) ==
    /\ g.at = "dstRoutes" /\ InstallVPNRoutes(g.dst)
    /\ End(g) /\ UNCHANGED late /\ NegOnly

-----------------------------------------------------------------------------
(* DHCP.                                                                   *)

CONFIG_DHCP_POOL(r, net) ==
    /\ Command /\ IsRouter(lab, r)
    /\ lab' = [lab EXCEPT !.routers[r].pool = AddDHCPPool(net), !.hosts = ForgetLeases(@, {r})]
    /\ offers' = Forget(offers, {r})
    /\ UNCHANGED <<negs, changed, loaded, late>> /\ NoFile

PoolNetwork(r, net) ==
    /\ Command /\ IsRouter(lab, r)
    /\ lab' = [lab EXCEPT !.routers[r].pool = SetDHCPPoolNetwork(@, net)]
    /\ UNCHANGED <<negs, offers, changed, loaded, late>> /\ NoFile

(* HostDHCPRequest asks the uplink, or any router when that is none, on a  *)
(* port with a LAN address, or any when there is none.                     *)
Servers(h) ==
    LET up == lab.hosts[h].uplink
    IN  IF up = Absent THEN {} ELSE IF IsRouter(lab, up) THEN {up} ELSE DOMAIN lab.routers
InPorts(r) ==
    LET ifaces == lab.routers[r].Interfaces
        onLan == {p \in DOMAIN ifaces : ifaces[p][1] <= 0}
    IN  IF onLan = {} THEN DOMAIN ifaces ELSE onLan
Serves(r, p) ==
    LET router == lab.routers[r]
    IN  router.pool # NoPool /\ router.Interfaces[p][1] = router.pool.net

HOST_DHCP(h) ==
    /\ Command /\ h \in DOMAIN lab.hosts
    /\ \E r \in Servers(h) : \E p \in InPorts(r) :
        /\ Serves(r, p)
        /\ \E a \in Lease(lab.routers[r].pool, h, Range(lab.routers[r].Interfaces)) :
            /\ lab' = [lab EXCEPT !.routers[r].pool = Assign(@, h, a)]
            /\ offers' = offers \cup {[host |-> h, ip |-> a, from |-> r, live |-> TRUE]}
    /\ UNCHANGED <<negs, changed, loaded, late>> /\ NoFile

ConfigureHost(o) ==
    /\ lab' = IF o.live THEN [lab EXCEPT !.hosts[o.host] = [@ EXCEPT !.ip = o.ip, !.from = o.from]] ELSE lab
    /\ offers' = offers \ {o}
    /\ UNCHANGED <<negs, commands, crashes, changed, loaded, late>> /\ NoFile

(* Mutant: the write fails and the file stays empty.                       *)
MutWriteFile ==
    /\ saving # Absent /\ saving' = Absent
    /\ UNCHANGED <<file, lab, negs, offers, commands, crashes, changed, loaded, late>>

-----------------------------------------------------------------------------
(* SAVE_TOPOLOGY takes a snapshot under the lock, and os.WriteFile empties *)
(* the file before it writes it.                                           *)
SAVE_TOPOLOGY ==
    /\ Command /\ saving = Absent
    /\ saving' = ExportSnapshot(lab) /\ file' = Broken
    /\ UNCHANGED <<lab, negs, offers, changed, loaded, late>>

WriteFile ==
    /\ saving # Absent
    /\ file' = saving /\ saving' = Absent
    /\ UNCHANGED <<lab, negs, offers, commands, crashes, changed, loaded, late>>

(* A file that does not parse changes nothing.                             *)
LOAD_TOPOLOGY ==
    /\ Command /\ file \notin {Absent, Broken}
    /\ lab' = ImportSnapshot(file)
    /\ negs' = Orphaned(negs, RouterIds) \cup Spawned(lab', lab'.links)
    /\ offers' = Stranded(Forget(offers, RouterIds), HostIds)
    /\ changed' = TRUE /\ loaded' = TRUE
    /\ UNCHANGED late /\ NoFile

(* The process ends and starts again: the file is all that is left.        *)
Crash ==
    /\ crashes < MaxCrashes /\ crashes' = crashes + 1
    /\ lab' = NoLab /\ negs' = {} /\ offers' = {} /\ saving' = Absent
    /\ UNCHANGED <<file, commands, changed, loaded, late>>

LabNext ==
    \/ \E r \in RouterIds : ADD_ROUTER(r)
    \/ \E s \in SwitchIds : ADD_SWITCH(s)
    \/ \E h \in HostIds : ADD_HOST(h) \/ HOST_DHCP(h)
    \/ \E c \in Cables : CONNECT_LINK(c) \/ REMOVE_LINK(c.id)
    \/ \E d \in RouterIds \cup HostIds \cup SwitchIds : REMOVE_DEVICE(d)
    \/ \E r, q \in RouterIds : r # q /\ (ADD_STATIC_ROUTE(r, q) \/ ConfigureTunnel(r, q))
    \/ \E r \in RouterIds, n \in Lans : CONFIG_DHCP_POOL(r, n) \/ PoolNetwork(r, n)
    \/ \E g \in negs : LookUp(g) \/ ActivateSource(g) \/ ActivateTarget(g) \/ InstallSource(g) \/ InstallTarget(g)
    \/ \E o \in offers : ConfigureHost(o)
    \/ SAVE_TOPOLOGY \/ WriteFile \/ LOAD_TOPOLOGY \/ Crash

LabSpec == LabInit /\ [][LabNext]_labVars

-----------------------------------------------------------------------------
(* Properties.                                                             *)

(* Every value has its type, and leases are to hosts.                      *)
LabTypeOK ==
    /\ DOMAIN lab.routers \subseteq RouterIds /\ DOMAIN lab.hosts \subseteq HostIds
    /\ lab.switches \subseteq SwitchIds /\ Range(lab.links) \subseteq Cables
    /\ \A r \in DOMAIN lab.routers :
          /\ lab.routers[r].IKEPeers \subseteq {Public[q] : q \in RouterIds}
          /\ lab.routers[r].pool # NoPool => DOMAIN lab.routers[r].pool.Assigned \subseteq HostIds
    /\ \A h \in DOMAIN lab.hosts : lab.hosts[h].from \in RouterIds \cup {Absent}
    /\ \A o \in offers : o.host \in HostIds /\ o.from \in RouterIds \cup {Absent}
    /\ commands \in 0..MaxCommands /\ crashes \in 0..MaxCrashes

(* HandleDHCPDiscover and SetDHCPPoolNetwork keep the leases of a pool     *)
(* apart, and from the router's own addresses, except that the network's   *)
(* own address goes to every client of an exhausted pool.                  *)
LeasesDistinct ==
    \A r \in DOMAIN lab.routers : lab.routers[r].pool # NoPool =>
        LET router == lab.routers[r]
        IN  /\ Distinct(router.pool)
            /\ \A c \in DOMAIN router.pool.Assigned :
                  router.pool.Assigned[c] \notin Range(router.Interfaces)

(* Two hosts have the same address only when it is the network's own or    *)
(* their leases are not of the same pool: the pool was configured again,   *)
(* its router replaced, removed or loaded.                                 *)
HostsDistinct ==
    \A h, k \in DOMAIN lab.hosts :
        /\ h # k /\ lab.hosts[h].ip # Absent /\ lab.hosts[h].ip = lab.hosts[k].ip
        /\ lab.hosts[h].from # Absent /\ lab.hosts[h].from = lab.hosts[k].from
        => lab.hosts[h].ip[2] = 0

(* AssignLinkAddress takes the /30 from the number of links: until a       *)
(* device or a link is removed, replaced or loaded, two links on ports of  *)
(* their own, which had no address, are on different networks, and the     *)
(* ends of one on the same.                                                *)
NetsOf(c) ==
    {lab.routers[e[1]].Interfaces[e[2]][1] :
        e \in {e \in Ends(c) : IsRouter(lab, e[1]) /\ e[2] \in DOMAIN lab.routers[e[1]].Interfaces}}
RouterLink(c) == IsRouter(lab, c.src) /\ IsRouter(lab, c.dst)
OwnPorts(i) ==
    /\ \A j \in DOMAIN lab.links \ {i} : Ends(lab.links[i]) \cap Ends(lab.links[j]) = {}
    /\ \A e \in Ends(lab.links[i]) : e[2] \notin DOMAIN Iface0[e[1]]
FreshLinksSound ==
    ~changed =>
        \A i \in DOMAIN lab.links : RouterLink(lab.links[i]) /\ OwnPorts(i) =>
            /\ \A m, n \in NetsOf(lab.links[i]) : m = n
            /\ \A j \in DOMAIN lab.links \ {i} : RouterLink(lab.links[j]) =>
                  NetsOf(lab.links[i]) \cap NetsOf(lab.links[j]) = {}

(* Who has which address: no lease, host address or link network twice.    *)
AddressesSound == LabTypeOK /\ LeasesDistinct /\ HostsDistinct /\ FreshLinksSound

(* ResolveLinkPeer leads back, unless the port is in two links, which      *)
(* AddLink does not refuse.                                                *)
PeerLeadsBack ==
    \A i \in DOMAIN lab.links : \A e \in Ends(lab.links[i]) : \A f \in ResolveLinkPeer(lab, e) :
        \/ e \in ResolveLinkPeer(lab, f)
        \/ \E j, k \in DOMAIN lab.links : j # k /\ f \in Ends(lab.links[j]) \cap Ends(lab.links[k])

(* RemoveDevice clears what other routers know of the device: tunnels and  *)
(* their routes lead to addresses of the lab, unless the goroutine of      *)
(* TryAutoNegotiateIKE held the device and activated the peer late.        *)
PeersExist ==
    \A r \in DOMAIN lab.routers :
        \A a \in lab.routers[r].IKEPeers \cup {q.hop : q \in lab.routers[r].routes} :
            Owned(lab, a) \/ a \in late

(* A route by a tunnel is there only with the tunnel, unless a file was    *)
(* loaded: the snapshot keeps the route as a static one and the tunnel not.*)
RoutesHaveTunnels ==
    \A r \in DOMAIN lab.routers : \A q \in lab.routers[r].routes :
        q.vpn => q.hop \in lab.routers[r].IKEPeers \/ loaded

(* What points to what: cables lead back, tunnels and their routes lead to *)
(* devices that are there.                                                 *)
ReferencesSound == PeerLeadsBack /\ PeersExist /\ RoutesHaveTunnels

(* ImportSnapshot of what ExportSnapshot has just written: interfaces,     *)
(* static routes, host addresses and links are as they were; pools and     *)
(* their leases, tunnels and keys are gone.                                *)
RoundTrip ==
    [][LOAD_TOPOLOGY /\ file = ExportSnapshot(lab) =>
         /\ lab'.links = lab.links /\ lab'.switches = lab.switches
         /\ DOMAIN lab'.hosts = DOMAIN lab.hosts /\ DOMAIN lab'.routers = DOMAIN lab.routers
         /\ \A h \in DOMAIN lab.hosts : lab'.hosts[h].ip = lab.hosts[h].ip
         /\ \A r \in DOMAIN lab.routers :
               /\ \A p \in DOMAIN lab.routers[r].Interfaces :
                     /\ p \in DOMAIN lab'.routers[r].Interfaces
                     /\ lab'.routers[r].Interfaces[p] = lab.routers[r].Interfaces[p]
               /\ lab'.routers[r].routes = lab.routers[r].routes
               /\ lab'.routers[r].pool = NoPool /\ lab'.routers[r].crypto = {}
               /\ lab'.routers[r].IKEPeers = {}]_labVars

(* SAVE_TOPOLOGY empties the file first: a file that cannot be loaded is   *)
(* being written, or a crash cut a save, which loses the lab of before.    *)
FileUsable == file = Broken => saving # Absent \/ crashes > 0

(* What saving and loading keep, and when the file is lost.                *)
SavesSound == []FileUsable /\ RoundTrip
=============================================================================
