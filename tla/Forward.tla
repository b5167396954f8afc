------------------------------ MODULE Forward ------------------------------
(***************************************************************************)
(* The way of an IPv4 packet through one router: dataplane.go              *)
(* (handleRouterIP, forwardIPFromRouter) with the access lists and the     *)
(* address translation of router_services.go and the tunnels of ipsec.go.  *)
(*                                                                         *)
(* The stages take the router's lock one after the other, so the           *)
(* configuration, which connection goroutines change, may differ from      *)
(* stage to stage.  Two goroutines push packets through: the simulation    *)
(* loop those that arrive, a connection the router's own pings.  A packet  *)
(* whose next hop is not resolved waits in the form it has by then,        *)
(* translated and encrypted, and goes through all the output stages again  *)
(* when the ARP reply is in.                                               *)
(*                                                                         *)
(* A network is the set of addresses in it.  Frames are delivered in any   *)
(* order, ARP entries do not expire (module Arp) and no QoS policy is      *)
(* attached.                                                               *)
(***************************************************************************)
EXTENDS Integers, Sequences, FiniteSets, Functions

CONSTANTS
    Ports, Addrs,
    Uplinks,     \* ports translated and tunnelled on, and shut down
    Filters,     \* pairs of a port and a direction lists are applied to
    IfAddr,      \* IfAddr[p]: the router's address on port p
    Inside,      \* the private addresses
    Neighbours,  \* the addresses that answer ARP requests
    Servers,     \* the addresses that answer echo requests
    Nets,        \* the networks of routes and rules
    PrefixLen,   \* PrefixLen[n]: the prefix length of n
    Routes0,     \* the routing table before tunnels are negotiated
    Traffic,     \* what happens: the frames that arrive, port and packet,
                 \* and the addresses the router is told to ping
    Arriving,    \* the packets of those frames, and those in ESP packets
    ACLs, Rules, \* names and entries of the access lists
    Statics,     \* pairs of inside and global address for static NAT
    Entries,     \* entries of the crypto map
    PSKs,        \* pre-shared keys, None for a request that names none
    LocalKey, RemoteKey, RemoteKeyOfItself, \* keys the two routers know
    MaxSetup,    \* bound: configuration commands before the first packet
    MaxEdits,    \* bound: configuration commands after it
    None

NoPort == "no port"
Loop == "loop"
Conn == "conn"
Threads == {Loop, Conn}

(* A packet: kind is echo, reply, udp or esp; an ESP packet carries one    *)
(* packet in inner.  The id says which arrival it comes from.              *)
Packet(id, src, dst, kind, ttl) ==
    [id |-> id, src |-> src, dst |-> dst, kind |-> kind, ttl |-> ttl, inner |-> <<>>]

(* Where routes come from.                                                 *)
Protocols == {"connected", "static", "rip", "ospf", "eigrp", "bgp"}

ASSUME ForwardAssumption ==
    /\ IfAddr \in [Ports -> Addrs] /\ Uplinks \subseteq Ports
    /\ Filters \subseteq Ports \X {"in", "out"}
    /\ Inside \subseteq Addrs /\ Neighbours \subseteq Addrs /\ Servers \subseteq Addrs
    /\ Nets \subseteq SUBSET Addrs
    /\ PrefixLen \in [Nets -> Nat]
    /\ Routes0 \in Seq([net : Nets, dist : Nat, hop : Addrs \cup {None}, port : Ports, proto : Protocols])
    /\ \A s \in Traffic : /\ s.pings \subseteq Addrs
                          /\ \A f \in s.frames : f.port \in Ports /\ f.pkt \in Arriving
    /\ \A k \in Arriving :
          /\ k.src \in Addrs /\ k.dst \in Addrs
          /\ k = [Packet(k.id, k.src, k.dst, k.kind, k.ttl) EXCEPT !.inner = k.inner]
          /\ k.kind = "esp" => \E r \in Arriving : k.inner = <<r>> /\ r.id = k.id
    /\ \A e \in Entries : e.acl \in ACLs \cup {None} /\ e.peer \in Addrs /\ e.remote \in Nets
    /\ \A p \in Uplinks : IfAddr[p] \notin Inside
    /\ Statics \subseteq Addrs \X Addrs
    /\ MaxSetup \in Nat /\ MaxEdits \in Nat
    /\ None \notin ACLs /\ None \notin Addrs
    /\ NoPort \notin Ports

VARIABLES
    IfacePolicies, \* per port: up, inbound and outbound list, NAT outside
    acl,           \* acl[a]: the entries of access list a, in order
    static,        \* the static translations, in order
    Overload,      \* whether PAT is on
    PAT,           \* the PAT entries: inside local -> inside global
    RoutingTable,
    CryptoMap,     \* the entries of the crypto map, in order
    IfaceCryptoMap,\* the ports the crypto map is applied to
    IKEPeers,      \* active peers: peer address -> the subnet behind it
    installing,    \* peers negotiated whose routes are not installed yet
    ArpCache, PacketQueue,
    asked,         \* ARP requests on the wire
    traffic,       \* the member of Traffic that happens
    rx,            \* packets on the wire to the router
    work,          \* work[t]: the packet thread t is at, and its stage
    backlog,       \* packets the loop dequeued and has yet to forward
    toPing,        \* addresses the router has yet to be told to ping
    sent,          \* history: the frames sent
    waited,        \* history: ids of packets that waited for ARP
    touched,       \* history: ids of packets under way during a change
    setup, edits   \* configuration commands before and after the first packet

conf == <<IfacePolicies, acl, static, Overload, CryptoMap, IfaceCryptoMap>>
vars == <<conf, PAT, RoutingTable, IKEPeers, installing, ArpCache, PacketQueue, asked,
          traffic, rx, work, backlog, toPing, sent, waited, touched, setup, edits>>

Idle == [at |-> "idle"]

-----------------------------------------------------------------------------
(* Interfaces, access lists and routes.                                    *)

DefaultPolicy == [up |-> TRUE, in |-> None, out |-> None, outside |-> FALSE]

IsInterfaceUp(p) == p \in Ports => IfacePolicies[p].up
NATOutside(p) == p \in Ports /\ IfacePolicies[p].outside
InboundACL(p) == IfacePolicies[p].in
OutboundACL(p) == IF p \in Ports THEN IfacePolicies[p].out ELSE None

(* An interface list knows icmp and ip; the list of a crypto map also udp. *)
AclProto(k) == IF k \in {"echo", "reply"} THEN "icmp" ELSE "ip"
CryptoProto(k) == IF k = "udp" THEN "udp" ELSE AclProto(k)

MatchesRule(rule, proto, k) ==
    /\ rule.proto \in {"ip", proto}
    /\ k.src \in rule.src
    /\ k.dst \in rule.dst

(* The first entry that matches decides; no entry, no list or an empty     *)
(* one.                                                                    *)
FirstMatchPermits(a, proto, k) ==
    LET hits == {i \in 1..Len(acl[a]) : MatchesRule(acl[a][i], proto, k)}
    IN  \/ acl[a] = <<>>
        \/ \E i \in hits : acl[a][i].permit /\ \A j \in hits : i <= j

EvaluateACL(a, k) == a # None => FirstMatchPermits(a, AclProto(k.kind), k)

OwnsIP(a) == \E p \in Ports : IfAddr[p] = a

(* Packets are told apart by their ids, and no echo request arrives from   *)
(* an address that is the router's or that it gives to a host.             *)
ASSUME SourcesAssumption ==
    \A k \in Arriving :
        /\ \A a \in Addrs : k.id # <<"ping", a>>
        /\ \A j \in Arriving : k.id # <<"re", j.id>>
        /\ k.kind = "echo" => ~OwnsIP(k.src) /\ \A pair \in Statics : k.src # pair[2]

(* An edge router: private addresses are on networks connected to it, the  *)
(* servers are behind the one port translated on, static translation is    *)
(* for private addresses, and no frame and no packet in ESP is transit.    *)
EdgeRouter ==
    /\ \A p, q \in Uplinks : p = q
    /\ \A a \in Inside : \E i \in DOMAIN Routes0 :
          /\ Routes0[i].proto = "connected" /\ a \in Routes0[i].net /\ Routes0[i].port \notin Uplinks
          /\ \A j \in DOMAIN Routes0 : a \in Routes0[j].net /\ Routes0[j].port \in Uplinks =>
                PrefixLen[Routes0[j].net] < PrefixLen[Routes0[i].net]
    /\ \A a \in Servers :
          /\ a \notin Inside /\ ~OwnsIP(a) /\ \A pair \in Statics : a # pair[2]
          /\ \A i \in DOMAIN Routes0 : a \in Routes0[i].net => Routes0[i].port \in Uplinks
    /\ \A pair \in Statics : pair[1] \in Inside
    /\ \A s \in Traffic : \A f \in s.frames :
          f.pkt.src \in Inside \/ f.pkt.dst \in Inside \/ OwnsIP(f.pkt.dst)
    /\ \A k \in Arriving : k.kind = "esp" =>
          k.inner[1].src \in Inside \/ k.inner[1].dst \in Inside

(* The longest prefix, then the smaller distance, then the earlier entry.  *)
MatchRoute(a) ==
    LET m == {i \in 1..Len(RoutingTable) : a \in RoutingTable[i].net}
        len(i) == PrefixLen[RoutingTable[i].net]
        dist(i) == RoutingTable[i].dist
    IN  {RoutingTable[i] : i \in {i \in m : \A j \in m \ {i} :
            \/ len(i) > len(j)
            \/ len(i) = len(j) /\ dist(i) < dist(j)
            \/ len(i) = len(j) /\ dist(i) = dist(j) /\ i < j}}

(* A route to the same network by the same protocol is replaced.           *)
AddRoute(table, r) ==
    LET same == {i \in 1..Len(table) : table[i].net = r.net /\ table[i].proto = r.proto}
    IN  IF same = {} THEN Append(table, r)
        ELSE [i \in DOMAIN table |-> IF i \in same THEN r ELSE table[i]]

-----------------------------------------------------------------------------
(* Address translation.  Maps are iterated in any order, so the results    *)
(* are sets.                                                               *)

StaticHits(from, a) == {i \in 1..Len(static) : static[i][from] = a}
FirstStatic(from, a) == static[CHOOSE i \in StaticHits(from, a) : \A j \in StaticHits(from, a) : i <= j]

PickOutsideIP == {IfAddr[p] : p \in {q \in Ports : NATOutside(q)}}

(* Mutant: the entry is not recorded when there is one already.            *)
MutUnrecorded(p, k) ==
    IF ~NATOutside(p) \/ ~Overload THEN {<<k, PAT>>}
    ELSE {<<[k EXCEPT !.src = g],
            IF PAT # <<>> THEN PAT ELSE [a \in {k.src} |-> g]>> : g \in PickOutsideIP}

(* Mutant: the entry is recorded for the destination.                      *)
MutWrongKey(p, k) ==
    IF ~NATOutside(p) \/ ~Overload THEN {<<k, PAT>>}
    ELSE {<<[k EXCEPT !.src = g],
            [a \in DOMAIN PAT \cup {k.dst} |-> g]>> : g \in PickOutsideIP}

(* The packets and PAT tables that may result when k leaves by port p.     *)
TranslateOutbound(p, k) ==
    IF ~NATOutside(p) THEN {<<k, PAT>>}
    ELSE IF StaticHits(1, k.src) # {}
    THEN {<<[k EXCEPT !.src = FirstStatic(1, k.src)[2]], PAT>>}
    ELSE IF ~Overload THEN {<<k, PAT>>}
    ELSE IF k.src \in DOMAIN PAT
    THEN {<<[k EXCEPT !.src = PAT[k.src]], PAT>>}
    ELSE {<<[k EXCEPT !.src = g],
            [a \in DOMAIN PAT \cup {k.src} |-> IF a = k.src THEN g ELSE PAT[a]]>> :
              g \in PickOutsideIP}

PATHits(g) == {a \in DOMAIN PAT : PAT[a] = g}

TranslateInbound(p, k) ==
    IF ~NATOutside(p) THEN {k}
    ELSE IF StaticHits(2, k.dst) # {}
    THEN {[k EXCEPT !.dst = FirstStatic(2, k.dst)[1]]}
    ELSE IF PATHits(k.dst) # {}
    THEN {[k EXCEPT !.dst = a] : a \in PATHits(k.dst)}
    ELSE {k}

-----------------------------------------------------------------------------
(* Tunnels.                                                                *)

Interesting(e, k) == e.acl # None => FirstMatchPermits(e.acl, CryptoProto(k.kind), k)

(* The peer of the first entry that takes k and whose peer is active.      *)
MatchCryptoTunnel(p, k) ==
    LET hits == {i \in 1..Len(CryptoMap) : /\ Interesting(CryptoMap[i], k)
                                           /\ CryptoMap[i].peer \in DOMAIN IKEPeers}
    IN  IF p \notin IfaceCryptoMap THEN {}
        ELSE {CryptoMap[i].peer : i \in {i \in hits : \A j \in hits : i <= j}}

EncapsulateESP(k, peer, p) ==
    [k EXCEPT !.src = IF p \in Ports THEN IfAddr[p] ELSE None, !.dst = peer,
              !.kind = "esp", !.ttl = 64, !.inner = <<k>>]

DecapsulateESP(k) == IF k.src \in DOMAIN IKEPeers THEN {k.inner[1]} ELSE {}

-----------------------------------------------------------------------------
(* The pipeline.                                                           *)

Init ==
    /\ IfacePolicies = [p \in Ports |-> DefaultPolicy]
    /\ acl = [a \in ACLs |-> <<>>]
    /\ static = <<>> /\ Overload = FALSE /\ PAT = <<>>
    /\ RoutingTable = Routes0
    /\ CryptoMap = <<>> /\ IfaceCryptoMap = {} /\ IKEPeers = <<>> /\ installing = {}
    /\ ArpCache = {} /\ PacketQueue = [a \in Addrs |-> <<>>] /\ asked = {}
    /\ traffic \in Traffic /\ rx = traffic.frames
    /\ work = [t \in Threads |-> Idle]
    /\ backlog = <<>> /\ toPing = traffic.pings
    /\ sent = {} /\ waited = {} /\ touched = {} /\ setup = 0 /\ edits = 0

(* What no packet changes.                                                 *)
Stay == UNCHANGED <<conf, RoutingTable, IKEPeers, installing, traffic, touched, setup, edits>>
(* What waiting and sending packets change.                                *)
NoOutput == UNCHANGED <<ArpCache, PacketQueue, asked, sent, waited>>

At(t, stage) == work[t].at = stage
GoOn(t, w) == work' = [work EXCEPT ![t] = w]
Done(t) == GoOn(t, Idle)
ToRoute(t, k) == GoOn(t, [at |-> "route", pkt |-> k])

(* The loop takes a frame: deliverToRouter.                                *)
DeliverToRouter ==
    /\ At(Loop, "idle") /\ backlog = <<>>
    /\ \E f \in rx :
        /\ rx' = rx \ {f}
        /\ GoOn(Loop, IF IsInterfaceUp(f.port) THEN [at |-> "rx", pkt |-> f.pkt, port |-> f.port]
                      ELSE Idle)
    /\ UNCHANGED <<PAT, backlog, toPing>> /\ NoOutput /\ Stay

(* handleRouterIP: translation first.                                      *)
NatIn ==
    /\ At(Loop, "rx")
    /\ \E k \in TranslateInbound(work[Loop].port, work[Loop].pkt) :
          GoOn(Loop, [work[Loop] EXCEPT !.at = "in", !.pkt = k])
    /\ UNCHANGED <<PAT, rx, backlog, toPing>> /\ NoOutput /\ Stay

(* Then the inbound list, what is for the router itself, and the TTL.      *)
HandleRouterIP ==
    /\ At(Loop, "in")
    /\ LET k == work[Loop].pkt
           permitted == EvaluateACL(InboundACL(work[Loop].port), k)
           local == OwnsIP(k.dst)
       IN  \/ /\ \/ ~permitted
                 \/ local /\ k.kind = "esp" /\ DecapsulateESP(k) = {}
                 \/ local /\ k.kind \notin {"esp", "echo"}
                 \/ ~local /\ k.ttl <= 1
              /\ Done(Loop)
           \/ /\ permitted /\ local /\ k.kind = "esp"
              /\ \E inner \in DecapsulateESP(k) : ToRoute(Loop, inner)
           \/ /\ permitted /\ local /\ k.kind = "echo"
              /\ ToRoute(Loop, Packet(k.id, k.dst, k.src, "reply", 64))
           \/ /\ permitted /\ ~local /\ k.ttl > 1
              /\ ToRoute(Loop, [k EXCEPT !.ttl = @ - 1])
    /\ UNCHANGED <<PAT, rx, backlog, toPing>> /\ NoOutput /\ Stay

(* forwardIPFromRouter starts: the route, and the port it names.           *)
Route(t) ==
    /\ At(t, "route")
    /\ LET k == work[t].pkt
           usable == {r \in MatchRoute(k.dst) : IsInterfaceUp(r.port)}
       IN  IF usable = {} THEN Done(t)
           ELSE \E r \in usable :
                  GoOn(t, [at |-> "nat", pkt |-> k, out |-> r.port,
                           hop |-> IF r.hop = None THEN k.dst ELSE r.hop])
    /\ UNCHANGED <<PAT, rx, backlog, toPing>> /\ NoOutput /\ Stay

(* Mutant: the list of the port is not looked at.                          *)
MutAclOut(t) ==
    /\ At(t, "out") /\ GoOn(t, [work[t] EXCEPT !.at = "crypto"])
    /\ UNCHANGED <<PAT, rx, backlog, toPing>> /\ NoOutput /\ Stay

NatOut(t) ==
    /\ At(t, "nat")
    /\ \E r \in TranslateOutbound(work[t].out, work[t].pkt) :
        /\ GoOn(t, [work[t] EXCEPT !.at = "out", !.pkt = r[1]])
        /\ PAT' = r[2]
    /\ UNCHANGED <<rx, backlog, toPing>> /\ NoOutput /\ Stay

(* Mutant: an encrypted packet goes through the output stages again.       *)
MutEncrypt(t) ==
    /\ At(t, "crypto")
    /\ LET w == work[t]
           peers == MatchCryptoTunnel(w.out, w.pkt)
       IN  IF peers = {} \/ (w.pkt.kind = "esp" /\ w.pkt.inner[1].kind = "esp")
           THEN GoOn(t, [w EXCEPT !.at = "arp"])
           ELSE \E peer \in peers :
                  GoOn(t, [w EXCEPT !.at = "out", !.hop = peer,
                                    !.pkt = EncapsulateESP(w.pkt, peer, w.out)])
    /\ UNCHANGED <<PAT, rx, backlog, toPing>> /\ NoOutput /\ Stay

AclOut(t) ==
    /\ At(t, "out")
    /\ GoOn(t, IF EvaluateACL(OutboundACL(work[t].out), work[t].pkt)
               THEN [work[t] EXCEPT !.at = "crypto"] ELSE Idle)
    /\ UNCHANGED <<PAT, rx, backlog, toPing>> /\ NoOutput /\ Stay

Encrypt(t) ==
    /\ At(t, "crypto")
    /\ LET w == work[t]
           peers == MatchCryptoTunnel(w.out, w.pkt)
       IN  IF peers = {} THEN GoOn(t, [w EXCEPT !.at = "arp"])
           ELSE \E peer \in peers :
                  GoOn(t, [w EXCEPT !.at = "arp", !.hop = peer,
                                    !.pkt = EncapsulateESP(w.pkt, peer, w.out)])
    /\ UNCHANGED <<PAT, rx, backlog, toPing>> /\ NoOutput /\ Stay

(* An address on the network of port p is asked for there, and the router  *)
(* answers for its own address only; for others its port is the gateway.   *)
OnLink(p, a) == \E i \in 1..Len(Routes0) :
    Routes0[i].hop = None /\ Routes0[i].port = p /\ a \in Routes0[i].net
AnswersFor(p, a) == OnLink(p, a) => a = IfAddr[p]

(* The echo reply of a server to a frame sent: it comes back some time.    *)
ServerReplies(f) ==
    IF f.pkt.kind = "echo" /\ f.pkt.dst \in Servers /\ AnswersFor(f.port, f.pkt.src)
    THEN {[port |-> f.port, pkt |-> Packet(<<"re", f.pkt.id>>, f.pkt.dst, f.pkt.src, "reply", 64)]}
    ELSE {}

(* LookupARP hits: the frame goes out if the port is still up.             *)
Send(t) ==
    /\ At(t, "arp") /\ work[t].hop \in ArpCache
    /\ LET f == [port |-> work[t].out, pkt |-> work[t].pkt]
           ok == f.port \in Ports /\ IsInterfaceUp(f.port)
       IN  /\ sent' = IF ok THEN sent \cup {f} ELSE sent
           /\ rx' = IF ok THEN rx \cup ServerReplies(f) ELSE rx
    /\ Done(t)
    /\ UNCHANGED <<PAT, ArpCache, PacketQueue, asked, backlog, toPing, waited>> /\ Stay

(* LookupARP misses: the packet is queued as it is by now and the next hop *)
(* asked for.  BuildARPRequest makes no request for a route that names no  *)
(* port.                                                                   *)
Queue(t) ==
    /\ At(t, "arp") /\ work[t].hop \notin ArpCache
    /\ PacketQueue' = [PacketQueue EXCEPT ![work[t].hop] = Append(@, work[t].pkt)]
    /\ waited' = waited \cup {work[t].pkt.id}
    /\ asked' = IF work[t].out \in Ports /\ IsInterfaceUp(work[t].out)
                THEN asked \cup {work[t].hop} ELSE asked
    /\ Done(t)
    /\ UNCHANGED <<PAT, ArpCache, rx, backlog, toPing, sent>> /\ Stay

(* The ARP reply of a neighbour: HandleIncomingArp learns and dequeues,    *)
(* and handleRouterARP forwards what waited, one by one.                   *)
HandleRouterARP ==
    /\ At(Loop, "idle") /\ backlog = <<>>
    /\ \E a \in asked \cap Neighbours :
        /\ asked' = asked \ {a}
        /\ ArpCache' = ArpCache \cup {a}
        /\ backlog' = PacketQueue[a]
        /\ PacketQueue' = [PacketQueue EXCEPT ![a] = <<>>]
    /\ UNCHANGED <<PAT, rx, work, toPing, sent, waited>> /\ Stay

ForwardQueued ==
    /\ At(Loop, "idle") /\ backlog # <<>>
    /\ ToRoute(Loop, Head(backlog))
    /\ backlog' = Tail(backlog)
    /\ UNCHANGED <<PAT, rx, toPing>> /\ NoOutput /\ Stay

(* startPingFromRouter: from an interface that is up, on the destination's *)
(* network if there is one.                                                *)
StartPing ==
    /\ At(Conn, "idle")
    /\ \E a \in toPing :
        LET up == {p \in Ports : IsInterfaceUp(p)}
            near == {p \in up : OnLink(p, a)}
        IN  /\ toPing' = toPing \ {a}
            /\ IF up = {} THEN UNCHANGED work
               ELSE \E p \in (IF near = {} THEN up ELSE near) :
                      ToRoute(Conn, Packet(<<"ping", a>>, IfAddr[p], a, "echo", 64))
    /\ UNCHANGED <<PAT, rx, backlog>> /\ NoOutput /\ Stay

-----------------------------------------------------------------------------
(* The configuration, as the connections change it.                        *)

UnderWay ==
    {work[t].pkt.id : t \in {t \in Threads : ~At(t, "idle")}}
        \cup {backlog[i].id : i \in DOMAIN backlog}
        \cup UNION {{PacketQueue[a][i].id : i \in DOMAIN PacketQueue[a]} : a \in Addrs}

Quiet == rx = traffic.frames /\ toPing = traffic.pings

NoPacket == UNCHANGED <<PAT, ArpCache, PacketQueue, asked, traffic, rx, work,
                        backlog, toPing, sent, waited>>

Edit ==
    /\ \/ Quiet /\ setup < MaxSetup /\ setup' = setup + 1 /\ UNCHANGED edits
       \/ ~Quiet /\ edits < MaxEdits /\ edits' = edits + 1 /\ UNCHANGED setup
    /\ touched' = touched \cup UnderWay
    /\ NoPacket

(* What the commands do to the router's tables.                            *)
AddACLRule(a, rule) == acl' = [acl EXCEPT ![a] = Append(@, rule)]
SetIfacePolicy(p, pol) == IfacePolicies' = [IfacePolicies EXCEPT ![p] = pol]
SetInterfaceShutdown(p, shutdown) == SetIfacePolicy(p, [IfacePolicies[p] EXCEPT !.up = ~shutdown])
AddStaticNAT(pair) == static' = Append(static, pair)
EnableNATOverload(p) ==
    Overload' = TRUE /\ SetIfacePolicy(p, [IfacePolicies[p] EXCEPT !.outside = TRUE])
AddCryptoMapEntry(e) == CryptoMap' = Append(CryptoMap, e)
ApplyCryptoMap(p) == IfaceCryptoMap' = IfaceCryptoMap \cup {p}
NoPeer == UNCHANGED <<RoutingTable, IKEPeers, installing>>

CONFIG_ACL(a, rule) ==
    /\ AddACLRule(a, rule)
    /\ UNCHANGED <<IfacePolicies, static, Overload, CryptoMap, IfaceCryptoMap>> /\ NoPeer
    /\ Edit

(* The window's command replaces the whole policy of the interface.        *)
APPLY_ACL(p, dir, a) ==
    /\ SetIfacePolicy(p, IF dir = "in" THEN [DefaultPolicy EXCEPT !.in = a]
                         ELSE [DefaultPolicy EXCEPT !.out = a])
    /\ UNCHANGED <<acl, static, Overload, CryptoMap, IfaceCryptoMap>> /\ NoPeer
    /\ Edit

(* The command line's only changes the list.                               *)
ApplyIfaceACL(p, dir, a) ==
    /\ IfacePolicies' = IF dir = "in" THEN [IfacePolicies EXCEPT ![p].in = a]
                        ELSE [IfacePolicies EXCEPT ![p].out = a]
    /\ UNCHANGED <<acl, static, Overload, CryptoMap, IfaceCryptoMap>> /\ NoPeer
    /\ Edit

INTERFACE_SHUTDOWN(p, shutdown) ==
    /\ SetInterfaceShutdown(p, shutdown)
    /\ UNCHANGED <<acl, static, Overload, CryptoMap, IfaceCryptoMap>> /\ NoPeer
    /\ Edit

CONFIG_NAT_STATIC(pair) ==
    /\ AddStaticNAT(pair)
    /\ UNCHANGED <<IfacePolicies, acl, Overload, CryptoMap, IfaceCryptoMap>> /\ NoPeer
    /\ Edit

CONFIG_NAT_OVERLOAD(p) ==
    /\ EnableNATOverload(p)
    /\ UNCHANGED <<acl, static, CryptoMap, IfaceCryptoMap>> /\ NoPeer
    /\ Edit

CONFIG_CRYPTO_MAP(e, p) ==
    /\ AddCryptoMapEntry(e) /\ ApplyCryptoMap(p)
    /\ UNCHANGED <<IfacePolicies, acl, static, Overload>> /\ NoPeer
    /\ Edit

(* NegotiateIKE: the keys of the two routers must agree; a key in the      *)
(* request stands for the local one, and for a missing remote one.         *)
KeysAgree(psk) ==
    LET local == IF psk # None THEN psk ELSE LocalKey
        remote == IF psk = None THEN RemoteKey
                  ELSE IF RemoteKeyOfItself # None THEN RemoteKeyOfItself ELSE psk
    IN  local # None /\ local = remote

(* The subnet behind the peer is that of its last entry.                   *)
SubnetBehind(peer) ==
    LET es == {i \in 1..Len(CryptoMap) : CryptoMap[i].peer = peer}
    IN  IF es = {} THEN {} ELSE CryptoMap[CHOOSE i \in es : \A j \in es : i >= j].remote

(* Mutant: the route names the port of the tunnel.                         *)
MutVPNRoute(peer, net) ==
    [net |-> net, dist |-> 1, hop |-> peer, port |-> CHOOSE p \in Uplinks : TRUE, proto |-> "static"]

(* A static route by the peer that names no port.                          *)
VPNRoute(peer, net) == [net |-> net, dist |-> 1, hop |-> peer, port |-> NoPort, proto |-> "static"]

activatePeer(peer) ==
    IKEPeers' = [a \in DOMAIN IKEPeers \cup {peer} |->
                   IF a = peer THEN SubnetBehind(peer) ELSE IKEPeers[a]]

NEGOTIATE_IKE(peer, psk) ==
    /\ KeysAgree(psk)
    /\ activatePeer(peer)
    /\ installing' = installing \cup {peer}
    /\ UNCHANGED <<conf, RoutingTable>>
    /\ Edit

(* The routes follow under a lock of their own.                            *)
InstallVPNRoutes(peer) ==
    /\ peer \in installing
    /\ installing' = installing \ {peer}
    /\ RoutingTable' = IF IKEPeers[peer] = {} THEN RoutingTable
                       ELSE AddRoute(RoutingTable, VPNRoute(peer, IKEPeers[peer]))
    /\ touched' = touched \cup UnderWay
    /\ UNCHANGED <<conf, IKEPeers, setup, edits>> /\ NoPacket

Configure ==
    \/ \E a \in ACLs, rule \in Rules : CONFIG_ACL(a, rule)
    \/ \E f \in Filters, a \in ACLs :
         APPLY_ACL(f[1], f[2], a) \/ ApplyIfaceACL(f[1], f[2], a)
    \/ \E p \in Uplinks, shutdown \in BOOLEAN : INTERFACE_SHUTDOWN(p, shutdown)
    \/ \E pair \in Statics : CONFIG_NAT_STATIC(pair)
    \/ \E p \in Uplinks : CONFIG_NAT_OVERLOAD(p)
    \/ \E e \in Entries, p \in Uplinks : CONFIG_CRYPTO_MAP(e, p)
    \/ \E e \in Entries, psk \in PSKs : NEGOTIATE_IKE(e.peer, psk)

Next ==
    \/ DeliverToRouter \/ NatIn \/ HandleRouterIP
    \/ \E t \in Threads : Route(t) \/ NatOut(t) \/ AclOut(t) \/ Encrypt(t) \/ Send(t) \/ Queue(t)
    \/ HandleRouterARP \/ ForwardQueued \/ StartPing
    \/ Configure
    \/ \E peer \in installing : InstallVPNRoutes(peer)

Spec == Init /\ [][Next]_vars

-----------------------------------------------------------------------------
(* Properties.                                                             *)

(* The packet as the output stages of its last pass saw it.                *)
Payload(k) == IF k.kind = "esp" /\ k.inner # <<>> THEN {k, k.inner[1]} ELSE {k}

(* Every value has its type; packets under way carry known addresses.      *)
TypeOK ==
    /\ \A p \in Ports : /\ IfacePolicies[p].in \in ACLs \cup {None}
                        /\ IfacePolicies[p].out \in ACLs \cup {None}
    /\ Overload \in BOOLEAN
    /\ IfaceCryptoMap \subseteq Ports
    /\ ArpCache \subseteq Neighbours /\ asked \subseteq Addrs
    /\ DOMAIN PAT \subseteq Addrs /\ \A a \in DOMAIN PAT : OwnsIP(PAT[a])
    /\ \A t \in Threads : ~At(t, "idle") => work[t].pkt.dst \in Addrs
    /\ setup \in 0..MaxSetup /\ edits \in 0..MaxEdits

(* The stages of forwardIPFromRouter read the configuration one after the  *)
(* other: a frame leaves by a port that is up, is permitted by the         *)
(* outbound list in clear, shows no private source behind PAT and is not   *)
(* one the crypto map protects, unless the configuration changed while     *)
(* its packet was on the way.                                              *)
TreatedAsConfigured ==
    [][\A f \in sent' \ sent : f.pkt.id \notin touched =>
          /\ IsInterfaceUp(f.port)
          /\ \E k \in Payload(f.pkt) : EvaluateACL(OutboundACL(f.port), k)
          /\ Overload /\ NATOutside(f.port) /\ static = <<>> =>
                f.pkt.src \notin Inside
          /\ f.pkt.kind = "esp" \/ MatchCryptoTunnel(f.port, f.pkt) = {}]_vars

(* TranslateInbound gives return traffic to some PAT entry of the global   *)
(* address: a reply that is sent on goes to a sender of the request, unless *)
(* two inside addresses share a global one.  One for a static global        *)
(* address may also go out again as it came, when the port it came in by is *)
(* no longer an outside one.                                                *)
Sharers(g) == PATHits(g) \cup {static[i][1] : i \in StaticHits(2, g)}
Requests(id) == {k \in UNION {Payload(f.pkt) : f \in traffic.frames} :
                   k.kind = "echo" /\ <<"re", k.id>> = id}
Asker(id) == {k.src : k \in Requests(id)}
ReplyToAsker ==
    \A f \in sent : f.pkt.kind = "reply" /\ Asker(f.pkt.id) # {} =>
        \/ f.pkt.dst \in Asker(f.pkt.id)
        \/ StaticHits(2, f.pkt.dst) # {}
        \/ \E g \in Addrs : \E a, b \in Sharers(g) : a # b

(* PAT entries stand for private addresses, until a global address gets    *)
(* one: TranslateOutbound makes one for packets of the router itself, for  *)
(* a packet that was translated, waited for ARP and is translated again,   *)
(* and for a packet that was under way during a change.  No other makes    *)
(* the table serve an address of the outside.                              *)
OfRouter(k) == OwnsIP(k.src) /\ (k.kind = "reply" \/ \E a \in Addrs : k.id = <<"ping", a>>)
Global(a) == OwnsIP(a) \/ StaticHits(2, a) # {}
PATForSenders ==
    [][DOMAIN PAT \subseteq Inside =>
          \A a \in DOMAIN PAT' \ Inside : \E t \in Threads :
             LET k == work[t].pkt
             IN  /\ At(t, "nat") /\ k.src = a
                 /\ \/ OfRouter(k)
                    \/ Global(a) /\ k.id \in waited
                    \/ k.id \in touched]_vars

(* A packet is encrypted once on its way out, however the configuration    *)
(* changes: only one that waited for the address of its tunnel's peer is   *)
(* put into a second ESP packet.                                           *)
CameEncrypted(id) == \E g \in traffic.frames : g.pkt.kind = "esp" /\ g.pkt.id = id
EncryptedOnce ==
    \A f \in sent : f.pkt.kind = "esp" /\ f.pkt.inner[1].kind = "esp" =>
        f.pkt.id \in waited \/ CameEncrypted(f.pkt.id)

(* What a packet and the tables may look like, whatever the order of the   *)
(* stages and of the commands.                                             *)
PacketsSound == TypeOK /\ EncryptedOnce

(* InstallVPNRoutes names no interface: once it is done no packet for the  *)
(* subnet behind the peer is sent, encrypted or not, unless it was under   *)
(* way during a change, only passes in an ESP packet of others, or the     *)
(* router had a route that is preferred to the tunnel's.                   *)
Preferred(a, net) ==
    \E i \in DOMAIN Routes0 :
        /\ a \in Routes0[i].net
        /\ \/ PrefixLen[Routes0[i].net] > PrefixLen[net]
           \/ PrefixLen[Routes0[i].net] = PrefixLen[net] /\ Routes0[i].dist <= 1
Swallowed(a) ==
    \E peer \in DOMAIN IKEPeers \ installing : a \in IKEPeers[peer] /\ ~Preferred(a, IKEPeers[peer])
PassesThrough(k) == k.kind = "esp" /\ CameEncrypted(k.id)
TunnelRouteSwallows ==
    [][\A f \in sent' \ sent : f.pkt.id \notin touched /\ ~PassesThrough(f.pkt) =>
          \A k \in Payload(f.pkt) : k.kind # "esp" => ~Swallowed(k.dst)]_vars
====
