-------------------------------- MODULE Ospf --------------------------------
(***************************************************************************)
(* OSPF neighbours and link-state databases (protocol/ospf.go, and the     *)
(* hello cycle of manager.go).                                             *)
(*                                                                         *)
(* RunOspfHelloCycle runs in the simulation loop, every 10 s, and in the   *)
(* connection goroutine, after CONFIG_OSPF; the two may overlap.  Router   *)
(* by router and port by port it sends a hello to the neighbour and the    *)
(* neighbour's hello back, each delivered at once; then it drops dead      *)
(* neighbours and floods the router's LSA.  Each daemon has a lock, the    *)
(* cycle has none: a hello is built under one lock and handled under       *)
(* another.  The user configures OSPF, shuts interfaces and removes links  *)
(* meanwhile.                                                              *)
(*                                                                         *)
(* Age counts hello intervals; a port is named by the router it leads to,  *)
(* and router identifiers are distinct.  The last call of the cycle,       *)
(* RunOspfSPF, only reads the database; OspfSpf is about what it computes. *)
(***************************************************************************)
EXTENDS Integers, FiniteSets

CONSTANTS
    Routers,
    Cables,      \* the links of the topology: sets of two routers
    Subnets,     \* subnets the user connects to routers
    Gateways,    \* routers the user connects subnets to
    DeadCycles,  \* OspfDeadInterval / OspfHelloInterval
    ShutPorts,   \* ports the user may shut down
    None

ASSUME OspfAssumption ==
    /\ \A c \in Cables : c \subseteq Routers
    /\ Gateways \subseteq Routers
    /\ DeadCycles \in Nat /\ None \notin Routers

Loop == "loop"          \* the cycle of the simulation loop
Conn == "connection"    \* the cycle of the connection goroutine
Cyclers == {Loop, Conn}
Ports == {p \in Routers \X Routers : {p[1], p[2]} \in Cables}

VARIABLES
    enabled,     \* routers with an OSPF process
    interfaces,  \* ports a network statement matches (OspfDaemon.Interfaces)
    links,       \* cables in place
    up,          \* ports whose interface is not shut down
    subnets,     \* subnets[r]: r's connected subnets
    neighbors,   \* neighbors[r]: r's neighbour table, a map to states
    age,         \* age[r][s]: hello intervals since r's LastSeen of s
    lsdb,        \* lsdb[r]: r's database, a map to LSAs
    cycle,       \* cycle[c]: routers the cycle c has yet to come to
    router,      \* router[c]: the router it is at, or None
    ports,       \* ports[c]: ports of that router it has yet to come to
    hello,       \* hello[c]: the hello on the wire, or None
    reply,       \* reply[c]: the neighbour whose hello is to come back, or None
    stale        \* stale[c]: the clock has moved on since c read it

userVars == <<enabled, interfaces, links, up, subnets>>
cycleVars == <<cycle, router, ports, hello, reply, stale>>
vars == <<userVars, neighbors, age, lsdb, cycleVars>>

-----------------------------------------------------------------------------
Init ==
    /\ enabled = {} /\ interfaces = {}
    /\ links = Cables
    /\ up = Ports
    /\ subnets = [r \in Routers |-> {}]
    /\ neighbors = [r \in Routers |-> [s \in {} |-> "INIT"]]
    /\ age = [r \in Routers |-> [s \in Routers |-> 0]]
    /\ lsdb = [r \in Routers |-> [x \in {} |-> None]]
    /\ cycle = [c \in Cyclers |-> {}]
    /\ router = [c \in Cyclers |-> None]
    /\ ports = [c \in Cyclers |-> {}]
    /\ hello = [c \in Cyclers |-> None]
    /\ reply = [c \in Cyclers |-> None]
    /\ stale = [c \in Cyclers |-> FALSE]

Put(map, key, value) ==
    [k \in DOMAIN map \cup {key} |-> IF k = key THEN value ELSE map[k]]

Idle(c) == cycle[c] = {} /\ router[c] = None
AtPorts(c) == router[c] # None /\ hello[c] = None /\ reply[c] = None

(* Mutant: the timer is rescheduled with no delay, so no time passes.      *)
MutOspfTimer ==
    /\ Idle(Loop)
    /\ cycle' = [cycle EXCEPT ![Loop] = Routers]
    /\ UNCHANGED <<userVars, neighbors, age, lsdb, router, ports, hello, reply, stale>>

(* TIMER_OSPF: the loop begins a cycle 10 s after the last one.            *)
OspfTimer ==
    /\ Idle(Loop)
    /\ cycle' = [cycle EXCEPT ![Loop] = Routers]
    /\ age' = [r \in Routers |-> [s \in Routers |->
                 IF s \in DOMAIN neighbors[r] THEN age[r][s] + 1 ELSE 0]]
    /\ stale' = [stale EXCEPT ![Conn] = ~Idle(Conn)]
    /\ UNCHANGED <<userVars, neighbors, lsdb, router, ports, hello, reply>>

(* CONFIG_OSPF ends with a hello cycle of its own.                         *)
ConfigCycle ==
    /\ Idle(Conn) /\ enabled # {}
    /\ cycle' = [cycle EXCEPT ![Conn] = Routers]
    /\ stale' = [stale EXCEPT ![Conn] = FALSE]
    /\ UNCHANGED <<userVars, neighbors, age, lsdb, router, ports, hello, reply>>

(* The loop over the routers, in map order.  Without OSPF a router is      *)
(* skipped.                                                                *)
NextRouter(c, r) ==
    /\ router[c] = None /\ r \in cycle[c]
    /\ cycle' = [cycle EXCEPT ![c] = @ \ {r}]
    /\ IF r \in enabled
       THEN /\ router' = [router EXCEPT ![c] = r]
            /\ ports' = [ports EXCEPT ![c] = {s \in Routers : <<r, s>> \in interfaces}]
       ELSE UNCHANGED <<router, ports>>
    /\ UNCHANGED <<userVars, neighbors, age, lsdb, hello, reply, stale>>

(* Mutant: every known neighbour is listed.                                *)
MutActiveNeighbors(r) == DOMAIN neighbors[r]

(* GenerateHello: the hello lists the neighbours that are 2-WAY or FULL.   *)
ActiveNeighbors(r) == {s \in DOMAIN neighbors[r] : neighbors[r][s] \in {"2-WAY", "FULL"}}
GenerateHello(from, to) == [from |-> from, to |-> to, seen |-> ActiveNeighbors(from)]

(* A port that leads to a router with OSPF: a hello goes out.              *)
SendHello(c, s) ==
    /\ AtPorts(c) /\ s \in ports[c]
    /\ ports' = [ports EXCEPT ![c] = @ \ {s}]
    /\ IF {router[c], s} \in links /\ s \in enabled
       THEN hello' = [hello EXCEPT ![c] = GenerateHello(router[c], s)]
       ELSE UNCHANGED hello
    /\ UNCHANGED <<userVars, neighbors, age, lsdb, cycle, router, reply, stale>>

(* HandleIncomingHello: the state of the sender in the table of h.to.      *)
(* From INIT it goes through 2-WAY to FULL in one call.                    *)
HelloState(h) ==
    IF h.from \in DOMAIN neighbors[h.to] /\ h.to \in h.seen THEN "FULL" ELSE "INIT"

(* The hello arrives if the link is still there and the interface it comes *)
(* in by is up; the one it leaves by is not looked at.  After the hello of *)
(* the router comes that of the neighbour.                                 *)
DeliverHello(c) ==
    /\ hello[c] # None
    /\ LET h == hello[c] IN
         /\ IF {h.from, h.to} \in links /\ <<h.to, h.from>> \in up
            THEN /\ neighbors' = [neighbors EXCEPT ![h.to] = Put(@, h.from, HelloState(h))]
                 /\ age' = [age EXCEPT ![h.to][h.from] = 0]
            ELSE UNCHANGED <<neighbors, age>>
         /\ reply' = [reply EXCEPT ![c] = IF h.from = router[c] THEN h.to ELSE None]
    /\ hello' = [hello EXCEPT ![c] = None]
    /\ UNCHANGED <<userVars, lsdb, cycle, router, ports, stale>>

SendReply(c) ==
    /\ reply[c] # None
    /\ hello' = [hello EXCEPT ![c] = GenerateHello(reply[c], router[c])]
    /\ reply' = [reply EXCEPT ![c] = None]
    /\ UNCHANGED <<userVars, neighbors, age, lsdb, cycle, router, ports, stale>>

(* CheckDeadInterval keeps the neighbours seen within the dead interval,   *)
(* by the time the cycle began with.  No neighbour is more than one        *)
(* interval late (TypeOK), so with a stale time none is.                   *)
Alive(c, r) == {s \in DOMAIN neighbors[r] : stale[c] \/ age[r][s] <= DeadCycles}

(* GenerateRouterLsa: FULL neighbours and connected subnets; the sequence  *)
(* number is always 1.                                                     *)
RouterLsa(r, table) ==
    [full |-> {s \in DOMAIN table : table[s] = "FULL"}, stubs |-> subnets[r]]

(* UpdateLSDB: an LSA whose sequence number is not above the stored one is *)
(* dropped; as all are 1, the first LSA of a router is kept for ever.      *)
UpdateLSDB(db, x, lsa) == IF x \in DOMAIN db THEN db ELSE Put(db, x, lsa)

(* All ports done: CheckDeadInterval, then FloodOspfLSAs to every router   *)
(* with OSPF, itself included.                                             *)
FinishRouter(c) ==
    /\ AtPorts(c) /\ ports[c] = {}
    /\ LET r == router[c]
           table == [s \in Alive(c, r) |-> neighbors[r][s]]
           lsa == RouterLsa(r, table) IN
         /\ neighbors' = [neighbors EXCEPT ![r] = table]
         /\ lsdb' = [q \in Routers |->
                       IF q \in enabled THEN UpdateLSDB(lsdb[q], r, lsa) ELSE lsdb[q]]
    /\ router' = [router EXCEPT ![c] = None]
    /\ UNCHANGED <<userVars, age, cycle, ports, hello, reply, stale>>

RunOspfHelloCycle(c) ==
    \/ \E r \in Routers : NextRouter(c, r) \/ SendHello(c, r)
    \/ DeliverHello(c) \/ SendReply(c)
    \/ FinishRouter(c)

EnableOspf(r) ==
    /\ r \notin enabled
    /\ enabled' = enabled \cup {r}
    /\ UNCHANGED <<interfaces, links, up, subnets, neighbors, age, lsdb, cycleVars>>

(* A network statement that matches the port.                              *)
EnableInterface(p) ==
    /\ p[1] \in enabled /\ p \notin interfaces
    /\ interfaces' = interfaces \cup {p}
    /\ UNCHANGED <<enabled, links, up, subnets, neighbors, age, lsdb, cycleVars>>

ConnectSubnet(r, n) ==
    /\ \A q \in Routers : n \notin subnets[q]
    /\ subnets' = [subnets EXCEPT ![r] = @ \cup {n}]
    /\ UNCHANGED <<enabled, interfaces, links, up, neighbors, age, lsdb, cycleVars>>

Shutdown(p) ==
    /\ p \in up
    /\ up' = up \ {p}
    /\ UNCHANGED <<enabled, interfaces, links, subnets, neighbors, age, lsdb, cycleVars>>

RemoveLink(c) ==
    /\ c \in links
    /\ links' = links \ {c}
    /\ UNCHANGED <<enabled, interfaces, up, subnets, neighbors, age, lsdb, cycleVars>>

Next ==
    \/ OspfTimer \/ ConfigCycle
    \/ \E c \in Cyclers : RunOspfHelloCycle(c)
    \/ \E r \in Routers : EnableOspf(r)
    \/ \E r \in Gateways, n \in Subnets : ConnectSubnet(r, n)
    \/ \E p \in Ports : EnableInterface(p)
    \/ \E p \in ShutPorts : Shutdown(p)
    \/ \E c \in Cables : RemoveLink(c)

Spec == Init /\ [][Next]_vars

(* The loop keeps starting cycles and both goroutines keep running.        *)
FairSpec ==
    /\ Spec
    /\ WF_vars(OspfTimer)
    /\ \A c \in Cyclers : WF_vars(RunOspfHelloCycle(c))

-----------------------------------------------------------------------------
Lsa == [full : SUBSET Routers, stubs : SUBSET Subnets]
Hello == [from : Routers, to : Routers, seen : SUBSET Routers]

TypeOK ==
    /\ enabled \subseteq Routers /\ interfaces \subseteq Ports
    /\ links \subseteq Cables /\ up \subseteq Ports
    /\ subnets \in [Routers -> SUBSET Subnets]
    /\ \A r \in Routers :
         /\ DOMAIN neighbors[r] \subseteq Routers
         /\ \A s \in DOMAIN neighbors[r] : neighbors[r][s] \in {"INIT", "2-WAY", "FULL"}
         /\ \A s \in Routers : age[r][s] \in 0 .. DeadCycles + 1
         /\ DOMAIN lsdb[r] \subseteq Routers
         /\ \A x \in DOMAIN lsdb[r] : lsdb[r][x] \in Lsa
    /\ \A c \in Cyclers :
         /\ cycle[c] \subseteq Routers /\ ports[c] \subseteq Routers
         /\ router[c] \in Routers \cup {None} /\ reply[c] \in Routers \cup {None}
         /\ hello[c] \in Hello \cup {None}
         /\ hello[c] # None \/ reply[c] # None => router[c] # None
         /\ stale[c] \in BOOLEAN

(* The two halves of the handshake wait for each other: a hello lists only *)
(* neighbours beyond INIT, and a neighbour leaves INIT only when it is     *)
(* listed.  So no order of overlapping cycles and user actions ever forms  *)
(* an adjacency, and no LSA ever links two routers.                        *)
NeverAdjacent ==
    \A r \in Routers :
        /\ \A s \in DOMAIN neighbors[r] : neighbors[r][s] = "INIT"
        /\ \A x \in DOMAIN lsdb[r] : lsdb[r][x].full = {}

(* A neighbour whose link is gone leaves the table for good: a cycle that  *)
(* found the link before it went may still deliver no hello over it, and   *)
(* CheckDeadInterval catches up, also when a cycle with a stale clock runs *)
(* in between.                                                             *)
DeadNeighborsGo ==
    \A p \in Ports :
        ({p[1], p[2]} \notin links) ~> [](p[2] \notin DOMAIN neighbors[p[1]])

(* By the end of the dead interval a silent neighbour is late by no more   *)
(* than one interval (TypeOK), and no handshake completes meanwhile.       *)
NeighborsSound == TypeOK /\ NeverAdjacent
=============================================================================
