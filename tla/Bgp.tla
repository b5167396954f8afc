-------------------------------- MODULE Bgp --------------------------------
(***************************************************************************)
(* BGP: protocol/bgp.go, RunBgpUpdateCycle (manager_services.go) and the   *)
(* CONFIG_BGP command.                                                     *)
(*                                                                         *)
(* A router has one address and one network of its own, and is named by    *)
(* them.  Paths are never extended, so a route's path is the AS of the     *)
(* router whose network it is.  Cycles run in the loop, by TIMER_BGP, and  *)
(* in the connection goroutine after CONFIG_BGP.                           *)
(***************************************************************************)
EXTENDS Integers, FiniteSets, Functions

CONSTANTS
    BGPRouters,
    BGPMenu         \* the <<router, local AS, peer, remote AS>> that users configure

ASSUME BgpAssumption == \A m \in BGPMenu : m[1] \in BGPRouters

Cyclers == {"loop", "connection"}
Waiting == [step |-> "idle"]

VARIABLES
    LocalAS,    \* the LocalAS of each router whose process runs
    Peers,      \* Peers[r]: the RemoteAS configured for each peer address
    BGPRoutes,  \* BGPRoutes[r]: next hop and origin AS by network
    Installed,  \* the BGP routes in the routing tables, <<router, network, next hop>>
    bgpPc       \* bgpPc[c]: where cycle c is

bgpVars == <<LocalAS, Peers, BGPRoutes, Installed, bgpPc>>

BgpInit ==
    /\ LocalAS = <<>>
    /\ Peers = [r \in BGPRouters |-> <<>>]
    /\ BGPRoutes = [r \in BGPRouters |-> <<>>]
    /\ Installed = {}
    /\ bgpPc = [c \in Cyclers |-> Waiting]

(* EnableBgp keeps the AS of a running process; AddBgpPeer takes any       *)
(* address, a peer's earlier configuration is replaced.                    *)
CONFIG_BGP(r, as, peer, remote) ==
    /\ bgpPc["connection"] = Waiting
    /\ LocalAS' = IF r \in DOMAIN LocalAS THEN LocalAS
                  ELSE [q \in DOMAIN LocalAS \cup {r} |-> IF q = r THEN as ELSE LocalAS[q]]
    /\ Peers' = [Peers EXCEPT ![r] =
            [p \in DOMAIN @ \cup {peer} |-> IF p = peer THEN remote ELSE @[p]]]
    /\ bgpPc' = [bgpPc EXCEPT !["connection"] = [step |-> "cycle", todo |-> BGPRouters]]
    /\ UNCHANGED <<BGPRoutes, Installed>>

BGPTimer ==
    /\ bgpPc["loop"] = Waiting
    /\ bgpPc' = [bgpPc EXCEPT !["loop"] = [step |-> "cycle", todo |-> BGPRouters]]
    /\ UNCHANGED <<LocalAS, Peers, BGPRoutes, Installed>>

(* BuildBgpAdvertisement and GetAdvertisement: the router's own network    *)
(* and what it learned.                                                    *)
Advertisement(r) ==
    {[net |-> r, as |-> LocalAS[r]]} \cup
    {[net |-> n, as |-> BGPRoutes[r][n].as] : n \in DOMAIN BGPRoutes[r]}

(* A router's turn: the advertisement is built once, the peers are then    *)
(* updated one by one.                                                     *)
Turn(c, r) ==
    /\ bgpPc[c].step = "cycle" /\ r \in bgpPc[c].todo
    /\ LET rest == bgpPc[c].todo \ {r} IN
         bgpPc' = [bgpPc EXCEPT ![c] =
            IF r \in DOMAIN LocalAS
            THEN [step |-> "send", from |-> r, routes |-> Advertisement(r),
                  peers |-> DOMAIN Peers[r], todo |-> rest]
            ELSE [step |-> "cycle", todo |-> rest]]
    /\ UNCHANGED <<LocalAS, Peers, BGPRoutes, Installed>>

(* Mutant: the sender is looked up under its own address.                  *)
MutPeerKey(sender, receiver) == sender
(* The address ProcessUpdate gets for the peer: the one the update is sent *)
(* to, which is the receiver's own.                                        *)
PeerKey(sender, receiver) == receiver

(* Mutant: the own AS in a path is not looked for.                         *)
MutAccepted(r, key, routes) ==
    {x \in routes : x.as # Peers[r][key] /\ x.net \notin DOMAIN BGPRoutes[r]}
(* The loop check, the comparison with the sender's AS, and that the       *)
(* network is new.                                                         *)
Accepted(r, key, routes) ==
    {x \in routes : x.as # LocalAS[r] /\ x.as # Peers[r][key] /\ x.net \notin DOMAIN BGPRoutes[r]}

(* findRouterByIP and ProcessUpdate at one peer; of two routes to one      *)
(* network the first stays, as all paths are of length one.                *)
ProcessUpdate(c, q) ==
    /\ bgpPc[c].step = "send" /\ q \in bgpPc[c].peers
    /\ LET key == PeerKey(bgpPc[c].from, q)
           new == IF q \in DOMAIN LocalAS /\ key \in DOMAIN Peers[q]
                  THEN Accepted(q, key, bgpPc[c].routes) ELSE {}
           nets == {x.net : x \in new}
       IN  /\ \E pick \in [nets -> new] :
                /\ \A n \in nets : pick[n].net = n
                /\ BGPRoutes' = [BGPRoutes EXCEPT ![q] =
                     [n \in DOMAIN @ \cup nets |->
                        IF n \in nets THEN [hop |-> key, as |-> pick[n].as] ELSE @[n]]]
           /\ bgpPc' = [bgpPc EXCEPT ![c] =
                [step |-> "install", from |-> @.from, routes |-> @.routes,
                 peers |-> @.peers \ {q}, todo |-> @.todo, at |-> q, hop |-> key, nets |-> nets]]
    /\ UNCHANGED <<LocalAS, Peers, Installed>>

(* AddRoute for what is new; it replaces the route to that network.        *)
Install(c) ==
    /\ bgpPc[c].step = "install"
    /\ LET s == bgpPc[c] IN
         /\ Installed' = {i \in Installed : ~(i[1] = s.at /\ i[2] \in s.nets)}
                           \cup {<<s.at, n, s.hop>> : n \in s.nets}
         /\ bgpPc' = [bgpPc EXCEPT ![c] =
              [step |-> "send", from |-> s.from, routes |-> s.routes, peers |-> s.peers, todo |-> s.todo]]
    /\ UNCHANGED <<LocalAS, Peers, BGPRoutes>>

EndTurn(c) ==
    /\ \/ /\ bgpPc[c].step = "send" /\ bgpPc[c].peers = {}
          /\ bgpPc' = [bgpPc EXCEPT ![c] = [step |-> "cycle", todo |-> @.todo]]
       \/ /\ bgpPc[c].step = "cycle" /\ bgpPc[c].todo = {}
          /\ bgpPc' = [bgpPc EXCEPT ![c] = Waiting]
    /\ UNCHANGED <<LocalAS, Peers, BGPRoutes, Installed>>

RunBgpUpdateCycle(c) ==
    \/ \E r \in BGPRouters : Turn(c, r) \/ ProcessUpdate(c, r)
    \/ Install(c)
    \/ EndTurn(c)

BgpNext ==
    \/ BGPTimer
    \/ \E c \in Cyclers : RunBgpUpdateCycle(c)
    \/ \E m \in BGPMenu : CONFIG_BGP(m[1], m[2], m[3], m[4])

BgpSpec == BgpInit /\ [][BgpNext]_bgpVars

-----------------------------------------------------------------------------
(* An update is taken only where a router is configured as its own peer,   *)
(* and what it then learns leads back to itself: no configuration of two   *)
(* sensible peers ever exchanges a route.                                  *)
RoutesLeadToOneself ==
    \A i \in Installed : i[3] = i[1] /\ i[1] \in DOMAIN Peers[i[1]]

(* A route to a router's own network is never taken from a peer of its own *)
(* AS: the loop check holds however updates and configuration overlap.     *)
OwnASRefused ==
    \A r \in DOMAIN LocalAS, n \in BGPRouters :
        n \in DOMAIN BGPRoutes[r] => BGPRoutes[r][n].as # LocalAS[r]

(* What BGP learns: only what leads nowhere else, and nothing of its AS.   *)
BGPUseless == RoutesLeadToOneself /\ OwnASRefused
=============================================================================
