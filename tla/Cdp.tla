-------------------------------- MODULE Cdp --------------------------------
(***************************************************************************)
(* CDP: RunCDPCycle (manager_services.go), LearnCDPNeighbor and            *)
(* PurgeStaleCDPNeighbors (router_services.go).                            *)
(*                                                                         *)
(* The clock that entries age by is cdpCounter, which counts the packets   *)
(* learned by all routers together.  An entry is kept as its age, the      *)
(* packets learned since: ages from Holdtime on are all one, since the     *)
(* entry goes at the next purge.  The loop runs a cycle as one event and   *)
(* delivers its packets as later ones; a packet takes less than the minute *)
(* between two cycles.                                                     *)
(***************************************************************************)
EXTENDS Integers, FiniteSets, Functions

CONSTANTS
    CDPRouters,
    CDPNetworks,    \* the networks: sets of cables, a cable a set of two routers
    Holdtime        \* the argument of PurgeStaleCDPNeighbors

ASSUME CdpAssumption ==
    /\ Holdtime \in Nat \ {0}
    /\ \A n \in CDPNetworks : IsFiniteSet(n)
    /\ \A c \in UNION CDPNetworks : c \subseteq CDPRouters /\ Cardinality(c) = 2

VARIABLES
    network,        \* the cables that may be plugged
    cables,         \* the cables that are
    cdpRouters,     \* the routers that exist
    CDPNeighbors,   \* CDPNeighbors[r]: the age of each neighbour's entry
    cdpTodo,        \* routers whose turn in the running cycle is to come
    cdpWire,        \* packets on their way, <<from, to>>
    cdpLate,        \* history: packets on their way when their sender was removed
    rewired         \* history: a cable has been unplugged

cdpVars == <<network, cables, cdpRouters, CDPNeighbors, cdpTodo, cdpWire, cdpLate, rewired>>

CdpInit ==
    /\ network \in CDPNetworks
    /\ cables = network
    /\ cdpRouters = CDPRouters
    /\ CDPNeighbors = [r \in CDPRouters |-> <<>>]
    /\ cdpTodo = {} /\ cdpWire = {} /\ cdpLate = {} /\ rewired = FALSE

RunCDPCycle ==
    /\ cdpTodo = {} /\ cdpWire = {}
    /\ cdpTodo' = cdpRouters
    /\ UNCHANGED <<network, cables, cdpRouters, CDPNeighbors, cdpWire, cdpLate, rewired>>

(* Mutant: nothing is purged.                                              *)
MutPurgeNone(entries) == entries
(* Mutant: only the newest entry stays.                                    *)
MutPurgeAll(entries) == Restrict(entries, {s \in DOMAIN entries : entries[s] = 0})
PurgeStaleCDPNeighbors(entries) ==
    Restrict(entries, {s \in DOMAIN entries : entries[s] < Holdtime})

(* A router's turn: a packet on every port with a cable, and the purge.    *)
Advertise(r) ==
    /\ r \in cdpTodo
    /\ cdpTodo' = cdpTodo \ {r}
    /\ cdpWire' = cdpWire \cup {<<r, s>> : s \in {t \in CDPRouters : {r, t} \in cables}}
    /\ CDPNeighbors' = [CDPNeighbors EXCEPT ![r] = PurgeStaleCDPNeighbors(@)]
    /\ UNCHANGED <<network, cables, cdpRouters, cdpLate, rewired>>

(* cdpNow: every entry of every router is one packet older.                *)
(* Mutant: each router counts its own packets.                             *)
MutLearn(r, s) ==
    [CDPNeighbors EXCEPT ![r] =
        [t \in DOMAIN CDPNeighbors[r] \cup {s} |->
            IF t = s THEN 0
            ELSE IF CDPNeighbors[r][t] < Holdtime THEN CDPNeighbors[r][t] + 1 ELSE Holdtime]]
LearnCDPNeighbor(r, s) ==
    [q \in CDPRouters |->
        [t \in DOMAIN CDPNeighbors[q] \cup (IF q = r THEN {s} ELSE {}) |->
            IF q = r /\ t = s THEN 0
            ELSE IF CDPNeighbors[q][t] < Holdtime THEN CDPNeighbors[q][t] + 1 ELSE Holdtime]]

DeliverCDP(s, r) ==
    /\ cdpTodo = {} /\ <<s, r>> \in cdpWire
    /\ cdpWire' = cdpWire \ {<<s, r>>}
    /\ CDPNeighbors' = IF r \in cdpRouters THEN LearnCDPNeighbor(r, s) ELSE CDPNeighbors
    /\ UNCHANGED <<network, cables, cdpRouters, cdpTodo, cdpLate, rewired>>

Unplug(c) ==
    /\ c \in cables
    /\ cables' = cables \ {c} /\ rewired' = TRUE
    /\ UNCHANGED <<network, cdpRouters, CDPNeighbors, cdpTodo, cdpWire, cdpLate>>

Plug(c) ==
    /\ c \in network \ cables /\ c \subseteq cdpRouters
    /\ cables' = cables \cup {c}
    /\ UNCHANGED <<network, cdpRouters, CDPNeighbors, cdpTodo, cdpWire, cdpLate, rewired>>

(* Mutant: the entries learned from the removed router stay.               *)
MutPurgeDevice(r) == [q \in CDPRouters |-> IF q = r THEN <<>> ELSE CDPNeighbors[q]]
(* purgeRouterReferencesLocked, number 3.                                  *)
PurgeDevice(r) ==
    [q \in CDPRouters |-> IF q = r THEN <<>>
                          ELSE Restrict(CDPNeighbors[q], DOMAIN CDPNeighbors[q] \ {r})]

RemoveCDPRouter(r) ==
    /\ r \in cdpRouters
    /\ cdpRouters' = cdpRouters \ {r}
    /\ cables' = {c \in cables : r \notin c}
    /\ CDPNeighbors' = PurgeDevice(r)
    /\ cdpLate' = cdpLate \cup {p \in cdpWire : p[1] = r}
    /\ UNCHANGED <<network, cdpTodo, cdpWire, rewired>>

(* What the loop does by itself.                                           *)
CDPLoop ==
    \/ RunCDPCycle
    \/ \E r \in CDPRouters : Advertise(r)
    \/ \E p \in cdpWire : DeliverCDP(p[1], p[2])

CdpNext ==
    \/ CDPLoop
    \/ \E c \in network : Unplug(c) \/ Plug(c)
    \/ \E r \in CDPRouters : RemoveCDPRouter(r)

CdpSpec == CdpInit /\ [][CdpNext]_cdpVars

-----------------------------------------------------------------------------
CdpTypeOK ==
    /\ cables \subseteq network /\ network \in CDPNetworks
    /\ DOMAIN CDPNeighbors = CDPRouters
    /\ \A r \in CDPRouters : \A s \in DOMAIN CDPNeighbors[r] :
         s \in CDPRouters /\ CDPNeighbors[r][s] \in 0..Holdtime
    /\ cdpWire \subseteq CDPRouters \X CDPRouters

Entries == UNION {{<<r, s>> : s \in DOMAIN CDPNeighbors[r]} : r \in CDPRouters}

(* Of all the entries of all routers together, no more than Holdtime       *)
(* outlive the next cycle, whatever is connected: the packets of one cycle *)
(* make each other stale.                                                  *)
FewSurvive == Cardinality({p \in Entries : CDPNeighbors[p[1]][p[2]] < Holdtime}) <= Holdtime

(* Where a cycle has no more packets than Holdtime, and the cables stay as *)
(* they are, a neighbour once heard is not lost as long as it exists: only *)
(* RemoveDevice takes entries.  (A cable that is unplugged for half a      *)
(* cycle again and again lets one end hear packets while the other's entry *)
(* ages.)                                                                  *)
SmallLabsRemember ==
    [][\A p \in Entries :
         /\ p \notin Entries' /\ p[2] \in cdpRouters
         /\ 2 * Cardinality(network) <= Holdtime /\ ~rewired
         => cdpRouters' # cdpRouters]_cdpVars

(* A neighbour whose cable is gone is forgotten in the end, as long as     *)
(* packets are learned at all: the clock is the packets.                   *)
GoneIsForgotten ==
    \A r \in CDPRouters : \A s \in {t \in CDPRouters : {r, t} \in UNION CDPNetworks} :
        (<<r, s>> \in Entries /\ {r, s} \notin cables) ~>
            (<<r, s>> \notin Entries \/ {r, s} \in cables \/ cables = {})

(* A removed router is in nobody's list, unless a packet of it was on its  *)
(* way when it was removed: RemoveDevice does not stop what is in flight.  *)
RemovedIsForgotten ==
    \A p \in Entries : p[2] \in cdpRouters \/ <<p[2], p[1]>> \in cdpLate

(* What the lists of neighbours are, and what of them stays.               *)
EntriesSound == CdpTypeOK /\ FewSurvive /\ RemovedIsForgotten
NeighborsAge == []EntriesSound /\ SmallLabsRemember
=============================================================================
