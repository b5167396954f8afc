----------------------------- MODULE OspfProofs -----------------------------
(***************************************************************************)
(* NeverAdjacent holds for any routers, links and overlap of hello cycles. *)
(* It is not inductive alone: a hello on the wire was built earlier, and   *)
(* must be known to list nobody.                                           *)
(***************************************************************************)
EXTENDS Ospf, TLAPS

(* A hello on the wire lists nobody.                                       *)
HelloEmpty(h) == h = None \/ (h \in Hello /\ h.seen = {})

Silent ==
    /\ router \in [Cyclers -> Routers \cup {None}]
    /\ reply \in [Cyclers -> Routers \cup {None}]
    /\ DOMAIN hello = Cyclers /\ \A c \in Cyclers : HelloEmpty(hello[c])
    /\ \A c \in Cyclers : ports[c] \subseteq Routers
    /\ DOMAIN ports = Cyclers
    /\ DOMAIN neighbors = Routers
    /\ \A c \in Cyclers : hello[c] # None \/ reply[c] # None => router[c] # None

IInv == Silent /\ NeverAdjacent

(* The hello a router builds while its neighbours are all in INIT is empty. *)
LEMMA HelloListsNobody ==
    ASSUME IInv, NEW r \in Routers, NEW s \in Routers
    PROVE  HelloEmpty(GenerateHello(r, s))
<1>1. ActiveNeighbors(r) = {}
  BY DEF IInv, NeverAdjacent, ActiveNeighbors
<1> QED
  BY <1>1 DEF GenerateHello, HelloEmpty, Hello

(* No step of a cycle or of the user breaks the inductive invariant.       *)
LEMMA NextKeepsIInv ==
    ASSUME IInv, [Next]_vars
    PROVE  IInv'
<1> USE DEF IInv
<1>1. CASE OspfTimer
  BY <1>1 DEF OspfTimer, userVars, Silent, NeverAdjacent
<1>2. CASE ConfigCycle
  BY <1>2 DEF ConfigCycle, userVars, Silent, NeverAdjacent
<1>3. ASSUME NEW c \in Cyclers, NEW r \in Routers, NextRouter(c, r) PROVE IInv'
  <2>1. UNCHANGED <<neighbors, lsdb, hello, reply>>
    BY <1>3 DEF NextRouter
  <2>2. /\ router' \in [Cyclers -> Routers \cup {None}]
        /\ \A d \in Cyclers : router[d] # None => router'[d] # None
    BY <1>3, OspfAssumption DEF NextRouter, Silent
  <2>3. DOMAIN ports' = Cyclers /\ \A d \in Cyclers : ports'[d] \subseteq Routers
    <3>1. CASE UNCHANGED ports
      BY <3>1 DEF Silent
    <3>2. CASE ports' = [ports EXCEPT ![c] = {s \in Routers : <<r, s>> \in interfaces}]
      <4> DEFINE P == {s \in Routers : <<r, s>> \in interfaces}
      <4>1. P \subseteq Routers
        OBVIOUS
      <4> HIDE DEF P
      <4> QED BY <3>2, <4>1 DEF Silent, P
    <3> QED
      BY <1>3, <3>1, <3>2 DEF NextRouter
  <2> QED
    BY <2>1, <2>2, <2>3 DEF Silent, NeverAdjacent
<1>4. ASSUME NEW c \in Cyclers, NEW s \in Routers, SendHello(c, s) PROVE IInv'
  <2>1. UNCHANGED <<neighbors, lsdb, router, reply>>
    BY <1>4 DEF SendHello
  <2>2. router[c] \in Routers
    BY <1>4 DEF SendHello, AtPorts, Silent
  <2>3. HelloEmpty(GenerateHello(router[c], s))
    BY <2>2, HelloListsNobody
  <2>4. /\ DOMAIN hello' = Cyclers /\ \A d \in Cyclers : HelloEmpty(hello'[d])
        /\ \A d \in Cyclers : hello'[d] # None => hello[d] # None \/ d = c
    BY <1>4, <2>3 DEF SendHello, Silent
  <2>5. DOMAIN ports' = Cyclers /\ \A d \in Cyclers : ports'[d] \subseteq Routers
    BY <1>4 DEF SendHello, Silent
  <2> QED
    BY <2>1, <2>2, <2>4, <2>5, OspfAssumption DEF Silent, NeverAdjacent, HelloEmpty
<1>5. ASSUME NEW c \in Cyclers, DeliverHello(c) PROVE IInv'
  <2> DEFINE h == hello[c]
  <2>1. h # None /\ h \in Hello /\ h.seen = {}
    BY <1>5 DEF DeliverHello, Silent, HelloEmpty
  <2>2. HelloState(h) = "INIT"
    BY <2>1 DEF HelloState
  <2>3. /\ DOMAIN neighbors' = Routers
        /\ \A r \in Routers : \A s \in DOMAIN neighbors'[r] : neighbors'[r][s] = "INIT"
    <3>1. CASE UNCHANGED neighbors
      BY <3>1 DEF Silent, NeverAdjacent
    <3>2. CASE neighbors' = [neighbors EXCEPT ![h.to] = Put(@, h.from, HelloState(h))]
      <4>1. DOMAIN neighbors' = Routers
        BY <3>2 DEF Silent
      <4>2. \A s \in DOMAIN Put(neighbors[h.to], h.from, "INIT") :
              Put(neighbors[h.to], h.from, "INIT")[s] = "INIT"
        BY <2>1 DEF Put, NeverAdjacent, Hello
      <4> QED
        BY <3>2, <4>1, <4>2, <2>1, <2>2 DEF NeverAdjacent, Silent, Hello
    <3> QED
      BY <1>5, <3>1, <3>2 DEF DeliverHello
  <2>4. UNCHANGED <<lsdb, router, ports>>
    BY <1>5 DEF DeliverHello
  <2>5. /\ reply' \in [Cyclers -> Routers \cup {None}]
        /\ \A d \in Cyclers : reply'[d] # None => reply[d] # None \/ d = c
    BY <1>5, <2>1 DEF DeliverHello, Silent, Hello
  <2>6. /\ DOMAIN hello' = Cyclers /\ \A d \in Cyclers : HelloEmpty(hello'[d])
        /\ \A d \in Cyclers : hello'[d] # None => hello[d] # None
    BY <1>5 DEF DeliverHello, Silent, HelloEmpty
  <2> QED
    BY <2>1, <2>3, <2>4, <2>5, <2>6 DEF Silent, NeverAdjacent
<1>6. ASSUME NEW c \in Cyclers, SendReply(c) PROVE IInv'
  <2>1. UNCHANGED <<neighbors, lsdb, router, ports>>
    BY <1>6 DEF SendReply
  <2>2. reply[c] \in Routers /\ router[c] \in Routers
    BY <1>6 DEF SendReply, Silent
  <2>3. HelloEmpty(GenerateHello(reply[c], router[c]))
    BY <2>2, HelloListsNobody
  <2>4. /\ DOMAIN hello' = Cyclers /\ \A d \in Cyclers : HelloEmpty(hello'[d])
        /\ \A d \in Cyclers : hello'[d] # None => hello[d] # None \/ d = c
    BY <1>6, <2>3 DEF SendReply, Silent
  <2>5. /\ reply' \in [Cyclers -> Routers \cup {None}]
        /\ \A d \in Cyclers : reply'[d] # None => reply[d] # None
    BY <1>6 DEF SendReply, Silent
  <2> QED
    BY <2>1, <2>2, <2>4, <2>5, OspfAssumption DEF Silent, NeverAdjacent
<1>7. ASSUME NEW c \in Cyclers, FinishRouter(c) PROVE IInv'
  <2> DEFINE r == router[c]
             table == [s \in Alive(c, r) |-> neighbors[r][s]]
             lsa == RouterLsa(r, table)
  <2>1. r \in Routers /\ hello[c] = None /\ reply[c] = None
    BY <1>7 DEF FinishRouter, AtPorts, Silent
  <2>2. \A s \in Alive(c, r) : s \in DOMAIN neighbors[r] /\ neighbors[r][s] = "INIT"
    BY <2>1 DEF Alive, NeverAdjacent
  <2>3. \A s \in DOMAIN table : table[s] = "INIT"
    BY <2>2
  <2>4. lsa.full = {}
    BY <2>3 DEF RouterLsa
  <2>5. /\ neighbors' = [neighbors EXCEPT ![r] = table]
        /\ lsdb' = [q \in Routers |->
                      IF q \in enabled THEN UpdateLSDB(lsdb[q], r, lsa) ELSE lsdb[q]]
        /\ UNCHANGED <<ports, hello, reply>>
    BY <1>7 DEF FinishRouter
  <2>6. /\ router' \in [Cyclers -> Routers \cup {None}]
        /\ \A d \in Cyclers : router[d] # None => router'[d] # None \/ d = c
    BY <1>7 DEF FinishRouter, Silent
  <2>7. /\ DOMAIN neighbors' = Routers
        /\ \A q \in Routers : \A s \in DOMAIN neighbors'[q] : neighbors'[q][s] = "INIT"
    <3> HIDE DEF table
    <3> QED BY <2>1, <2>3, <2>5 DEF Silent, NeverAdjacent
  <2>8. \A q \in Routers : \A x \in DOMAIN lsdb'[q] : lsdb'[q][x].full = {}
    <3> SUFFICES ASSUME NEW q \in Routers, NEW x \in DOMAIN lsdb'[q]
                 PROVE  lsdb'[q][x].full = {}
      OBVIOUS
    <3> HIDE DEF lsa
    <3>1. CASE lsdb'[q] = lsdb[q]
      BY <3>1 DEF NeverAdjacent
    <3>2. CASE lsdb'[q] = Put(lsdb[q], r, lsa)
      BY <3>2, <2>4 DEF NeverAdjacent, Put
    <3> QED
      BY <2>5, <3>1, <3>2 DEF UpdateLSDB
  <2> QED
    BY <2>1, <2>5, <2>6, <2>7, <2>8 DEF Silent, NeverAdjacent
<1>8. CASE UNCHANGED <<neighbors, lsdb, router, ports, hello, reply>>
  BY <1>8 DEF Silent, NeverAdjacent
<1>9. ASSUME NEW r \in Routers \cup Gateways, EnableOspf(r) \/ \E n \in Subnets : ConnectSubnet(r, n)
      PROVE  UNCHANGED <<neighbors, lsdb, router, ports, hello, reply>>
  BY <1>9 DEF EnableOspf, ConnectSubnet, cycleVars
<1>10. ASSUME NEW p \in Ports \cup ShutPorts, EnableInterface(p) \/ Shutdown(p)
       PROVE  UNCHANGED <<neighbors, lsdb, router, ports, hello, reply>>
  BY <1>10 DEF EnableInterface, Shutdown, cycleVars
<1>11. ASSUME NEW c \in Cables, RemoveLink(c)
       PROVE  UNCHANGED <<neighbors, lsdb, router, ports, hello, reply>>
  BY <1>11 DEF RemoveLink, cycleVars
<1>12. UNCHANGED vars => UNCHANGED <<neighbors, lsdb, router, ports, hello, reply>>
  BY DEF vars, cycleVars
<1> QED
  BY <1>1, <1>2, <1>3, <1>4, <1>5, <1>6, <1>7, <1>8, <1>9, <1>10, <1>11, <1>12
     DEF Next, RunOspfHelloCycle

LEMMA InitIInv == Init => IInv
  BY DEF Init, IInv, Silent, NeverAdjacent, HelloEmpty

(* The hello handshake never completes: whatever the routers, the links,   *)
(* the overlap of hello cycles and the user do, every neighbour stays in   *)
(* INIT and no LSA ever names one.                                         *)
THEOREM HandshakeNeverCompletes == Spec => []NeverAdjacent
<1>1. IInv => NeverAdjacent
  BY DEF IInv
<1> QED
  BY InitIInv, NextKeepsIInv, <1>1, PTL DEF Spec

(* --- Nobody is late by more than one interval --------------------------------- *)
Tables ==
    /\ DOMAIN neighbors = Routers
    /\ \A r \in Routers : /\ DOMAIN neighbors[r] \subseteq Routers
                          /\ \A s \in DOMAIN neighbors[r] : neighbors[r][s] \in {"INIT", "2-WAY", "FULL"}
    /\ DOMAIN lsdb = Routers
    /\ \A r \in Routers : /\ DOMAIN lsdb[r] \subseteq Routers
                          /\ \A x \in DOMAIN lsdb[r] : lsdb[r][x] \in Lsa
UserTypes ==
    /\ enabled \subseteq Routers /\ interfaces \subseteq Ports
    /\ links \subseteq Cables /\ up \subseteq Ports
    /\ subnets \in [Routers -> SUBSET Subnets]
CycleTypes ==
    /\ cycle \in [Cyclers -> SUBSET Routers] /\ ports \in [Cyclers -> SUBSET Routers]
    /\ router \in [Cyclers -> enabled \cup {None}] /\ reply \in [Cyclers -> enabled \cup {None}]
    /\ hello \in [Cyclers -> Hello \cup {None}]
    /\ \A c \in Cyclers : /\ hello[c] # None \/ reply[c] # None => router[c] # None
                          /\ hello[c] # None => hello[c].from \in enabled /\ hello[c].to \in enabled
    /\ stale \in [Cyclers -> BOOLEAN]

(* The clock of the loop's cycle is right, so what it has dropped the dead *)
(* neighbours of has none; and without OSPF a router has no neighbours.    *)
Timely ==
    /\ age \in [Routers -> [Routers -> 0 .. DeadCycles + 1]]
    /\ ~stale[Loop]
    /\ \A r \in Routers : r \notin cycle[Loop] /\ r # router[Loop] =>
          \A s \in DOMAIN neighbors[r] : age[r][s] <= DeadCycles
    /\ \A r \in Routers \ enabled : DOMAIN neighbors[r] = {}

TInv == Tables /\ UserTypes /\ CycleTypes /\ Timely

LEMMA InitTInv == Init => TInv
<1> SUFFICES ASSUME Init PROVE TInv
  OBVIOUS
<1> USE OspfAssumption
<1>1. Tables
  BY DEF Init, Tables
<1>2. UserTypes /\ CycleTypes
  BY DEF Init, UserTypes, CycleTypes
<1>3. Timely
  <2>1. 0 \in 0 .. DeadCycles + 1 /\ Loop \in Cyclers
    BY DEF Cyclers
  <2> QED
    BY <2>1 DEF Init, Timely
<1> QED
  BY <1>1, <1>2, <1>3 DEF TInv

(* An entry for a neighbour that was just heard.                           *)
LEMMA PutTyped ==
    ASSUME NEW S, NEW T, NEW map, DOMAIN map \subseteq S, \A x \in DOMAIN map : map[x] \in T,
           NEW k \in S, NEW v \in T
    PROVE  /\ DOMAIN Put(map, k, v) = DOMAIN map \cup {k} /\ DOMAIN Put(map, k, v) \subseteq S
           /\ \A x \in DOMAIN Put(map, k, v) : Put(map, k, v)[x] \in T
  BY DEF Put

LEMMA TimerTInv ==
    ASSUME TInv, OspfTimer \/ ConfigCycle
    PROVE  TInv'
<1> USE OspfAssumption
<1>0. Loop \in Cyclers /\ Conn \in Cyclers /\ Loop # Conn
  BY DEF Cyclers, Loop, Conn
<1>1. Tables' /\ UserTypes'
  BY DEF TInv, Tables, UserTypes, OspfTimer, ConfigCycle, userVars
<1>2. CycleTypes'
  <2>1. UNCHANGED <<enabled, router, ports, hello, reply>>
    BY DEF OspfTimer, ConfigCycle, userVars
  <2>2. Routers \in SUBSET Routers /\ (~Idle(Conn)) \in BOOLEAN
    BY DEF Idle
  <2>3. cycle' \in [Cyclers -> SUBSET Routers] /\ stale' \in [Cyclers -> BOOLEAN]
    <3>1. cycle \in [Cyclers -> SUBSET Routers] /\ stale \in [Cyclers -> BOOLEAN]
      BY DEF TInv, CycleTypes
    <3>2. \A d \in Cyclers, C \in SUBSET Routers : [cycle EXCEPT ![d] = C] \in [Cyclers -> SUBSET Routers]
      BY <3>1
    <3>3. \A d \in Cyclers, b \in BOOLEAN : [stale EXCEPT ![d] = b] \in [Cyclers -> BOOLEAN]
      BY <3>1
    <3>4. CASE OspfTimer
      BY <1>0, <2>2, <3>2, <3>3, <3>4 DEF OspfTimer
    <3>5. CASE ConfigCycle
      BY <1>0, <2>2, <3>2, <3>3, <3>5 DEF ConfigCycle
    <3> QED
      BY <3>4, <3>5
  <2> QED
    BY <2>1, <2>3 DEF TInv, CycleTypes
<1>3. CASE OspfTimer
  <2>1. ASSUME NEW r \in Routers, NEW s \in Routers
        PROVE  age'[r][s] = (IF s \in DOMAIN neighbors[r] THEN age[r][s] + 1 ELSE 0)
    BY <1>3 DEF OspfTimer
  <2>2. \A r \in Routers : \A s \in DOMAIN neighbors[r] : age[r][s] <= DeadCycles
    BY <1>0, <1>3 DEF OspfTimer, Idle, TInv, Timely, CycleTypes
  <2>3. \A r \in Routers, s \in Routers : age'[r][s] \in 0 .. DeadCycles + 1
    <3> SUFFICES ASSUME NEW r \in Routers, NEW s \in Routers PROVE age'[r][s] \in 0 .. DeadCycles + 1
      OBVIOUS
    <3>1. age[r][s] \in 0 .. DeadCycles + 1
      BY DEF TInv, Timely
    <3> QED
      BY <2>1, <2>2, <3>1
  <2>4. age' \in [Routers -> [Routers -> 0 .. DeadCycles + 1]]
    <3>1. age' = [r \in Routers |-> [s \in Routers |-> age'[r][s]]]
      BY <1>3 DEF OspfTimer
    <3> QED
      BY <2>3, <3>1
  <2>5. cycle'[Loop] = Routers /\ ~stale'[Loop]
    BY <1>0, <1>3 DEF OspfTimer, TInv, CycleTypes, Timely
  <2>6. UNCHANGED <<neighbors, enabled>>
    BY <1>3 DEF OspfTimer, userVars
  <2>7. Timely'
    BY <2>4, <2>5, <2>6 DEF TInv, Timely
  <2> QED
    BY <1>1, <1>2, <2>7 DEF TInv
<1>4. CASE ConfigCycle
  <2>1. Timely'
    BY <1>0, <1>4 DEF ConfigCycle, userVars, TInv, Timely, CycleTypes
  <2> QED
    BY <1>1, <1>2, <2>1 DEF TInv
<1> QED
  BY <1>3, <1>4

LEMMA CycleTInv ==
    ASSUME TInv, NEW c \in Cyclers, RunOspfHelloCycle(c)
    PROVE  TInv'
<1> USE OspfAssumption
<1>0. Loop \in Cyclers
  BY DEF Cyclers
<1>u. UNCHANGED userVars
  BY DEF RunOspfHelloCycle, NextRouter, SendHello, DeliverHello, SendReply, FinishRouter
<1>v. UserTypes' /\ enabled' = enabled
  BY <1>u DEF TInv, UserTypes, userVars
<1>1. ASSUME NEW r \in Routers, NextRouter(c, r) PROVE TInv'
  <2>1. UNCHANGED <<neighbors, age, lsdb, hello, reply, stale>>
    BY <1>1 DEF NextRouter
  <2>2. /\ cycle' \in [Cyclers -> SUBSET Routers]
        /\ router' \in [Cyclers -> enabled \cup {None}]
        /\ \A d \in Cyclers : router[d] # None => router'[d] # None
    BY <1>1 DEF NextRouter, TInv, CycleTypes
  <2>p. ports' \in [Cyclers -> SUBSET Routers]
    <3>1. \A P \in SUBSET Routers : [ports EXCEPT ![c] = P] \in [Cyclers -> SUBSET Routers]
      BY DEF TInv, CycleTypes
    <3>2. {s \in Routers : <<r, s>> \in interfaces} \in SUBSET Routers
      OBVIOUS
    <3>3. ports' = ports \/ ports' = [ports EXCEPT ![c] = {s \in Routers : <<r, s>> \in interfaces}]
      BY <1>1 DEF NextRouter
    <3>4. ports \in [Cyclers -> SUBSET Routers]
      BY DEF TInv, CycleTypes
    <3> QED
      BY <3>1, <3>2, <3>3, <3>4
  <2>3. CycleTypes'
    BY <1>v, <2>1, <2>2, <2>p DEF TInv, CycleTypes
  <2>4. ASSUME NEW q \in Routers, q \notin cycle'[Loop], q # router'[Loop], NEW s \in DOMAIN neighbors[q]
        PROVE  age[q][s] <= DeadCycles
    <3>1. q \in enabled
      BY <2>4 DEF TInv, Timely
    <3>2. q \notin cycle[Loop] /\ q # router[Loop]
      BY <1>0, <1>1, <2>4, <3>1 DEF NextRouter, TInv, CycleTypes
    <3> QED
      BY <2>4, <3>2 DEF TInv, Timely
  <2>5. Timely'
    BY <1>v, <2>1, <2>4 DEF TInv, Timely
  <2> QED
    BY <1>v, <2>1, <2>3, <2>5 DEF TInv, Tables
<1>2. ASSUME NEW s \in Routers, SendHello(c, s) PROVE TInv'
  <2>1. UNCHANGED <<neighbors, age, lsdb, cycle, router, reply, stale>>
    BY <1>2 DEF SendHello
  <2>2. router[c] \in enabled /\ router[c] \in Routers
    BY <1>2 DEF SendHello, AtPorts, TInv, CycleTypes, UserTypes
  <2>3. GenerateHello(router[c], s) \in Hello
    BY <2>2 DEF GenerateHello, ActiveNeighbors, Hello, TInv, Tables
  <2>4. GenerateHello(router[c], s).from = router[c] /\ GenerateHello(router[c], s).to = s
    BY DEF GenerateHello
  <2>5. /\ \/ hello' = hello
           \/ s \in enabled /\ hello' = [hello EXCEPT ![c] = GenerateHello(router[c], s)]
        /\ ports' = [ports EXCEPT ![c] = ports[c] \ {s}]
    BY <1>2 DEF SendHello
  <2>6. CycleTypes'
    BY <1>v, <2>1, <2>2, <2>3, <2>4, <2>5 DEF TInv, CycleTypes
  <2> QED
    BY <1>v, <2>1, <2>6 DEF TInv, Tables, Timely
<1>3. CASE DeliverHello(c)
  <2>h. PICK h : h = hello[c]
    OBVIOUS
  <2>1. h \in Hello /\ h.from \in enabled /\ h.to \in enabled /\ h.from \in Routers /\ h.to \in Routers
    BY <1>3, <2>h DEF DeliverHello, TInv, CycleTypes, Hello
  <2>2. UNCHANGED <<lsdb, cycle, router, ports, stale>>
    BY <1>3 DEF DeliverHello
  <2>3. CycleTypes'
    <3>1. /\ hello' = [hello EXCEPT ![c] = None]
          /\ reply' = [reply EXCEPT ![c] = IF h.from = router[c] THEN h.to ELSE None]
          /\ router[c] # None
      BY <1>3, <2>h DEF DeliverHello, TInv, CycleTypes
    <3> QED
      BY <1>v, <2>1, <2>2, <3>1 DEF TInv, CycleTypes
  <2>4. \/ UNCHANGED <<neighbors, age>>
        \/ /\ neighbors' = [neighbors EXCEPT ![h.to] = Put(@, h.from, HelloState(h))]
           /\ age' = [age EXCEPT ![h.to][h.from] = 0]
    BY <1>3, <2>h DEF DeliverHello
  <2>5. CASE UNCHANGED <<neighbors, age>>
    BY <1>v, <2>2, <2>3, <2>5 DEF TInv, Tables, Timely
  <2>6. CASE /\ neighbors' = [neighbors EXCEPT ![h.to] = Put(@, h.from, HelloState(h))]
             /\ age' = [age EXCEPT ![h.to][h.from] = 0]
    <3>1. HelloState(h) \in {"INIT", "2-WAY", "FULL"}
      BY DEF HelloState
    <3> DEFINE new == Put(neighbors[h.to], h.from, HelloState(h))
    <3>2. /\ DOMAIN new = DOMAIN neighbors[h.to] \cup {h.from} /\ DOMAIN new \subseteq Routers
          /\ \A s \in DOMAIN new : new[s] \in {"INIT", "2-WAY", "FULL"}
      <4>1. /\ DOMAIN neighbors[h.to] \subseteq Routers
            /\ \A s \in DOMAIN neighbors[h.to] : neighbors[h.to][s] \in {"INIT", "2-WAY", "FULL"}
        BY <2>1 DEF TInv, Tables
      <4>2. PICK map, T : map = neighbors[h.to] /\ T = {"INIT", "2-WAY", "FULL"}
        OBVIOUS
      <4>d. DOMAIN map \subseteq Routers /\ (\A x \in DOMAIN map : map[x] \in T) /\ h.from \in Routers
        BY <2>1, <4>1, <4>2
      <4>p. PICK from : from = h.from
        OBVIOUS
      <4>3. \A v \in T : /\ DOMAIN Put(map, from, v) = DOMAIN map \cup {from}
                         /\ DOMAIN Put(map, from, v) \subseteq Routers
                         /\ \A s \in DOMAIN Put(map, from, v) : Put(map, from, v)[s] \in T
        BY <4>d, <4>p DEF Put
      <4> QED
        BY <3>1, <4>2, <4>p, <4>3
    <3> HIDE DEF new
    <3>3. DOMAIN neighbors' = Routers /\ neighbors'[h.to] = new /\ \A q \in Routers \ {h.to} : neighbors'[q] = neighbors[q]
      BY <2>1, <2>6 DEF TInv, Tables, new
    <3>4. Tables'
      BY <2>2, <3>2, <3>3 DEF TInv, Tables
    <3>5. /\ age' \in [Routers -> [Routers -> 0 .. DeadCycles + 1]]
          /\ \A q, s \in Routers : age'[q][s] = (IF q = h.to /\ s = h.from THEN 0 ELSE age[q][s])
      BY <2>1, <2>6 DEF TInv, Timely
    <3>6. ASSUME NEW q \in Routers, q \notin cycle[Loop], q # router[Loop], NEW s \in DOMAIN neighbors'[q]
          PROVE  age'[q][s] <= DeadCycles
      <4>1. s \in Routers
        BY <3>6, <3>4 DEF Tables
      <4>2. CASE q = h.to /\ s = h.from
        BY <2>1, <3>5, <4>2
      <4>3. CASE ~(q = h.to /\ s = h.from)
        <5>1. s \in DOMAIN neighbors[q]
          BY <3>2, <3>3, <3>6, <4>3
        <5> QED
          BY <3>5, <3>6, <4>1, <4>3, <5>1 DEF TInv, Timely
      <4> QED
        BY <4>2, <4>3
    <3>7. \A q \in Routers \ enabled : DOMAIN neighbors'[q] = {}
      BY <2>1, <3>3 DEF TInv, Timely
    <3>8. Timely'
      BY <1>v, <2>2, <3>5, <3>6, <3>7 DEF TInv, Timely
    <3> QED
      BY <1>v, <2>3, <3>4, <3>8 DEF TInv
  <2> QED
    BY <2>4, <2>5, <2>6
<1>4. CASE SendReply(c)
  <2>1. UNCHANGED <<neighbors, age, lsdb, cycle, router, ports, stale>>
    BY <1>4 DEF SendReply
  <2>2. reply[c] \in enabled /\ router[c] \in enabled /\ reply[c] \in Routers /\ router[c] \in Routers
    BY <1>4 DEF SendReply, TInv, CycleTypes, UserTypes
  <2>3. GenerateHello(reply[c], router[c]) \in Hello
    BY <2>2 DEF GenerateHello, ActiveNeighbors, Hello, TInv, Tables
  <2>4. GenerateHello(reply[c], router[c]).from = reply[c] /\ GenerateHello(reply[c], router[c]).to = router[c]
    BY DEF GenerateHello
  <2>5. /\ hello' = [hello EXCEPT ![c] = GenerateHello(reply[c], router[c])]
        /\ reply' = [reply EXCEPT ![c] = None]
    BY <1>4 DEF SendReply
  <2>6. CycleTypes'
    BY <1>v, <2>1, <2>2, <2>3, <2>4, <2>5 DEF TInv, CycleTypes
  <2> QED
    BY <1>v, <2>1, <2>6 DEF TInv, Tables, Timely
<1>5. CASE FinishRouter(c)
  <2>r. PICK r : r = router[c]
    OBVIOUS
  <2> DEFINE table == [s \in Alive(c, r) |-> neighbors[r][s]]
             lsa == RouterLsa(r, table)
  <2>1. r \in Routers
    BY <1>5, <2>r DEF FinishRouter, AtPorts, TInv, CycleTypes, UserTypes
  <2>2. /\ neighbors' = [neighbors EXCEPT ![r] = table]
        /\ lsdb' = [q \in Routers |-> IF q \in enabled THEN UpdateLSDB(lsdb[q], r, lsa) ELSE lsdb[q]]
        /\ router' = [router EXCEPT ![c] = None]
        /\ hello[c] = None /\ reply[c] = None
        /\ UNCHANGED <<age, cycle, ports, hello, reply, stale>>
    BY <1>5, <2>r DEF FinishRouter, AtPorts
  <2>3. /\ DOMAIN table = Alive(c, r) /\ Alive(c, r) \subseteq DOMAIN neighbors[r]
        /\ \A s \in DOMAIN table : table[s] = neighbors[r][s]
    BY DEF Alive
  <2>4. lsa \in Lsa
    BY <2>1, <2>3 DEF RouterLsa, Lsa, TInv, Tables, UserTypes
  <2> HIDE DEF table, lsa
  <2>5. DOMAIN neighbors' = Routers /\ neighbors'[r] = table /\ \A q \in Routers \ {r} : neighbors'[q] = neighbors[q]
    BY <2>1, <2>2 DEF TInv, Tables
  <2>6. \A q \in Routers : DOMAIN lsdb'[q] \subseteq Routers /\ \A x \in DOMAIN lsdb'[q] : lsdb'[q][x] \in Lsa
    <3> SUFFICES ASSUME NEW q \in Routers
                 PROVE  DOMAIN lsdb'[q] \subseteq Routers /\ \A x \in DOMAIN lsdb'[q] : lsdb'[q][x] \in Lsa
      OBVIOUS
    <3>0. DOMAIN lsdb[q] \subseteq Routers /\ \A x \in DOMAIN lsdb[q] : lsdb[q][x] \in Lsa
      BY DEF TInv, Tables
    <3>1. CASE lsdb'[q] = lsdb[q]
      BY <3>0, <3>1
    <3>2. CASE lsdb'[q] = Put(lsdb[q], r, lsa)
      <4>1. /\ DOMAIN Put(lsdb[q], r, lsa) \subseteq Routers
            /\ \A x \in DOMAIN Put(lsdb[q], r, lsa) : Put(lsdb[q], r, lsa)[x] \in Lsa
        BY <2>1, <2>4, <3>0, PutTyped
      <4> QED
        BY <3>2, <4>1
    <3> QED
      BY <2>2, <3>1, <3>2 DEF UpdateLSDB
  <2>7. Tables'
    <3>1. DOMAIN lsdb' = Routers
      BY <2>2
    <3>2. \A q \in Routers : /\ DOMAIN neighbors'[q] \subseteq DOMAIN neighbors[q]
                            /\ \A s \in DOMAIN neighbors'[q] : neighbors'[q][s] = neighbors[q][s]
      BY <2>3, <2>5
    <3> QED
      BY <2>5, <2>6, <3>1, <3>2 DEF TInv, Tables
  <2>8. CycleTypes'
    BY <1>v, <2>2 DEF TInv, CycleTypes
  <2>9. ASSUME NEW q \in Routers, q \notin cycle[Loop], q # router'[Loop], NEW s \in DOMAIN neighbors'[q]
        PROVE  age[q][s] <= DeadCycles
    <3>1. s \in DOMAIN neighbors[q]
      BY <2>3, <2>5, <2>9
    <3>2. CASE q # router[Loop]
      BY <2>9, <3>1, <3>2 DEF TInv, Timely
    <3>3. CASE q = router[Loop]
      <4>1. c = Loop /\ q = r
        BY <1>0, <2>2, <2>9, <2>r, <3>3 DEF TInv, CycleTypes
      <4>2. ~stale[c]
        BY <4>1 DEF TInv, Timely
      <4>3. s \in Alive(c, r)
        BY <2>3, <2>5, <2>9, <4>1
      <4> QED
        BY <4>1, <4>2, <4>3 DEF Alive
    <3> QED
      BY <3>2, <3>3
  <2>10. Timely'
    BY <1>v, <2>2, <2>3, <2>5, <2>9 DEF TInv, Timely
  <2> QED
    BY <1>v, <2>7, <2>8, <2>10 DEF TInv
<1> QED
  BY <1>1, <1>2, <1>3, <1>4, <1>5 DEF RunOspfHelloCycle

LEMMA UserTInv ==
    ASSUME TInv,
           \/ \E r \in Routers : EnableOspf(r)
           \/ \E r \in Gateways, n \in Subnets : ConnectSubnet(r, n)
           \/ \E p \in Ports : EnableInterface(p)
           \/ \E p \in ShutPorts : Shutdown(p)
           \/ \E c \in Cables : RemoveLink(c)
           \/ UNCHANGED vars
    PROVE  TInv'
<1>1. UNCHANGED <<neighbors, age, lsdb, cycleVars>> /\ enabled \subseteq enabled'
  BY DEF EnableOspf, ConnectSubnet, EnableInterface, Shutdown, RemoveLink, vars, userVars
<1>2. UserTypes'
  BY OspfAssumption DEF EnableOspf, ConnectSubnet, EnableInterface, Shutdown, RemoveLink, vars, userVars, TInv, UserTypes
<1>3. Tables' /\ Timely'
  BY <1>1 DEF TInv, Tables, Timely, cycleVars
<1>4. CycleTypes'
  BY <1>1 DEF TInv, CycleTypes, cycleVars
<1> QED
  BY <1>2, <1>3, <1>4 DEF TInv

(* A silent neighbour is dropped before it is late by more than one hello  *)
(* interval, whatever cycles with older clocks run beside the loop's; and  *)
(* every value has its type.                                               *)
THEOREM NeighborsStaySound == Spec => []NeighborsSound
<1>1. TInv /\ [Next]_vars => TInv'
  BY TimerTInv, CycleTInv, UserTInv DEF Next
<1>2. TInv => TypeOK
  BY DEF TInv, Tables, UserTypes, CycleTypes, Timely, TypeOK
<1>3. Init => TInv /\ IInv
  BY InitTInv, InitIInv
<1>4. IInv /\ [Next]_vars => IInv'
  BY NextKeepsIInv
<1>5. TInv /\ IInv => NeighborsSound
  BY <1>2 DEF IInv, NeighborsSound
<1> QED
  BY <1>1, <1>3, <1>4, <1>5, PTL DEF Spec
=============================================================================
