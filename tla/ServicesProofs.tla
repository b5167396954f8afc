--------------------------- MODULE ServicesProofs ---------------------------
(* Proofs about parts that share no variable with one another: the         *)
(* protocols on timers of their own (HSRP, CDP, VTP and BGP, in this       *)
(* order), and the topology with its files, tunnels and DHCP pools.  Each  *)
(* section has its inductive invariant, one lemma for each action or part  *)
(* of it that disturbs the invariant, and the theorems at its end.         *)
EXTENDS Hsrp, Cdp, Vtp, Bgp, Lab,
        FiniteSetTheorems, SequenceTheorems, WellFoundedInduction, TLAPS

-----------------------------------------------------------------------------
(* HSRP: types, and what keeps an Active router Active.                     *)

HsrpTypes ==
    /\ routers \subseteq Routers
    /\ made \in 0 .. MaxConfigs
    /\ heap \in [1 .. made -> Group]
    /\ HSRPGroups \in [Routers -> {None} \cup 1 .. made]
    /\ \A r \in Routers : HSRPGroups[r] # None => heap[HSRPGroups[r]].router = r
    /\ pc \in [Electors -> {"idle", "collect", "write"}]
    /\ todo \in [Electors -> SUBSET Routers]
    /\ cands \in [Electors -> SUBSET (1 .. made)]
    /\ best \in [Electors -> SUBSET (1 .. made)]
    /\ tested \in [Electors -> SUBSET (1 .. made)]
    /\ newer \subseteq 1 .. made

(* A state that is written leaves the rest of the group as it is.          *)
LEMMA StateWritten ==
    ASSUME HsrpTypes, NEW o \in 1 .. made, NEW s \in {"Listen", "Standby", "Active"},
           SetState(o, s), made' = made
    PROVE  /\ heap' \in [1 .. made -> Group]
           /\ \A q \in 1 .. made :
                /\ heap'[q].router = heap[q].router
                /\ heap'[q].vip = heap[q].vip /\ heap'[q].priority = heap[q].priority
                /\ q # o => heap'[q] = heap[q]
           /\ heap'[o].state = s
<1>1. heap \in [1 .. made -> Group] /\ heap' = [heap EXCEPT ![o] = [heap[o] EXCEPT !.state = s]]
  BY DEF HsrpTypes, SetState
<1>2. /\ [heap[o] EXCEPT !.state = s] \in Group
      /\ [heap[o] EXCEPT !.state = s].router = heap[o].router
      /\ [heap[o] EXCEPT !.state = s].vip = heap[o].vip
      /\ [heap[o] EXCEPT !.state = s].priority = heap[o].priority
      /\ [heap[o] EXCEPT !.state = s].state = s
  BY <1>1 DEF Group
<1> QED BY <1>1, <1>2

LEMMA WriteKeepsTypes ==
    ASSUME HsrpTypes, NEW e \in Electors, NEW o,
           \/ o \in cands[e] /\ (WriteActive(e, o) \/ TestOther(e, o))
           \/ WriteStandby(e, o)
    PROVE  HsrpTypes'
<1>0. o \in 1 .. made /\ UNCHANGED <<routers, HSRPGroups, made, pc, todo, best>>
  BY DEF HsrpTypes, WriteActive, TestOther, WriteStandby
<1>1. /\ heap' \in [1 .. made -> Group]
      /\ \A q \in 1 .. made : heap'[q].router = heap[q].router
  <2>1. heap' = heap \/ \E s \in {"Standby", "Active"} : SetState(o, s)
    BY DEF WriteActive, TestOther, WriteStandby
  <2>2. CASE heap' = heap
    BY <2>2 DEF HsrpTypes
  <2>3. ASSUME NEW s \in {"Standby", "Active"}, SetState(o, s)
        PROVE  /\ heap' \in [1 .. made -> Group]
               /\ \A q \in 1 .. made : heap'[q].router = heap[q].router
    BY <1>0, <2>3, StateWritten
  <2> QED BY <2>1, <2>2, <2>3
<1>2. cands' \in [Electors -> SUBSET (1 .. made)] /\ newer' \subseteq 1 .. made
  BY <1>0 DEF HsrpTypes, WriteActive, TestOther, WriteStandby
<1>3. tested' \in [Electors -> SUBSET (1 .. made)]
  <2>1. {q \in {o} : heap[q].state # "Active"} \in SUBSET (1 .. made)
    BY <1>0
  <2> QED BY <2>1 DEF HsrpTypes, WriteActive, TestOther, WriteStandby
<1>4. \A r \in Routers : HSRPGroups'[r] # None => heap'[HSRPGroups'[r]].router = r
  BY <1>0, <1>1 DEF HsrpTypes
<1> QED BY <1>0, <1>1, <1>2, <1>3, <1>4 DEF HsrpTypes

LEMMA HsrpTypesStep ==
    ASSUME HsrpTypes, [Next]_vars
    PROVE  HsrpTypes'
<1> USE HsrpAssumption
<1>1. CASE UNCHANGED vars
  BY <1>1 DEF vars, HsrpTypes
<1>2. ASSUME NEW r \in Routers, NEW v \in VIPs, NEW p \in Priorities, ConfigureHSRP(r, v, p)
      PROVE  HsrpTypes'
  <2> DEFINE new == [router |-> r, vip |-> v, priority |-> p, state |-> "Listen"]
  <2>1. made' = made + 1 /\ made' \in 0 .. MaxConfigs /\ made \in Nat /\ routers' = routers
    BY <1>2 DEF ConfigureHSRP, HsrpTypes
  <2>2. /\ heap' = [o \in 1 .. made' |-> IF o <= made THEN heap[o] ELSE new]
        /\ HSRPGroups' = [HSRPGroups EXCEPT ![r] = made']
    BY <1>2, <2>1 DEF ConfigureHSRP
  <2>3. new \in Group
    BY DEF Group
  <2>4. \A o \in 1 .. made : o \in 1 .. made' /\ heap'[o] = heap[o]
    BY <2>1, <2>2
  <2>5. heap'[made'] = new
    BY <2>1, <2>2
  <2>6. heap' \in [1 .. made' -> Group]
    <3> HIDE DEF new
    <3>1. \A o \in 1 .. made' : o <= made => o \in 1 .. made
      BY <2>1
    <3> QED BY <2>2, <2>3, <3>1 DEF HsrpTypes
  <2>7. HSRPGroups' \in [Routers -> {None} \cup 1 .. made']
    BY <2>1, <2>2, <2>4 DEF HsrpTypes
  <2>8. ASSUME NEW q \in Routers, HSRPGroups'[q] # None PROVE heap'[HSRPGroups'[q]].router = q
    <3>1. CASE q = r
      BY <2>2, <2>5, <3>1 DEF HsrpTypes
    <3>2. CASE q # r
      <4>1. HSRPGroups'[q] = HSRPGroups[q] /\ HSRPGroups[q] \in 1 .. made
        BY <2>2, <2>8, <3>2 DEF HsrpTypes
      <4> QED BY <2>4, <2>8, <4>1 DEF HsrpTypes
    <3> QED BY <3>1, <3>2
  <2>9. /\ pc' \in [Electors -> {"idle", "collect", "write"}]
        /\ todo' \in [Electors -> SUBSET Routers]
        /\ cands' \in [Electors -> SUBSET (1 .. made')]
        /\ best' \in [Electors -> SUBSET (1 .. made')]
        /\ tested' \in [Electors -> SUBSET (1 .. made')]
        /\ newer' \subseteq 1 .. made'
    <3>1. \A S \in SUBSET (1 .. made) : S \in SUBSET (1 .. made')
      BY <2>4
    <3> QED BY <1>2, <3>1 DEF ConfigureHSRP, StartElection, HsrpTypes, Electors, Conn
  <2> QED BY <2>1, <2>6, <2>7, <2>8, <2>9 DEF HsrpTypes
<1>3. CASE HSRPTimer
  BY <1>3 DEF HSRPTimer, StartElection, HsrpTypes, Electors, Loop
<1>4. ASSUME NEW e \in Electors, NEW r \in todo[e], Collect(e, r) PROVE HsrpTypes'
  <2>1. HSRPGroups[r] = None \/ HSRPGroups[r] \in 1 .. made
    BY DEF HsrpTypes
  <2>2. cands' \in [Electors -> SUBSET (1 .. made)] /\ todo' \in [Electors -> SUBSET Routers]
    BY <1>4, <2>1 DEF Collect, HsrpTypes
  <2> QED BY <1>4, <2>2 DEF Collect, HsrpTypes
<1>5. ASSUME NEW e \in Electors, Decide(e) PROVE HsrpTypes'
  BY <1>5 DEF Decide, HsrpTypes, IsBest
<1>6. ASSUME NEW e \in Electors, EndElection(e) PROVE HsrpTypes'
  BY <1>6 DEF EndElection, HsrpTypes
<1>7. ASSUME NEW r \in Routers, RemoveRouter(r) PROVE HsrpTypes'
  BY <1>7 DEF RemoveRouter, HsrpTypes, electionVars
<1> QED
  BY <1>1, <1>2, <1>3, <1>4, <1>5, <1>6, <1>7, WriteKeepsTypes DEF Next, RunHSRPElection

LEMMA HsrpHolds == Spec => []HsrpTypes
<1>1. Init => HsrpTypes
  <2>1. 1 .. 0 = {} /\ <<>> = [o \in 1 .. 0 |-> 0] /\ DOMAIN <<>> = {}
    OBVIOUS
  <2> QED BY <2>1, HsrpAssumption DEF Init, HsrpTypes
<1> QED BY <1>1, HsrpTypesStep, PTL DEF Spec

THEOREM HsrpTypeCorrect == Spec => []TypeOK
<1>1. HsrpTypes => TypeOK
  BY DEF HsrpTypes, TypeOK
<1> QED BY <1>1, HsrpHolds, PTL

(* What an election holds in hand: a group it will not elect gives way to  *)
(* one of the same address that it does not outrank, and a group it has    *)
(* tested is not Active, unless it became so since.                        *)
GivesWay(e, o) ==
    \E b \in best[e] : heap[b].vip = heap[o].vip /\ heap[o].priority <= heap[b].priority

TestsHold ==
    \A e \in Electors :
        /\ pc[e] = "write" => \A o \in cands[e] : GivesWay(e, o)
        /\ tested[e] # {} => pc[e] = "write"
        /\ \A o \in tested[e] : GivesWay(e, o) /\ (heap[o].state = "Active" => o \in newer)

(* GivesWay looks at nothing that an assignment of State changes.          *)
LEMMA GivesWayKept ==
    ASSUME HsrpTypes, NEW e \in Electors, best'[e] = best[e], NEW o \in 1 .. made, GivesWay(e, o),
           \A q \in 1 .. made : heap'[q].vip = heap[q].vip /\ heap'[q].priority = heap[q].priority
    PROVE  GivesWay(e, o)'
BY DEF HsrpTypes, GivesWay

(* An election that has decided has a better group for every candidate.    *)
LEMMA DecideElects ==
    ASSUME HsrpTypes, NEW e \in Electors, Decide(e)
    PROVE  \A o \in cands[e] : GivesWay(e, o)'
<1> SUFFICES ASSUME NEW o \in cands[e] PROVE GivesWay(e, o)'
  OBVIOUS
<1>1. PICK b \in SUBSET {q \in cands[e] : IsBest(e, q)} :
        /\ \A v \in {heap[q].vip : q \in cands[e]} : Cardinality({q \in b : heap[q].vip = v}) = 1
        /\ best' = [best EXCEPT ![e] = b]
  BY DEF Decide
<1>2. {q \in b : heap[q].vip = heap[o].vip} # {}
  <2>1. Cardinality({q \in b : heap[q].vip = heap[o].vip}) = 1
    BY <1>1
  <2>2. \A S : S = {} => Cardinality(S) = 0
    BY FS_EmptySet, Zenon
  <2> QED BY <2>1, <2>2
<1>3. PICK q \in b : heap[q].vip = heap[o].vip
  BY <1>2
<1>4. heap[o].priority <= heap[q].priority
  BY <1>1, <1>3 DEF IsBest, Candidates
<1>5. best'[e] = b /\ heap' = heap
  BY <1>1 DEF HsrpTypes, Decide
<1> QED BY <1>3, <1>4, <1>5 DEF GivesWay

LEMMA TestsKept ==
    ASSUME HsrpTypes, TestsHold, [Next]_vars
    PROVE  TestsHold'
<1> USE HsrpAssumption
<1>1. CASE UNCHANGED vars
  BY <1>1 DEF vars, TestsHold, GivesWay
<1>2. ASSUME NEW r \in Routers, NEW v \in VIPs, NEW p \in Priorities, ConfigureHSRP(r, v, p)
      PROVE  TestsHold'
  <2>1. \A o \in 1 .. made : heap'[o] = heap[o]
    BY <1>2 DEF ConfigureHSRP, HsrpTypes
  <2>2. /\ UNCHANGED <<best, tested, newer>>
        /\ pc \in [Electors -> {"idle", "collect", "write"}]
        /\ pc' = [pc EXCEPT ![Conn] = "collect"] /\ pc[Conn] = "idle"
        /\ \A e \in Electors : e # Conn => cands'[e] = cands[e]
    BY <1>2 DEF ConfigureHSRP, StartElection, HsrpTypes
  <2>3. ASSUME NEW e \in Electors, NEW o \in 1 .. made, GivesWay(e, o) PROVE GivesWay(e, o)'
    BY <2>1, <2>2, <2>3, GivesWayKept
  <2>4. \A e \in Electors : cands[e] \cup tested[e] \subseteq 1 .. made
    BY DEF HsrpTypes
  <2> QED BY <2>1, <2>2, <2>3, <2>4 DEF TestsHold
<1>3. ASSUME NEW e \in Electors, Decide(e) PROVE TestsHold'
  <2>1. /\ UNCHANGED <<heap, cands, tested, newer>>
        /\ pc' = [pc EXCEPT ![e] = "write"] /\ pc[e] = "collect"
        /\ \A f \in Electors : f # e => best'[f] = best[f]
    BY <1>3 DEF Decide, HsrpTypes
  <2>2. \A f \in Electors : f # e => \A o : GivesWay(f, o) => GivesWay(f, o)'
    BY <2>1 DEF GivesWay
  <2>3. tested[e] = {}
    BY <2>1 DEF TestsHold
  <2> QED BY <1>3, <2>1, <2>2, <2>3, DecideElects DEF TestsHold, HsrpTypes
<1>4. ASSUME NEW e \in Electors, NEW o \in cands[e], WriteActive(e, o) PROVE TestsHold'
  <2>1. o \in 1 .. made /\ UNCHANGED <<made, pc, best, tested>> /\ SetState(o, "Active")
    BY <1>4 DEF WriteActive, HsrpTypes
  <2>2. /\ \A f \in Electors : cands'[f] \subseteq cands[f]
        /\ \A f \in Electors : o \in tested[f] => o \in newer'
        /\ newer \subseteq newer'
    BY <1>4 DEF WriteActive, HsrpTypes
  <2>3. /\ \A q \in 1 .. made : heap'[q].vip = heap[q].vip /\ heap'[q].priority = heap[q].priority
        /\ \A q \in 1 .. made : q # o => heap'[q] = heap[q]
    BY <2>1, StateWritten
  <2>4. ASSUME NEW f \in Electors, NEW q \in 1 .. made, GivesWay(f, q) PROVE GivesWay(f, q)'
    BY <2>1, <2>3, <2>4, GivesWayKept
  <2>5. \A f \in Electors : cands[f] \cup tested[f] \subseteq 1 .. made
    BY DEF HsrpTypes
  <2> QED BY <2>1, <2>2, <2>3, <2>4, <2>5 DEF TestsHold
<1>5. ASSUME NEW e \in Electors, NEW o \in cands[e], TestOther(e, o) PROVE TestsHold'
  <2>1. /\ UNCHANGED <<heap, pc, best, newer>> /\ pc[e] = "write"
        /\ tested' = [tested EXCEPT ![e] = {q \in {o} : heap[q].state # "Active"}]
        /\ \A f \in Electors : cands'[f] \subseteq cands[f]
    BY <1>5 DEF TestOther, HsrpTypes
  <2>2. \A f \in Electors : \A q : GivesWay(f, q) => GivesWay(f, q)'
    BY <2>1 DEF GivesWay
  <2>3. \A f \in Electors : \A q \in tested'[f] :
          q \in tested[f] \/ (f = e /\ q = o /\ heap[q].state # "Active")
    BY <2>1 DEF HsrpTypes
  <2>4. \A f \in Electors : tested'[f] # {} => tested[f] # {} \/ f = e
    BY <2>1 DEF HsrpTypes
  <2> QED BY <2>1, <2>2, <2>3, <2>4 DEF TestsHold
<1>6. ASSUME NEW e \in Electors, NEW o \in tested[e], WriteStandby(e, o) PROVE TestsHold'
  <2>1. o \in 1 .. made /\ UNCHANGED <<made, pc, best, cands>> /\ SetState(o, "Standby")
    BY <1>6 DEF WriteStandby, HsrpTypes
  <2>2. newer' = newer \ {o} /\ \A f \in Electors : tested'[f] \subseteq tested[f]
    BY <1>6 DEF WriteStandby, HsrpTypes
  <2>3. /\ \A q \in 1 .. made : heap'[q].vip = heap[q].vip /\ heap'[q].priority = heap[q].priority
        /\ \A q \in 1 .. made : q # o => heap'[q] = heap[q]
        /\ heap'[o].state # "Active"
    BY <2>1, StateWritten
  <2>4. ASSUME NEW f \in Electors, NEW q \in 1 .. made, GivesWay(f, q) PROVE GivesWay(f, q)'
    BY <2>1, <2>3, <2>4, GivesWayKept
  <2>5. \A f \in Electors : cands[f] \cup tested[f] \subseteq 1 .. made
    BY DEF HsrpTypes
  <2> QED BY <2>1, <2>2, <2>3, <2>4, <2>5 DEF TestsHold
<1>7. CASE HSRPTimer
  BY <1>7 DEF HSRPTimer, StartElection, TestsHold, GivesWay, HsrpTypes
<1>8. ASSUME NEW e \in Electors, NEW r \in todo[e], Collect(e, r) PROVE TestsHold'
  BY <1>8 DEF Collect, TestsHold, GivesWay, HsrpTypes
<1>9. ASSUME NEW e \in Electors, EndElection(e) PROVE TestsHold'
  BY <1>9 DEF EndElection, TestsHold, GivesWay, HsrpTypes
<1>10. ASSUME NEW r \in Routers, RemoveRouter(r) PROVE TestsHold'
  BY <1>10 DEF RemoveRouter, TestsHold, GivesWay, electionVars
<1> QED
  BY <1>1, <1>2, <1>3, <1>4, <1>5, <1>6, <1>7, <1>8, <1>9, <1>10 DEF Next, RunHSRPElection

(* Whatever is configured and however the elections overlap, a group stops *)
(* being Active only where it became Active between an election's test of  *)
(* its state and the assignment, and gives way to a group of its address   *)
(* that it does not outrank; without that overlap a router outranked later *)
(* stays Active beside the better one.                                     *)
THEOREM ActiveStays == Spec => OutrankedStaysActive
<1> DEFINE Takes(o) ==
      /\ o \in newer
      /\ \E e \in Electors : \E b \in best[e] :
           /\ o \in tested[e]
           /\ heap[b].vip = heap[o].vip /\ heap[o].priority <= heap[b].priority
<1>1. ASSUME HsrpTypes, TestsHold, Next, NEW o \in DOMAIN heap,
             heap[o].state = "Active", heap'[o].state # "Active"
      PROVE  Takes(o)
  <2>1. o \in 1 .. made /\ made \in Nat
    BY <1>1 DEF HsrpTypes
  <2>2. heap' # heap
    BY <1>1
  <2>3. ASSUME NEW r \in Routers, NEW v \in VIPs, NEW p \in Priorities, ConfigureHSRP(r, v, p) PROVE FALSE
    BY <1>1, <2>1, <2>3 DEF ConfigureHSRP
  <2>4. ASSUME NEW e \in Electors, NEW q \in cands[e], WriteActive(e, q) PROVE FALSE
    <3>1. q \in 1 .. made /\ made' = made /\ SetState(q, "Active")
      BY <1>1, <2>4 DEF HsrpTypes, WriteActive
    <3> QED BY <1>1, <2>1, <3>1, StateWritten
  <2>5. ASSUME NEW e \in Electors, NEW q \in tested[e], WriteStandby(e, q) PROVE Takes(o)
    <3>1. q \in 1 .. made /\ made' = made /\ SetState(q, "Standby")
      BY <1>1, <2>5 DEF HsrpTypes, WriteStandby
    <3>2. q = o
      BY <1>1, <2>1, <3>1, StateWritten
    <3> QED BY <1>1, <3>2 DEF TestsHold, GivesWay
  <2> HIDE DEF Takes
  <2> QED
    BY <1>1, <2>2, <2>3, <2>4, <2>5
       DEF Next, HSRPTimer, RunHSRPElection, Collect, Decide, TestOther, EndElection, RemoveRouter
<1>2. Init => TestsHold
  BY DEF Init, TestsHold
<1>3. Spec => []TestsHold
  BY <1>2, HsrpHolds, TestsKept, PTL DEF Spec
<1>4. ASSUME HsrpTypes, TestsHold, [Next]_vars
      PROVE  [\A o \in DOMAIN heap :
                 heap[o].state = "Active" /\ heap'[o].state # "Active" => Takes(o)]_vars
  BY <1>1, <1>4
<1> QED BY <1>3, <1>4, HsrpHolds, PTL DEF Spec, OutrankedStaysActive

-----------------------------------------------------------------------------
(* CDP: the ages of the entries, and what of them is forgotten.             *)

(* A pair is an entry if the one keeps an entry about the other.           *)
LEMMA EntryPairs ==
    ASSUME NEW p
    PROVE  p \in Entries <=> \E r \in CDPRouters : \E s \in DOMAIN CDPNeighbors[r] : p = <<r, s>>
  BY DEF Entries

(* --- Types and what is on its way ---------------------------------------- *)
(* The ways packets take: the two directions of each cable of the network. *)
Ways == {w \in CDPRouters \X CDPRouters : {w[1], w[2]} \in network}

(* The router an entry is about is there, or its packet was late.          *)
Known(s, r) == s \in cdpRouters \/ <<s, r>> \in cdpLate

Labelled ==
    /\ cdpRouters \subseteq CDPRouters /\ cdpTodo \subseteq CDPRouters
    /\ \A c \in cables : c \subseteq cdpRouters
    /\ ~rewired => cables = {c \in network : c \subseteq cdpRouters}
    /\ cdpWire \subseteq Ways
    /\ \A w \in cdpWire : w[1] \in cdpRouters \/ w \in cdpLate
    /\ \A r \in CDPRouters : \A s \in DOMAIN CDPNeighbors[r] :
         <<s, r>> \in Ways /\ r \in cdpRouters /\ Known(s, r)

Aged(age) == IF age < Holdtime THEN age + 1 ELSE Holdtime

(* What a learned packet does to the entries, one by one.                  *)
LEMMA LearnedEntries ==
    ASSUME NEW r \in CDPRouters, NEW s, NEW q \in CDPRouters
    PROVE  /\ DOMAIN LearnCDPNeighbor(r, s) = CDPRouters
           /\ DOMAIN LearnCDPNeighbor(r, s)[q] = DOMAIN CDPNeighbors[q] \cup (IF q = r THEN {s} ELSE {})
           /\ \A t \in DOMAIN LearnCDPNeighbor(r, s)[q] :
                LearnCDPNeighbor(r, s)[q][t] =
                    IF q = r /\ t = s THEN 0 ELSE Aged(CDPNeighbors[q][t])
  BY DEF LearnCDPNeighbor, Aged

(* Entries only go, and what stays keeps its age.                          *)
OnlyFewer ==
    /\ DOMAIN CDPNeighbors' = CDPRouters
    /\ \A r \in CDPRouters :
         /\ DOMAIN CDPNeighbors'[r] \subseteq DOMAIN CDPNeighbors[r]
         /\ \A s \in DOMAIN CDPNeighbors'[r] : CDPNeighbors'[r][s] = CDPNeighbors[r][s]

LEMMA AdvertisePurges ==
    ASSUME CdpTypeOK, NEW r \in CDPRouters, Advertise(r)
    PROVE  /\ OnlyFewer
           /\ \A q \in CDPRouters : \A s \in DOMAIN CDPNeighbors[q] :
                CDPNeighbors[q][s] < Holdtime => s \in DOMAIN CDPNeighbors'[q]
  BY DEF Advertise, PurgeStaleCDPNeighbors, Restrict, OnlyFewer, CdpTypeOK

LEMMA RemoveForgets ==
    ASSUME CdpTypeOK, NEW r \in CDPRouters, RemoveCDPRouter(r)
    PROVE  /\ OnlyFewer
           /\ \A q \in CDPRouters : \A s \in DOMAIN CDPNeighbors'[q] : q # r /\ s # r
<1>1. DOMAIN <<>> = {}
  OBVIOUS
<1> QED BY <1>1 DEF RemoveCDPRouter, PurgeDevice, Restrict, OnlyFewer, CdpTypeOK

LEMMA StaysStill ==
    ASSUME CdpTypeOK, CDPNeighbors' = CDPNeighbors
    PROVE  OnlyFewer
  BY DEF OnlyFewer, CdpTypeOK

(* The types of the entries after a learned packet, or with fewer entries. *)
LEMMA EntryTypes ==
    ASSUME CdpTypeOK,
           OnlyFewer \/ \E r, s \in CDPRouters : CDPNeighbors' = LearnCDPNeighbor(r, s)
    PROVE  /\ DOMAIN CDPNeighbors' = CDPRouters
           /\ \A r \in CDPRouters : \A s \in DOMAIN CDPNeighbors'[r] :
                s \in CDPRouters /\ CDPNeighbors'[r][s] \in 0..Holdtime
<1> USE CdpAssumption
<1>1. CASE OnlyFewer
  BY <1>1 DEF OnlyFewer, CdpTypeOK
<1>2. ASSUME NEW r \in CDPRouters, NEW s \in CDPRouters, CDPNeighbors' = LearnCDPNeighbor(r, s)
      PROVE  /\ DOMAIN CDPNeighbors' = CDPRouters
             /\ \A q \in CDPRouters : \A t \in DOMAIN CDPNeighbors'[q] :
                  t \in CDPRouters /\ CDPNeighbors'[q][t] \in 0..Holdtime
  <2>1. DOMAIN CDPNeighbors' = CDPRouters
    BY <1>2, LearnedEntries
  <2>2. ASSUME NEW q \in CDPRouters, NEW t \in DOMAIN CDPNeighbors'[q]
        PROVE  t \in CDPRouters /\ CDPNeighbors'[q][t] \in 0..Holdtime
    <3>1. t \in DOMAIN CDPNeighbors[q] \/ (q = r /\ t = s)
      BY <1>2, <2>2, LearnedEntries
    <3>2. CDPNeighbors'[q][t] = IF q = r /\ t = s THEN 0 ELSE Aged(CDPNeighbors[q][t])
      BY <1>2, <2>2, LearnedEntries
    <3> QED BY <3>1, <3>2 DEF CdpTypeOK, Aged
  <2> QED BY <2>1, <2>2
<1> QED BY <1>1, <1>2

LEMMA TypesStep ==
    ASSUME CdpTypeOK, Labelled, [CdpNext]_cdpVars
    PROVE  CdpTypeOK' /\ Labelled'
<1> USE CdpAssumption
<1>0. network' = network
  BY DEF CdpNext, CDPLoop, RunCDPCycle, Advertise, DeliverCDP, Unplug, Plug, RemoveCDPRouter, cdpVars
<1>00. \A c \in cables : c \in network
  BY DEF CdpTypeOK
<1>1. CASE UNCHANGED cdpVars
  BY <1>1 DEF cdpVars, CdpTypeOK, Labelled, Ways, Known
<1>2. CASE RunCDPCycle
  BY <1>2 DEF RunCDPCycle, CdpTypeOK, Labelled, Ways, Known
<1>3. ASSUME NEW r \in CDPRouters, Advertise(r) PROVE CdpTypeOK' /\ Labelled'
  <2>1. OnlyFewer
    BY <1>3, AdvertisePurges
  <2>2. ASSUME NEW w \in cdpWire' PROVE w \in Ways /\ (w[1] \in cdpRouters \/ w \in cdpLate)
    <3>1. CASE w \in cdpWire
      BY <3>1 DEF Labelled
    <3>2. CASE w \notin cdpWire
      <4>1. PICK s \in CDPRouters : w = <<r, s>> /\ {r, s} \in cables
        BY <1>3, <2>2, <3>2 DEF Advertise
      <4> QED BY <4>1, <1>00 DEF Ways, Labelled
    <3> QED BY <3>1, <3>2
  <2>3. Labelled'
    <3>1. Ways' = Ways
      BY <1>0 DEF Ways
    <3>2. ASSUME NEW q \in CDPRouters, NEW s \in DOMAIN CDPNeighbors'[q]
          PROVE  <<s, q>> \in Ways /\ q \in cdpRouters /\ Known(s, q)
      <4>1. s \in DOMAIN CDPNeighbors[q]
        BY <2>1 DEF OnlyFewer
      <4> QED BY <4>1 DEF Labelled
    <3>3. UNCHANGED <<cables, cdpRouters, cdpLate, rewired>> /\ cdpTodo' \subseteq cdpTodo
      BY <1>3 DEF Advertise
    <3>4. /\ cdpRouters' \subseteq CDPRouters /\ cdpTodo' \subseteq CDPRouters
          /\ \A c \in cables' : c \subseteq cdpRouters'
          /\ ~rewired' => cables' = {c \in network' : c \subseteq cdpRouters'}
      BY <1>0, <3>3 DEF Labelled
    <3>5. /\ cdpWire' \subseteq Ways'
          /\ \A w \in cdpWire' : w[1] \in cdpRouters' \/ w \in cdpLate'
      BY <2>2, <3>1, <3>3
    <3>6. \A q \in CDPRouters : \A s \in DOMAIN CDPNeighbors'[q] :
             <<s, q>> \in Ways' /\ q \in cdpRouters' /\ Known(s, q)'
      BY <3>1, <3>2, <3>3 DEF Known
    <3> QED BY <3>4, <3>5, <3>6 DEF Labelled
  <2>4. CdpTypeOK'
    BY <1>0, <1>3, <2>1, <2>2, EntryTypes DEF Advertise, CdpTypeOK, Ways
  <2> QED BY <2>3, <2>4
<1>4. ASSUME NEW p \in cdpWire, DeliverCDP(p[1], p[2]) PROVE CdpTypeOK' /\ Labelled'
  <2>1. p[1] \in CDPRouters /\ p[2] \in CDPRouters /\ p = <<p[1], p[2]>> /\ p \in Ways
    BY DEF Labelled, Ways
  <2>2. CASE p[2] \in cdpRouters
    <3>1. CDPNeighbors' = LearnCDPNeighbor(p[2], p[1])
      BY <1>4, <2>2 DEF DeliverCDP
    <3>2. CdpTypeOK'
      BY <1>0, <1>4, <2>1, <3>1, EntryTypes DEF DeliverCDP, CdpTypeOK
    <3>3. ASSUME NEW r \in CDPRouters, NEW s \in DOMAIN CDPNeighbors'[r]
          PROVE  <<s, r>> \in Ways /\ r \in cdpRouters /\ Known(s, r)
      <4>1. s \in DOMAIN CDPNeighbors[r] \/ (r = p[2] /\ s = p[1])
        BY <2>1, <3>1, <3>3, LearnedEntries
      <4>2. Known(p[1], p[2])
        BY <2>1 DEF Known, Labelled
      <4> QED BY <2>1, <2>2, <4>1, <4>2 DEF Labelled
    <3>4. Labelled'
      BY <1>0, <1>4, <3>3 DEF DeliverCDP, Labelled, Ways, Known
    <3> QED BY <3>2, <3>4
  <2>3. CASE p[2] \notin cdpRouters
    BY <1>0, <1>4, <2>3 DEF DeliverCDP, CdpTypeOK, Labelled, Ways, Known
  <2> QED BY <2>2, <2>3
<1>5. ASSUME NEW c \in network, Unplug(c) PROVE CdpTypeOK' /\ Labelled'
  BY <1>5 DEF Unplug, CdpTypeOK, Labelled, Ways, Known
<1>6. ASSUME NEW c \in network, Plug(c) PROVE CdpTypeOK' /\ Labelled'
  BY <1>6 DEF Plug, CdpTypeOK, Labelled, Ways, Known
<1>7. ASSUME NEW r \in CDPRouters, RemoveCDPRouter(r) PROVE CdpTypeOK' /\ Labelled'
  <2>1. /\ OnlyFewer
        /\ \A q \in CDPRouters : \A s \in DOMAIN CDPNeighbors'[q] : q # r /\ s # r
    BY <1>7, RemoveForgets
  <2>2. \A w \in cdpWire : w[1] \in cdpRouters' \/ w \in cdpLate'
    BY <1>7 DEF RemoveCDPRouter, Labelled
  <2>3. /\ \A c \in cables' : c \subseteq cdpRouters'
        /\ ~rewired => cables' = {c \in network : c \subseteq cdpRouters'}
    <3>1. cdpRouters' = cdpRouters \ {r} /\ cables' = {c \in cables : r \notin c}
      BY <1>7 DEF RemoveCDPRouter
    <3>2. \A c : c \subseteq cdpRouters' <=> c \subseteq cdpRouters /\ r \notin c
      BY <3>1
    <3>3. /\ \A c \in cables : c \subseteq cdpRouters
          /\ ~rewired => cables = {c \in network : c \subseteq cdpRouters}
      BY DEF Labelled
    <3>4. \A c \in cables' : c \subseteq cdpRouters'
      BY <3>1, <3>2, <3>3
    <3>5. \A c : c \in cables' <=> c \in cables /\ r \notin c
      BY <3>1
    <3>6. ~rewired => \A c : c \in cables' <=> c \in network /\ c \subseteq cdpRouters'
      BY <3>2, <3>3, <3>5
    <3> QED BY <3>4, <3>6
  <2>4. Labelled'
    BY <1>0, <1>7, <2>1, <2>2, <2>3 DEF RemoveCDPRouter, OnlyFewer, Labelled, Ways, Known
  <2>5. CdpTypeOK'
    BY <1>0, <1>7, <2>1, EntryTypes DEF RemoveCDPRouter, CdpTypeOK
  <2> QED BY <2>4, <2>5
<1> QED
  BY <1>1, <1>2, <1>3, <1>4, <1>5, <1>6, <1>7 DEF CdpNext, CDPLoop

(* --- Few survive ---------------------------------------------------------- *)
(* The clock is the packets, so entries that are not stale differ in age.  *)
AgesDiffer ==
    \A r, q \in CDPRouters : \A s \in DOMAIN CDPNeighbors[r], t \in DOMAIN CDPNeighbors[q] :
        CDPNeighbors[r][s] = CDPNeighbors[q][t] /\ CDPNeighbors[r][s] < Holdtime => r = q /\ s = t

LEMMA AgesStep ==
    ASSUME CdpTypeOK, Labelled, AgesDiffer, [CdpNext]_cdpVars
    PROVE  AgesDiffer'
<1> USE CdpAssumption
<1>1. CASE OnlyFewer
  BY <1>1 DEF OnlyFewer, AgesDiffer
<1>2. ASSUME NEW r \in CDPRouters, NEW s \in CDPRouters, CDPNeighbors' = LearnCDPNeighbor(r, s)
      PROVE  AgesDiffer'
  <2> SUFFICES ASSUME NEW q1 \in CDPRouters, NEW q2 \in CDPRouters,
                      NEW t1 \in DOMAIN CDPNeighbors'[q1], NEW t2 \in DOMAIN CDPNeighbors'[q2],
                      CDPNeighbors'[q1][t1] = CDPNeighbors'[q2][t2], CDPNeighbors'[q1][t1] < Holdtime
               PROVE  q1 = q2 /\ t1 = t2
    BY DEF AgesDiffer
  <2> DEFINE New(q, t) == q = r /\ t = s
  <2>1. ASSUME NEW q \in CDPRouters, NEW t \in DOMAIN CDPNeighbors'[q], ~New(q, t)
        PROVE  /\ t \in DOMAIN CDPNeighbors[q] /\ CDPNeighbors[q][t] \in 0..Holdtime
               /\ CDPNeighbors'[q][t] = Aged(CDPNeighbors[q][t])
    BY <1>2, <2>1, LearnedEntries DEF CdpTypeOK
  <2>2. ASSUME NEW q \in CDPRouters, NEW t \in DOMAIN CDPNeighbors'[q], New(q, t)
        PROVE  CDPNeighbors'[q][t] = 0
    BY <1>2, <2>2, LearnedEntries
  <2>3. CASE New(q1, t1) \/ New(q2, t2)
    BY <2>1, <2>2, <2>3 DEF Aged
  <2>4. CASE ~New(q1, t1) /\ ~New(q2, t2)
    <3> DEFINE a1 == CDPNeighbors[q1][t1]
               a2 == CDPNeighbors[q2][t2]
    <3>1. a1 \in 0..Holdtime /\ a2 \in 0..Holdtime /\ Aged(a1) = Aged(a2) /\ Aged(a1) < Holdtime
      BY <2>1, <2>4
    <3>2. a1 = a2 /\ a1 < Holdtime
      BY <3>1 DEF Aged
    <3> QED BY <2>1, <2>4, <3>2 DEF AgesDiffer
  <2> QED BY <2>3, <2>4
<1>3. ASSUME NEW r \in CDPRouters, Advertise(r) PROVE AgesDiffer'
  BY <1>1, <1>3, AdvertisePurges
<1>4. ASSUME NEW r \in CDPRouters, RemoveCDPRouter(r) PROVE AgesDiffer'
  BY <1>1, <1>4, RemoveForgets
<1>5. ASSUME NEW p \in cdpWire, DeliverCDP(p[1], p[2]) PROVE AgesDiffer'
  BY <1>1, <1>2, <1>5, StaysStill DEF DeliverCDP, Labelled, Ways
<1>6. CASE CDPNeighbors' = CDPNeighbors
  BY <1>1, <1>6, StaysStill
<1> QED
  BY <1>3, <1>4, <1>5, <1>6 DEF CdpNext, CDPLoop, RunCDPCycle, Unplug, Plug, cdpVars

(* Distinct ages below Holdtime are no more than Holdtime ages.            *)
LEMMA FewAges ==
    ASSUME CdpTypeOK, AgesDiffer
    PROVE  FewSurvive
<1> USE CdpAssumption
<1> DEFINE Young == {p \in Entries : CDPNeighbors[p[1]][p[2]] < Holdtime}
           Age == [p \in Young |-> CDPNeighbors[p[1]][p[2]]]
<1>1. \A p \in Entries : /\ p[1] \in CDPRouters /\ p[2] \in DOMAIN CDPNeighbors[p[1]]
                         /\ p = <<p[1], p[2]>>
  BY EntryPairs
<1>2. Age \in [Young -> 0..(Holdtime - 1)]
  BY <1>1 DEF CdpTypeOK
<1>3. \A p, q \in Young : Age[p] = Age[q] => p = q
  <2> SUFFICES ASSUME NEW p \in Young, NEW q \in Young, Age[p] = Age[q] PROVE p = q
    OBVIOUS
  <2>1. p[1] = q[1] /\ p[2] = q[2]
    BY <1>1 DEF AgesDiffer
  <2> QED BY <1>1, <2>1
<1>4. Age \in Injection(Young, 0..(Holdtime - 1))
  BY <1>2, <1>3 DEF Injection, IsInjective
<1>5. /\ IsFiniteSet(0..(Holdtime - 1))
      /\ Cardinality(0..(Holdtime - 1)) = Holdtime
  <2>1. 0 \in Int /\ Holdtime - 1 \in Int /\ ~(0 > Holdtime - 1) /\ Holdtime - 1 - 0 + 1 = Holdtime
    OBVIOUS
  <2> QED BY <2>1, FS_Interval
<1>6. Cardinality(Young) <= Cardinality(0..(Holdtime - 1))
  BY <1>4, <1>5, FS_Injection
<1> QED BY <1>5, <1>6 DEF FewSurvive

(* --- Small labs remember -------------------------------------------------- *)
(* There are at most two ways over each cable.                             *)
LEMMA WaysBounded ==
    ASSUME network \in CDPNetworks
    PROVE  /\ IsFiniteSet(Ways) /\ Cardinality(Ways) \in Nat /\ Cardinality(network) \in Nat
           /\ Cardinality(Ways) <= 2 * Cardinality(network)
<1> USE CdpAssumption
<1> DEFINE First(c) == CHOOSE x \in c : TRUE
           Code == [w \in Ways |-> <<{w[1], w[2]}, IF w[1] = First({w[1], w[2]}) THEN 1 ELSE 2>>]
<1>1. IsFiniteSet(network) /\ Cardinality(network) \in Nat
  BY FS_CardinalityType
<1>2. IsFiniteSet(1..2) /\ Cardinality(1..2) = 2
  <2>1. 1 \in Int /\ 2 \in Int /\ ~(1 > 2) /\ 2 - 1 + 1 = 2
    OBVIOUS
  <2> QED BY <2>1, FS_Interval
<1>3. IsFiniteSet(network \X (1..2)) /\ Cardinality(network \X (1..2)) = Cardinality(network) * 2
  BY <1>1, <1>2, FS_Product
<1>4. Code \in [Ways -> network \X (1..2)]
  <2>1. \A w \in Ways : {w[1], w[2]} \in network
    BY DEF Ways
  <2> HIDE DEF First
  <2> QED BY <2>1
<1>5. ASSUME NEW w \in Ways, NEW x \in Ways, Code[w] = Code[x] PROVE w = x
  <2>1. {w[1], w[2]} = {x[1], x[2]}
    BY <1>5
  <2>2. First({w[1], w[2]}) \in {w[1], w[2]}
    OBVIOUS
  <2>3. (w[1] = First({w[1], w[2]})) <=> (x[1] = First({w[1], w[2]}))
    BY <1>5, <2>1
  <2>4. w[1] # w[2]
    <3>1. {w[1], w[2]} \in network
      BY DEF Ways
    <3>2. Cardinality({w[1], w[2]}) = 2
      BY <3>1
    <3>3. Cardinality({w[1]}) = 1
      BY FS_Singleton
    <3>4. w[1] = w[2] => {w[1], w[2]} = {w[1]}
      OBVIOUS
    <3>5. w[1] = w[2] => Cardinality({w[1], w[2]}) = Cardinality({w[1]})
      BY <3>4
    <3>6. w[1] = w[2] => 2 = 1
      BY <3>2, <3>3, <3>5
    <3> QED BY <3>6
  <2> HIDE DEF First
  <2>5. w[1] = x[1] /\ w[2] = x[2]
    BY <2>1, <2>2, <2>3, <2>4
  <2> QED BY <2>5 DEF Ways
<1>6. Code \in Injection(Ways, network \X (1..2))
  BY <1>4, <1>5 DEF Injection, IsInjective
<1>7. IsFiniteSet(Ways) /\ Cardinality(Ways) <= Cardinality(network \X (1..2))
  BY <1>3, <1>6, FS_Injection
<1>8. Cardinality(Ways) \in Nat
  BY <1>7, FS_CardinalityType
<1> QED BY <1>1, <1>3, <1>7, <1>8

Small == 2 * Cardinality(network) <= Holdtime /\ ~rewired

(* While routers advertise no entry is older than the packets of a cycle;  *)
(* while packets are delivered, an entry is either about to be renewed or  *)
(* has, with the packets that are left, no more than that.                 *)
Renewed(r, s) ==
    IF cdpTodo # {}
    THEN /\ CDPNeighbors[r][s] < Cardinality(Ways)
         /\ s \notin cdpTodo => <<s, r>> \in cdpWire
    ELSE \/ <<s, r>> \in cdpWire
         \/ CDPNeighbors[r][s] + Cardinality(cdpWire) < Cardinality(Ways)

Refreshed ==
    Small => \A r \in CDPRouters : \A s \in DOMAIN CDPNeighbors[r] :
                s \in cdpRouters => Renewed(r, s)

LEMMA RefreshedStep ==
    ASSUME CdpTypeOK, Labelled, Refreshed, [CdpNext]_cdpVars
    PROVE  Refreshed'
<1> USE CdpAssumption
<1>0. CdpTypeOK' /\ Labelled'
  BY TypesStep
<1>1. network' = network /\ Ways' = Ways /\ (rewired => rewired')
  <2>1. network' = network
    BY DEF CdpNext, CDPLoop, RunCDPCycle, Advertise, DeliverCDP, Unplug, Plug, RemoveCDPRouter, cdpVars
  <2>2. rewired' = rewired \/ rewired' = TRUE
    BY DEF CdpNext, CDPLoop, RunCDPCycle, Advertise, DeliverCDP, Unplug, Plug, RemoveCDPRouter, cdpVars
  <2>3. rewired => rewired'
    BY <2>2
  <2> QED BY <2>1, <2>3 DEF Ways
<1>2. /\ IsFiniteSet(Ways) /\ Cardinality(Ways) \in Nat /\ Cardinality(network) \in Nat
      /\ Cardinality(Ways) <= 2 * Cardinality(network)
  BY WaysBounded DEF CdpTypeOK
<1>3. IsFiniteSet(cdpWire) /\ Cardinality(cdpWire) \in Nat
  BY <1>2, FS_Subset, FS_CardinalityType DEF Labelled
<1> SUFFICES ASSUME Small, Small',
                    NEW r \in CDPRouters, NEW s \in DOMAIN CDPNeighbors'[r], s \in cdpRouters'
             PROVE  Renewed(r, s)'
  BY <1>1 DEF Refreshed, Small
<1>4. s \in CDPRouters /\ r \in cdpRouters' /\ {s, r} \in network /\ <<s, r>> \in Ways
  BY <1>0, <1>1 DEF CdpTypeOK, Labelled, Ways
<1>5. s \in DOMAIN CDPNeighbors[r] /\ s \in cdpRouters => Renewed(r, s)
  BY DEF Refreshed
<1>6. s \in DOMAIN CDPNeighbors[r] => CDPNeighbors[r][s] \in 0..Holdtime
  BY DEF CdpTypeOK
<1>7. CASE UNCHANGED <<CDPNeighbors, cdpTodo, cdpWire, cdpRouters>>
  BY <1>1, <1>5, <1>7 DEF Renewed
<1>8. CASE RunCDPCycle
  <2>1. Cardinality(cdpWire) = 0
    BY <1>8, FS_EmptySet DEF RunCDPCycle
  <2>2. cdpTodo' # {} /\ s \in cdpTodo' /\ CDPNeighbors' = CDPNeighbors
    BY <1>8 DEF RunCDPCycle
  <2> QED BY <1>1, <1>2, <1>5, <1>6, <1>8, <2>1, <2>2 DEF RunCDPCycle, Renewed
<1>9. ASSUME NEW q \in CDPRouters, Advertise(q) PROVE Renewed(r, s)'
  <2>1. s \in DOMAIN CDPNeighbors[r] /\ CDPNeighbors'[r][s] = CDPNeighbors[r][s]
    BY <1>9, AdvertisePurges DEF OnlyFewer
  <2>2. cdpTodo # {} /\ cdpTodo' = cdpTodo \ {q} /\ UNCHANGED <<cables, cdpRouters>>
    BY <1>9 DEF Advertise
  <2>3. {s, r} \in cables
    BY <1>0, <1>4, <2>2 DEF Labelled, Small
  <2>4. s = q => <<s, r>> \in cdpWire'
    BY <1>9, <2>3 DEF Advertise
  <2>5. s \notin cdpTodo' => <<s, r>> \in cdpWire'
    BY <1>5, <1>9, <2>1, <2>2, <2>4 DEF Advertise, Renewed
  <2> QED BY <1>1, <1>5, <2>1, <2>2, <2>5 DEF Renewed
<1>10. ASSUME NEW p \in cdpWire, DeliverCDP(p[1], p[2]) PROVE Renewed(r, s)'
  <2>1. p = <<p[1], p[2]>> /\ p[1] \in CDPRouters /\ p[2] \in CDPRouters
    <3>1. p \in CDPRouters \X CDPRouters
      BY DEF Labelled, Ways
    <3> QED BY <3>1
  <2>2. /\ cdpTodo = {} /\ cdpTodo' = {} /\ cdpWire' = cdpWire \ {p} /\ cdpRouters' = cdpRouters
    BY <1>10, <2>1 DEF DeliverCDP
  <2>3. Cardinality(cdpWire') = Cardinality(cdpWire) - 1
    BY <1>3, <2>2, FS_RemoveElement
  <2>4. Cardinality(cdpWire) <= Cardinality(Ways)
    BY <1>2, FS_Subset DEF Labelled
  <2>5. CASE r = p[2] /\ s = p[1]
    <3>1. CDPNeighbors' = LearnCDPNeighbor(r, s)
      BY <1>4, <1>10, <2>2, <2>5 DEF DeliverCDP
    <3>2. CDPNeighbors'[r][s] = 0
      BY <1>4, <3>1, LearnedEntries
    <3> QED BY <1>1, <1>2, <1>3, <2>2, <2>3, <2>4, <3>2 DEF Renewed
  <2>6. CASE ~(r = p[2] /\ s = p[1])
    <3>1. s \in DOMAIN CDPNeighbors[r] /\ CDPNeighbors'[r][s] \in {CDPNeighbors[r][s], Aged(CDPNeighbors[r][s])}
      <4>1. CASE CDPNeighbors' = CDPNeighbors
        BY <4>1
      <4>2. CASE CDPNeighbors' = LearnCDPNeighbor(p[2], p[1])
        BY <2>1, <2>6, <4>2, LearnedEntries
      <4> QED BY <1>10, <4>1, <4>2 DEF DeliverCDP
    <3>2. <<s, r>> \in cdpWire => <<s, r>> \in cdpWire'
      BY <2>1, <2>2, <2>6
    <3>3. Renewed(r, s)
      BY <1>5, <2>2, <3>1
    <3>4. CASE <<s, r>> \in cdpWire
      BY <2>2, <3>2, <3>4 DEF Renewed
    <3>5. CASE CDPNeighbors[r][s] + Cardinality(cdpWire) < Cardinality(Ways)
      <4>1. CDPNeighbors'[r][s] <= CDPNeighbors[r][s] + 1 /\ CDPNeighbors'[r][s] \in Nat
        BY <1>6, <3>1 DEF Aged
      <4>2. CDPNeighbors'[r][s] + Cardinality(cdpWire') < Cardinality(Ways)
        BY <1>2, <1>3, <1>6, <2>3, <3>1, <3>5, <4>1
      <4> QED BY <1>1, <2>2, <4>2 DEF Renewed
    <3> QED BY <2>2, <3>3, <3>4, <3>5 DEF Renewed
  <2> QED BY <2>5, <2>6
<1>11. ASSUME NEW q \in CDPRouters, RemoveCDPRouter(q) PROVE Renewed(r, s)'
  <2>1. s \in DOMAIN CDPNeighbors[r] /\ CDPNeighbors'[r][s] = CDPNeighbors[r][s]
    BY <1>11, RemoveForgets DEF OnlyFewer
  <2>2. s \in cdpRouters /\ UNCHANGED <<cdpTodo, cdpWire>>
    BY <1>11 DEF RemoveCDPRouter
  <2> QED BY <1>1, <1>5, <2>1, <2>2 DEF Renewed
<1> QED
  BY <1>7, <1>8, <1>9, <1>10, <1>11 DEF CdpNext, CDPLoop, Unplug, Plug, cdpVars

(* --- The theorems ----------------------------------------------------------- *)
CdpIInv == CdpTypeOK /\ Labelled /\ AgesDiffer /\ Refreshed

LEMMA CdpHolds == CdpSpec => []CdpIInv
<1>1. ASSUME CdpInit PROVE CdpIInv
  <2> USE CdpAssumption
  <2>1. \A r \in CDPRouters : DOMAIN CDPNeighbors[r] = {}
    <3>1. DOMAIN <<>> = {}
      OBVIOUS
    <3> QED BY <1>1, <3>1 DEF CdpInit
  <2>2. \A c \in network : c \subseteq CDPRouters
    BY <1>1 DEF CdpInit
  <2>3. CdpTypeOK
    BY <1>1, <2>1 DEF CdpInit, CdpTypeOK
  <2>4. Labelled
    BY <1>1, <2>1, <2>2 DEF CdpInit, Labelled
  <2> QED BY <2>1, <2>3, <2>4 DEF CdpIInv, AgesDiffer, Refreshed
<1>2. ASSUME CdpIInv, [CdpNext]_cdpVars PROVE CdpIInv'
  BY <1>2, TypesStep, AgesStep, RefreshedStep DEF CdpIInv
<1> QED BY <1>1, <1>2, PTL DEF CdpSpec

(* However many routers and cables there are, no more entries than         *)
(* Holdtime outlive the next purge, and none is about a removed router,    *)
(* unless a packet of it was on its way.                                   *)
THEOREM EntriesStaySound == CdpSpec => []EntriesSound
<1>1. ASSUME CdpIInv PROVE EntriesSound
  <2>1. RemovedIsForgotten
    BY <1>1, EntryPairs DEF CdpIInv, Labelled, Known, RemovedIsForgotten
  <2> QED BY <1>1, <2>1, FewAges DEF CdpIInv, EntriesSound
<1> QED BY <1>1, CdpHolds, PTL

(* In a lab with no more cables than half of Holdtime, as long as none is  *)
(* unplugged, an entry about a router that is there goes only when a       *)
(* router is removed.                                                      *)
THEOREM EntriesStay == CdpSpec => SmallLabsRemember
<1> USE CdpAssumption
<1>1. ASSUME CdpIInv, [CdpNext]_cdpVars
      PROVE  [\A p \in Entries :
                 /\ p \notin Entries' /\ p[2] \in cdpRouters
                 /\ 2 * Cardinality(network) <= Holdtime /\ ~rewired
                 => cdpRouters' # cdpRouters]_cdpVars
  <2> SUFFICES ASSUME NEW p \in Entries, p \notin Entries', p[2] \in cdpRouters, Small,
                      cdpRouters' = cdpRouters
               PROVE  FALSE
    BY DEF Small
  <2>0. PICK r \in CDPRouters : \E s \in DOMAIN CDPNeighbors[r] : p = <<r, s>>
    BY EntryPairs
  <2>1. PICK s \in DOMAIN CDPNeighbors[r] : p = <<r, s>>
    BY <2>0
  <2>2. CdpTypeOK /\ Labelled /\ s \in cdpRouters
    BY <1>1, <2>1 DEF CdpIInv
  <2>3. s \notin DOMAIN CDPNeighbors'[r]
    BY <2>1 DEF Entries
  <2>4. ASSUME NEW q \in CDPRouters, Advertise(q) PROVE FALSE
    <3>1. ~(CDPNeighbors[r][s] < Holdtime)
      BY <2>2, <2>3, <2>4, AdvertisePurges
    <3>2. cdpTodo # {}
      BY <2>4 DEF Advertise
    <3>3. CDPNeighbors[r][s] < Cardinality(Ways)
      BY <1>1, <2>2, <3>2 DEF CdpIInv, Refreshed, Renewed
    <3>4. Cardinality(Ways) \in Nat /\ Cardinality(Ways) <= Holdtime
      BY <2>2, WaysBounded DEF CdpTypeOK, Small
    <3>5. CDPNeighbors[r][s] \in 0..Holdtime
      BY <2>2 DEF CdpTypeOK
    <3> QED BY <3>1, <3>3, <3>4, <3>5
  <2>5. ASSUME NEW q \in CDPRouters, RemoveCDPRouter(q) PROVE FALSE
    BY <2>5 DEF RemoveCDPRouter
  <2>6. ASSUME NEW w \in cdpWire, DeliverCDP(w[1], w[2]) PROVE FALSE
    <3>1. CDPNeighbors' = CDPNeighbors \/ CDPNeighbors' = LearnCDPNeighbor(w[2], w[1])
      BY <2>6 DEF DeliverCDP
    <3>2. w[2] \in CDPRouters
      BY <2>2 DEF Labelled, Ways
    <3> QED BY <2>1, <2>3, <3>1, <3>2, LearnedEntries
  <2>7. CASE CDPNeighbors' = CDPNeighbors
    BY <2>1, <2>3, <2>7
  <2> QED
    BY <1>1, <2>4, <2>5, <2>6, <2>7 DEF CdpNext, CDPLoop, RunCDPCycle, Unplug, Plug, cdpVars
<1> QED BY <1>1, CdpHolds, PTL DEF CdpSpec, SmallLabsRemember

(* The two together: entries age as intended where cables are few.         *)
THEOREM EntriesAge == CdpSpec => NeighborsAge
  BY EntriesStaySound, EntriesStay, PTL DEF NeighborsAge

-----------------------------------------------------------------------------
(* VTP: the copies that propagations carry, and the revisions.              *)

(* --- Types, with those of the copies that propagations carry ------------- *)
Domains == {NoDomain} \cup {m[2] : m \in VTPMenu}

Copying(p) == prop[p].step = "write"

VtpTypes ==
    /\ names \in Nat /\ authors \subseteq VTPSwitches /\ IsFiniteSet(authors)
    /\ VTP \in [VTPSwitches -> [domain : Domains, mode : Modes, revision : 0..names]]
    /\ VLANs \in [VTPSwitches -> SUBSET VLANIDs]
    /\ VLANNames \in [VTPSwitches -> SUBSET VLANIDs]
    /\ \A s \in VTPSwitches : VLANNames[s] \subseteq VLANs[s]
    /\ DOMAIN prop = Propagators
    /\ \A p \in Propagators :
         /\ prop[p].step \in {"idle", "start", "read", "write"}
         /\ prop[p].step = "read" => prop[p].server \in VTPSwitches /\ prop[p].todo \subseteq VTPSwitches
         /\ Copying(p) => /\ prop[p].server \in VTPSwitches /\ prop[p].todo \subseteq VTPSwitches
                          /\ prop[p].client \in VTPSwitches /\ prop[p].revision \in 0..names
                          /\ prop[p].vlans \subseteq VLANIDs /\ prop[p].names \subseteq prop[p].vlans

(* A propagation that comes to a new point carries nothing, or a copy of   *)
(* its server as it is.                                                    *)
Fresh(p) ==
    LET q == prop'[p] IN
    \/ q.step \in {"idle", "start"}
    \/ q.step = "read" /\ q.server \in VTPSwitches /\ q.todo \subseteq VTPSwitches
    \/ /\ q.step = "write" /\ q.server \in VTPSwitches /\ q.todo \subseteq VTPSwitches /\ q.client \in VTPSwitches
       /\ q.vlans = VLANs[q.server] /\ q.names = VLANNames[q.server] /\ q.revision = VTP[q.server].revision

Moves(p) == /\ DOMAIN prop' = Propagators /\ Fresh(p)
            /\ \A q \in Propagators \ {p} : prop'[q] = prop[q]

LEMMA DoneRests ==
    ASSUME NEW p, NEW c, prop[p].server \in VTPSwitches, prop[p].todo \subseteq VTPSwitches
    PROVE  \/ Done(p, c) = Resting
           \/ /\ Done(p, c).step = "read" /\ Done(p, c).server \in VTPSwitches
              /\ Done(p, c).todo \subseteq VTPSwitches
<1>1. CASE prop[p].todo \ {c} = {}
  BY <1>1 DEF Done
<1>2. CASE prop[p].todo \ {c} # {}
  BY <1>2 DEF Done
<1> QED BY <1>1, <1>2

LEMMA BeginMoves ==
    ASSUME VtpTypes, NEW p \in Propagators, Begin(p)
    PROVE  Moves(p)
  BY DEF Begin, VtpTypes, Moves, Fresh

LEMMA ReadMoves ==
    ASSUME VtpTypes, NEW p \in Propagators, NEW c \in VTPSwitches, ReadServer(p, c)
    PROVE  Moves(p)
<1>0. prop[p].step = "read" /\ DOMAIN prop = Propagators
  BY DEF ReadServer, VtpTypes
<1>1. prop[p].server \in VTPSwitches /\ prop[p].todo \subseteq VTPSwitches
  BY <1>0 DEF VtpTypes
<1>2. CASE IsClientOf(c, prop[p].server)
  BY <1>0, <1>1, <1>2 DEF ReadServer, Moves, Fresh
<1>3. CASE ~IsClientOf(c, prop[p].server)
  <2>1. prop' = [prop EXCEPT ![p] = Done(p, c)]
    BY <1>3 DEF ReadServer
  <2> QED BY <1>0, <1>1, <2>1, DoneRests DEF Moves, Fresh, Resting
<1> QED BY <1>2, <1>3

LEMMA WriteMoves ==
    ASSUME VtpTypes, NEW p \in Propagators, WriteClient(p)
    PROVE  Moves(p)
<1>0. Copying(p) /\ DOMAIN prop = Propagators
  BY DEF WriteClient, VtpTypes, Copying
<1>1. prop[p].server \in VTPSwitches /\ prop[p].todo \subseteq VTPSwitches
  BY <1>0 DEF VtpTypes
<1>2. prop' = [prop EXCEPT ![p] = Done(p, prop[p].client)]
  BY DEF WriteClient
<1> QED BY <1>0, <1>1, <1>2, DoneRests DEF Moves, Fresh, Resting

(* A step moves at most one propagation; the connection's own commands     *)
(* leave it at rest or to start.                                           *)
Idles == /\ DOMAIN prop' = Propagators
         /\ \A q \in Propagators : prop'[q] = prop[q] \/ prop'[q].step = "start"
PropStep == Idles \/ \E p \in Propagators : Moves(p)

SwitchesStay == UNCHANGED <<VTP, VLANs, VLANNames, names, authors, published>>

LEMMA PropSteps ==
    ASSUME VtpTypes, VtpNext
    PROVE  PropStep
<1>1. UNCHANGED prop => Idles
  BY DEF Idles, VtpTypes
<1>2. prop' = [prop EXCEPT !["connection"] = [step |-> "start"]] => Idles
  BY DEF Idles, VtpTypes, Propagators
<1>3. prop' = [prop EXCEPT !["connection"] = Resting] => Moves("connection")
  BY DEF Moves, Fresh, VtpTypes, Propagators, Resting
<1>4. "loop" \in Propagators /\ "connection" \in Propagators
  BY DEF Propagators
<1>5. CASE VTPTimer
  BY <1>1, <1>4, <1>5, BeginMoves DEF VTPTimer, PropagateVTP, PropStep
<1>6. CASE StartPropagation
  BY <1>3, <1>4, <1>6, BeginMoves DEF StartPropagation, PropStep
<1>7. ASSUME NEW p \in Propagators, Propagation(p) PROVE PropStep
  BY <1>7, ReadMoves, WriteMoves DEF Propagation, PropStep
<1>8. ASSUME NEW m \in VTPMenu, ConfigureVTP(m[1], m[2], m[3]) PROVE PropStep
  BY <1>2, <1>8 DEF ConfigureVTP, PropStep
<1>9. ASSUME NEW s \in VTPSwitches, NEW v \in VLANIDs, CreateVLAN(s, v) \/ SetVLANName(s, v)
      PROVE  PropStep
  BY <1>1, <1>2, <1>9 DEF CreateVLAN, SetVLANName, PropStep
<1> QED BY <1>5, <1>6, <1>7, <1>8, <1>9 DEF VtpNext

(* What a step does to the switches, one case per kind of step.            *)
Named(s, v) ==
    /\ names' = names + 1
    /\ VLANs' = [VLANs EXCEPT ![s] = @ \cup {v}]
    /\ VLANNames' = [VLANNames EXCEPT ![s] = @ \cup {v}]

LEMMA TypesPreserved ==
    ASSUME VtpTypes, VtpNext
    PROVE  VtpTypes'
<1> USE VtpAssumption
<1>0. PropStep
  BY PropSteps
<1> DEFINE SwitchTypes ==
             /\ names \in Nat /\ authors \subseteq VTPSwitches /\ IsFiniteSet(authors)
             /\ VTP \in [VTPSwitches -> [domain : Domains, mode : Modes, revision : 0..names]]
             /\ VLANs \in [VTPSwitches -> SUBSET VLANIDs]
             /\ VLANNames \in [VTPSwitches -> SUBSET VLANIDs]
             /\ \A s \in VTPSwitches : VLANNames[s] \subseteq VLANs[s]
<1>1. SwitchTypes' /\ names <= names'
  <2>0. SwitchTypes
    BY DEF VtpTypes
  <2>1. CASE SwitchesStay
    BY <2>0, <2>1 DEF SwitchesStay
  <2>2. ASSUME NEW m \in VTPMenu, ConfigureVTP(m[1], m[2], m[3]) PROVE SwitchTypes' /\ names <= names'
    <3>1. UNCHANGED <<VLANs, VLANNames, names, authors>>
      BY <2>2 DEF ConfigureVTP
    <3>2. VTP' \in [VTPSwitches -> [domain : Domains, mode : Modes, revision : 0..names]]
      BY <2>0, <2>2 DEF ConfigureVTP, Domains
    <3> QED BY <2>0, <3>1, <3>2
  <2>3. ASSUME NEW s \in VTPSwitches, NEW v \in VLANIDs, CreateVLAN(s, v) PROVE SwitchTypes' /\ names <= names'
    BY <2>0, <2>3 DEF CreateVLAN
  <2>4. ASSUME NEW s \in VTPSwitches, NEW v \in VLANIDs, SetVLANName(s, v) PROVE SwitchTypes' /\ names <= names'
    <3>1. names' = names + 1 /\ VLANs' = [VLANs EXCEPT ![s] = @ \cup {v}]
          /\ VLANNames' = [VLANNames EXCEPT ![s] = @ \cup {v}]
      BY <2>4 DEF SetVLANName
    <3>2. VTP' \in [VTPSwitches -> [domain : Domains, mode : Modes, revision : 0..names']]
      <4>1. VTP' = VTP \/ VTP' = [VTP EXCEPT ![s].revision = @ + 1]
        BY <2>4 DEF SetVLANName
      <4>2. \A t \in VTPSwitches : VTP[t] \in [domain : Domains, mode : Modes, revision : 0..names]
        BY <2>0
      <4>3. \A k \in 0..names : k \in 0..names' /\ k + 1 \in 0..names'
        BY <2>0, <3>1
      <4>4. CASE VTP' = VTP
        BY <2>0, <4>2, <4>3, <4>4
      <4>5. CASE VTP' = [VTP EXCEPT ![s].revision = @ + 1]
        BY <2>0, <4>2, <4>3, <4>5
      <4> QED BY <4>1, <4>4, <4>5
    <3>3. authors' \subseteq VTPSwitches /\ IsFiniteSet(authors')
      <4>1. authors' = authors \/ authors' = authors \cup {s}
        BY <2>4 DEF SetVLANName
      <4> QED BY <2>0, <4>1, FS_AddElement
    <3>4. VLANs' \in [VTPSwitches -> SUBSET VLANIDs] /\ VLANNames' \in [VTPSwitches -> SUBSET VLANIDs]
      BY <2>0, <3>1
    <3>5. \A t \in VTPSwitches : VLANNames'[t] \subseteq VLANs'[t]
      BY <2>0, <3>1
    <3>6. names' \in Nat /\ names <= names'
      BY <2>0, <3>1
    <3> QED BY <3>2, <3>3, <3>4, <3>5, <3>6
  <2>5. ASSUME NEW p \in Propagators, WriteClient(p) PROVE SwitchTypes' /\ names <= names'
    <3> DEFINE c == prop[p].client
    <3>1. /\ c \in VTPSwitches /\ prop[p].revision \in 0..names
          /\ prop[p].vlans \subseteq VLANIDs /\ prop[p].names \subseteq prop[p].vlans
      BY <2>5 DEF WriteClient, VtpTypes, Copying
    <3>2. CASE IsNewer(p)
      <4>1. /\ VLANs' = [VLANs EXCEPT ![c] = @ \cup prop[p].vlans]
            /\ VLANNames' = [VLANNames EXCEPT ![c] = @ \cup prop[p].names]
            /\ VTP' = [VTP EXCEPT ![c].revision = prop[p].revision]
            /\ UNCHANGED <<names, authors>>
        BY <2>5, <3>2 DEF WriteClient
      <4>2. VTP' \in [VTPSwitches -> [domain : Domains, mode : Modes, revision : 0..names]]
        BY <2>0, <3>1, <4>1
      <4>3. VLANs' \in [VTPSwitches -> SUBSET VLANIDs] /\ VLANNames' \in [VTPSwitches -> SUBSET VLANIDs]
        BY <2>0, <3>1, <4>1
      <4>4. \A s \in VTPSwitches : VLANNames'[s] \subseteq VLANs'[s]
        BY <2>0, <3>1, <4>1
      <4> QED BY <2>0, <4>1, <4>2, <4>3, <4>4
    <3>3. CASE ~IsNewer(p)
      BY <2>0, <2>5, <3>3 DEF WriteClient
    <3> QED BY <3>2, <3>3
  <2> QED
    BY <2>1, <2>2, <2>3, <2>4, <2>5
       DEF VtpNext, VTPTimer, StartPropagation, Propagation, ReadServer, SwitchesStay
<1>2. ASSUME NEW q \in Propagators
      PROVE  /\ prop'[q].step \in {"idle", "start", "read", "write"}
             /\ prop'[q].step = "read" => prop'[q].server \in VTPSwitches /\ prop'[q].todo \subseteq VTPSwitches
             /\ prop'[q].step = "write" =>
                  /\ prop'[q].server \in VTPSwitches /\ prop'[q].todo \subseteq VTPSwitches
                  /\ prop'[q].client \in VTPSwitches /\ prop'[q].revision \in 0..names'
                  /\ prop'[q].vlans \subseteq VLANIDs /\ prop'[q].names \subseteq prop'[q].vlans
  <2>1. CASE prop'[q] = prop[q]
    <3>1. \A k \in 0..names : k \in 0..names'
      BY <1>1 DEF VtpTypes
    <3> QED BY <2>1, <3>1 DEF VtpTypes, Copying
  <2>2. CASE prop'[q].step = "start"
    BY <2>2
  <2>3. CASE Fresh(q)
    <3>1. \A s \in VTPSwitches : VLANs[s] \subseteq VLANIDs /\ VLANNames[s] \subseteq VLANs[s]
      BY DEF VtpTypes
    <3>2. \A s \in VTPSwitches : VTP[s].revision \in 0..names'
      BY <1>1 DEF VtpTypes
    <3> QED BY <2>3, <3>1, <3>2 DEF Fresh
  <2> QED BY <1>0, <2>1, <2>2, <2>3 DEF PropStep, Idles, Moves
<1>3. DOMAIN prop' = Propagators
  BY <1>0 DEF PropStep, Idles, Moves
<1> QED BY <1>1, <1>2, <1>3 DEF VtpTypes, Copying

(* --- Who wrote it --------------------------------------------------------- *)
(* As long as no switch but a has raised its revision, a is ahead of all   *)
(* switches, copies and names, and who has a revision has its names.       *)
SoleAuthor(a) ==
    authors \subseteq {a} =>
        /\ \A s \in VTPSwitches : VTP[s].revision <= VTP[a].revision
        /\ \A p \in Propagators : Copying(p) => prop[p].revision <= VTP[a].revision
        /\ \A n \in published :
             /\ n[2] \in Nat /\ n[2] <= VTP[a].revision
             /\ \A s \in VTPSwitches : n[2] <= VTP[s].revision => n[1] \in VLANNames[s]
             /\ \A p \in Propagators : Copying(p) /\ n[2] <= prop[p].revision => n[1] \in prop[p].names

(* The switches and the names of a step that keep a sole author ahead; the *)
(* propagations follow.                                                    *)
LEMMA CopiesFollow ==
    ASSUME VtpTypes, VtpNext, NEW a \in VTPSwitches, authors \subseteq {a}, SoleAuthor(a),
           VTP'[a].revision >= VTP[a].revision,
           NEW q \in Propagators, Copying(q)'
    PROVE  /\ prop'[q].revision <= VTP[a].revision
           /\ \A n \in published : n[2] <= prop'[q].revision => n[1] \in prop'[q].names
<1>1. CASE prop'[q] = prop[q]
  BY <1>1 DEF Copying, SoleAuthor
<1>2. CASE Fresh(q)
  BY <1>2 DEF Fresh, Copying, SoleAuthor
<1>3. CASE prop'[q].step = "start"
  BY <1>3 DEF Copying
<1> QED BY <1>1, <1>2, <1>3, PropSteps DEF PropStep, Idles, Moves

LEMMA SoleAuthorStep ==
    ASSUME VtpTypes, VtpNext, NEW a \in VTPSwitches, SoleAuthor(a)
    PROVE  SoleAuthor(a)'
<1> USE VtpAssumption
<1>0. VtpTypes'
  BY TypesPreserved
<1>a. authors \subseteq authors'
  BY DEF VtpNext, VTPTimer, StartPropagation, Propagation, ReadServer, WriteClient, ConfigureVTP,
         CreateVLAN, SetVLANName
<1> SUFFICES ASSUME authors' \subseteq {a}
             PROVE  /\ \A s \in VTPSwitches : VTP'[s].revision <= VTP'[a].revision
                    /\ \A p \in Propagators : Copying(p)' => prop'[p].revision <= VTP'[a].revision
                    /\ \A n \in published' :
                         /\ n[2] \in Nat /\ n[2] <= VTP'[a].revision
                         /\ \A s \in VTPSwitches : n[2] <= VTP'[s].revision => n[1] \in VLANNames'[s]
                         /\ \A p \in Propagators :
                              Copying(p)' /\ n[2] <= prop'[p].revision => n[1] \in prop'[p].names
  BY DEF SoleAuthor
<1>b. authors \subseteq {a}
  BY <1>a
<1>c. \A s \in VTPSwitches : VTP[s].revision \in Nat /\ VTP'[s].revision \in Nat
  <2>1. \A k \in 0..names : k \in Nat
    BY DEF VtpTypes
  <2>2. \A k \in 0..names' : k \in Nat
    BY <1>0 DEF VtpTypes
  <2> QED BY <1>0, <2>1, <2>2 DEF VtpTypes
<1>d. \A q \in Propagators : Copying(q)' => prop'[q].revision \in Nat
  BY <1>0 DEF VtpTypes
(* It is enough to look at the switches.                                   *)
<1>e. ASSUME VTP'[a].revision >= VTP[a].revision,
             \A s \in VTPSwitches : VTP'[s].revision <= VTP'[a].revision,
             \A n \in published' : \/ n \in published
                                   \/ n[2] \in Nat /\ n[2] <= VTP'[a].revision /\ n[2] > VTP[a].revision,
             \A n \in published', s \in VTPSwitches : n[2] <= VTP'[s].revision => n[1] \in VLANNames'[s]
      PROVE  SoleAuthor(a)'
  <2>1. ASSUME NEW q \in Propagators, Copying(q)'
        PROVE  /\ prop'[q].revision <= VTP[a].revision
               /\ \A n \in published : n[2] <= prop'[q].revision => n[1] \in prop'[q].names
    BY <1>b, <1>e, <2>1, CopiesFollow
  <2>2. \A q \in Propagators : Copying(q)' => prop'[q].revision <= VTP'[a].revision
    BY <1>c, <1>d, <1>e, <2>1
  <2>3. ASSUME NEW n \in published'
        PROVE  /\ n[2] \in Nat /\ n[2] <= VTP'[a].revision
               /\ \A p \in Propagators :
                    Copying(p)' /\ n[2] <= prop'[p].revision => n[1] \in prop'[p].names
    <3>1. CASE n \in published
      BY <1>b, <1>c, <1>e, <2>1, <3>1 DEF SoleAuthor
    <3>2. CASE n[2] \in Nat /\ n[2] <= VTP'[a].revision /\ n[2] > VTP[a].revision
      BY <1>c, <1>d, <2>1, <3>2
    <3> QED BY <1>e, <3>1, <3>2
  <2> QED BY <1>e, <2>2, <2>3 DEF SoleAuthor
<1>f. /\ \A s \in VTPSwitches : VTP[s].revision <= VTP[a].revision
      /\ \A n \in published : /\ n[2] \in Nat /\ n[2] <= VTP[a].revision
                              /\ \A s \in VTPSwitches : n[2] <= VTP[s].revision => n[1] \in VLANNames[s]
  BY <1>b DEF SoleAuthor
<1>1. ASSUME VTP' = VTP, VLANNames' = VLANNames, published' = published PROVE SoleAuthor(a)'
  BY <1>1, <1>c, <1>e, <1>f DEF SoleAuthor
<1>2. ASSUME NEW m \in VTPMenu, ConfigureVTP(m[1], m[2], m[3]) PROVE SoleAuthor(a)'
  <2>1. \A s \in VTPSwitches : VTP'[s].revision = VTP[s].revision
    BY <1>2 DEF ConfigureVTP, VtpTypes
  <2>2. UNCHANGED <<VLANNames, published>>
    BY <1>2 DEF ConfigureVTP
  <2> QED BY <1>c, <1>e, <1>f, <2>1, <2>2
<1>3. ASSUME NEW s \in VTPSwitches, NEW v \in VLANIDs, SetVLANName(s, v) PROVE SoleAuthor(a)'
  <2>1. \A t \in VTPSwitches : VLANNames[t] \subseteq VLANNames'[t] /\ (t = s => v \in VLANNames'[t])
    BY <1>3 DEF SetVLANName, VtpTypes
  <2>2. CASE VTP[s].mode # "server"
    BY <1>3, <1>c, <1>e, <1>f, <2>1, <2>2 DEF SetVLANName
  <2>3. CASE VTP[s].mode = "server"
    <3>1. s = a
      BY <1>3, <2>3 DEF SetVLANName
    <3>2. /\ VTP' = [VTP EXCEPT ![a].revision = @ + 1]
          /\ published' = published \cup {<<v, VTP[a].revision + 1>>}
      BY <1>3, <2>3, <3>1 DEF SetVLANName
    <3>3. /\ VTP'[a].revision = VTP[a].revision + 1
          /\ \A t \in VTPSwitches \ {a} : VTP'[t] = VTP[t]
      BY <3>2 DEF VtpTypes
    <3>4. ASSUME NEW n \in published', NEW t \in VTPSwitches, n[2] <= VTP'[t].revision
          PROVE  n[1] \in VLANNames'[t]
      <4>1. CASE n \in published
        <5>1. n[2] <= VTP[t].revision
          BY <1>c, <1>f, <3>3, <3>4, <4>1
        <5> QED BY <1>f, <2>1, <4>1, <5>1
      <4>2. CASE n = <<v, VTP[a].revision + 1>>
        <5>1. t = a
          BY <1>c, <1>f, <3>3, <3>4, <4>2
        <5> QED BY <2>1, <3>1, <4>2, <5>1
      <4> QED BY <3>2, <4>1, <4>2
    <3>5. \A t \in VTPSwitches : VTP'[t].revision <= VTP'[a].revision
      BY <1>c, <1>f, <3>3
    <3>6. \A n \in published' : \/ n \in published
                                \/ n[2] \in Nat /\ n[2] <= VTP'[a].revision /\ n[2] > VTP[a].revision
      BY <1>c, <3>2, <3>3
    <3>7. VTP'[a].revision >= VTP[a].revision
      BY <1>c, <3>3
    <3> QED BY <1>e, <3>4, <3>5, <3>6, <3>7
  <2> QED BY <2>2, <2>3
<1>4. ASSUME NEW p \in Propagators, WriteClient(p) PROVE SoleAuthor(a)'
  <2> DEFINE c == prop[p].client
  <2>1. /\ c \in VTPSwitches /\ prop[p].revision \in Nat /\ prop[p].revision <= VTP[a].revision
        /\ \A n \in published : n[2] <= prop[p].revision => n[1] \in prop[p].names
    BY <1>4, <1>b DEF WriteClient, VtpTypes, Copying, SoleAuthor
  <2>2. CASE IsNewer(p)
    <3>1. /\ VLANNames' = [VLANNames EXCEPT ![c] = @ \cup prop[p].names]
          /\ VTP' = [VTP EXCEPT ![c].revision = prop[p].revision]
          /\ UNCHANGED published
      BY <1>4, <2>2 DEF WriteClient
    <3>2. /\ VTP'[c].revision = prop[p].revision /\ VLANNames'[c] = VLANNames[c] \cup prop[p].names
          /\ \A t \in VTPSwitches \ {c} : VTP'[t] = VTP[t] /\ VLANNames'[t] = VLANNames[t]
      BY <2>1, <3>1 DEF VtpTypes
    <3>3. c # a
      BY <1>c, <2>1, <2>2 DEF IsNewer
    <3>4. VTP'[a] = VTP[a] /\ \A t \in VTPSwitches : VTP'[t].revision <= VTP'[a].revision
      BY <1>f, <2>1, <3>2, <3>3
    <3>5. ASSUME NEW n \in published', NEW t \in VTPSwitches, n[2] <= VTP'[t].revision
          PROVE  n[1] \in VLANNames'[t]
      BY <1>f, <2>1, <3>1, <3>2, <3>5
    <3> HIDE DEF c
    <3> QED BY <1>c, <1>e, <3>1, <3>4, <3>5
  <2>3. CASE ~IsNewer(p)
    <3>1. VTP' = VTP /\ VLANNames' = VLANNames /\ published' = published
      BY <1>4, <2>3 DEF WriteClient
    <3> QED BY <1>1, <3>1
  <2> QED BY <2>2, <2>3
<1>5. SoleAuthor(a)'
  BY <1>1, <1>2, <1>3, <1>4
     DEF VtpNext, VTPTimer, StartPropagation, Propagation, ReadServer, CreateVLAN
<1> QED BY <1>5 DEF SoleAuthor

(* --- The theorems ----------------------------------------------------------- *)
VtpIInv == VtpTypes /\ \A a \in VTPSwitches : SoleAuthor(a)

LEMMA VtpHolds == VtpSpec => []VtpIInv
<1>1. ASSUME VtpInit PROVE VtpIInv
  <2> USE VtpAssumption
  <2>1. VtpTypes
    BY <1>1, FS_EmptySet DEF VtpInit, VtpTypes, Domains, Modes, Resting, Copying
  <2>2. \A p \in Propagators : ~Copying(p)
    BY <1>1 DEF VtpInit, Copying, Resting
  <2> QED BY <1>1, <2>1, <2>2 DEF VtpInit, VtpIInv, SoleAuthor
<1>2. ASSUME VtpIInv, [VtpNext]_vtpVars PROVE VtpIInv'
  <2>1. CASE UNCHANGED vtpVars
    BY <1>2, <2>1 DEF vtpVars, VtpIInv, VtpTypes, SoleAuthor, Copying, Domains
  <2>2. CASE VtpNext
    BY <1>2, <2>2, TypesPreserved, SoleAuthorStep DEF VtpIInv
  <2> QED BY <1>2, <2>1, <2>2
<1> QED BY <1>1, <1>2, PTL DEF VtpSpec

(* As long as only one switch was ever the author of names, whoever has a  *)
(* revision has every name up to it: a merge of a copy that has aged, in a *)
(* switch that has meanwhile become something else, does not break that.   *)
THEOREM DatabasesStayTruthful == VtpSpec => []DatabasesTruthful
<1>1. ASSUME VtpIInv PROVE DatabasesTruthful
  <2>1. VtpTypeOK
    BY <1>1 DEF VtpIInv, VtpTypes, VtpTypeOK
  <2>2. RevisionTellsNames
    <3> SUFFICES ASSUME Cardinality(authors) <= 1, NEW s \in VTPSwitches, NEW n \in published,
                        n[2] <= VTP[s].revision
                 PROVE  n[1] \in VLANNames[s]
      BY DEF RevisionTellsNames
    <3>1. IsFiniteSet(authors) /\ authors \subseteq VTPSwitches /\ Cardinality(authors) \in Nat
      BY <1>1, FS_CardinalityType DEF VtpIInv, VtpTypes
    <3>2. Cardinality(authors) = 0 \/ Cardinality(authors) = 1
      BY <3>1
    <3>3. \E a \in VTPSwitches : authors \subseteq {a}
      <4>1. CASE Cardinality(authors) = 0
        BY <3>1, <4>1, FS_EmptySet
      <4>2. CASE Cardinality(authors) = 1
        BY <3>1, <4>2, FS_Singleton
      <4> QED BY <3>2, <4>1, <4>2
    <3> QED BY <1>1, <3>3 DEF VtpIInv, SoleAuthor
  <2> QED BY <2>1, <2>2 DEF DatabasesTruthful
<1> QED BY <1>1, VtpHolds, PTL

(* No switch ever goes back to an older revision.                          *)
THEOREM RevisionsNeverFall == VtpSpec => RevisionsGrow
<1>1. ASSUME VtpIInv, VtpNext, NEW s \in VTPSwitches PROVE VTP'[s].revision >= VTP[s].revision
  <2>0. VtpTypes
    BY <1>1 DEF VtpIInv
  <2>1. \A t \in VTPSwitches : VTP[t].revision \in Nat
    <3>1. \A k \in 0..names : k \in Nat
      BY <2>0 DEF VtpTypes
    <3> QED BY <2>0, <3>1 DEF VtpTypes
  <2>2. CASE VTP' = VTP
    BY <2>1, <2>2
  <2>3. ASSUME NEW m \in VTPMenu, ConfigureVTP(m[1], m[2], m[3]) PROVE VTP'[s].revision >= VTP[s].revision
    BY <2>0, <2>1, <2>3 DEF ConfigureVTP, VtpTypes
  <2>4. ASSUME NEW t \in VTPSwitches, NEW v \in VLANIDs, SetVLANName(t, v)
        PROVE  VTP'[s].revision >= VTP[s].revision
    <3>1. VTP' = VTP \/ VTP' = [VTP EXCEPT ![t].revision = @ + 1]
      BY <2>4 DEF SetVLANName
    <3>2. VTP'[s].revision \in {VTP[s].revision, VTP[s].revision + 1}
      BY <2>0, <3>1 DEF VtpTypes
    <3> QED BY <2>1, <3>2
  <2>5. ASSUME NEW p \in Propagators, WriteClient(p) PROVE VTP'[s].revision >= VTP[s].revision
    <3>1. CASE IsNewer(p)
      <4>1. /\ VTP' = [VTP EXCEPT ![prop[p].client].revision = prop[p].revision]
            /\ prop[p].revision \in 0..names /\ names \in Nat
        BY <2>0, <2>5, <3>1 DEF WriteClient, VtpTypes, Copying
      <4>2. VTP'[s].revision = VTP[s].revision \/ (s = prop[p].client /\ VTP'[s].revision = prop[p].revision)
        BY <2>0, <4>1 DEF VtpTypes
      <4> QED BY <2>1, <3>1, <4>1, <4>2 DEF IsNewer
    <3>2. CASE ~IsNewer(p)
      BY <2>1, <2>5, <3>2 DEF WriteClient
    <3> QED BY <3>1, <3>2
  <2> QED
    BY <1>1, <2>2, <2>3, <2>4, <2>5
       DEF VtpNext, VTPTimer, StartPropagation, Propagation, ReadServer, CreateVLAN
<1>2. ASSUME VtpIInv, [VtpNext]_vtpVars
      PROVE  [\A s \in VTPSwitches : VTP'[s].revision >= VTP[s].revision]_vtpVars
  BY <1>1, <1>2
<1> QED BY <1>2, VtpHolds, PTL DEF VtpSpec, RevisionsGrow

(* The two together: databases only grow, and say what they are.           *)
THEOREM DatabasesOnlyGrow == VtpSpec => DatabasesGrow
  BY DatabasesStayTruthful, RevisionsNeverFall, PTL DEF DatabasesGrow

-----------------------------------------------------------------------------
(* BGP: what can and cannot be learned.                                     *)

(* The parts of the types that the steps below need.                       *)
BgpFunctions ==
    /\ Peers = [r \in BGPRouters |-> Peers[r]]
    /\ BGPRoutes = [r \in BGPRouters |-> BGPRoutes[r]]
    /\ bgpPc = [c \in Cyclers |-> bgpPc[c]]

(* What is about to be installed was taken from the router itself.         *)
ToInstall ==
    \A c \in Cyclers : bgpPc[c].step = "install" =>
        /\ bgpPc[c].hop = bgpPc[c].at /\ bgpPc[c].at \in BGPRouters
        /\ bgpPc[c].nets # {} => bgpPc[c].at \in DOMAIN Peers[bgpPc[c].at]

(* A router whose process does not run has learned nothing.                *)
NothingBefore == \A r \in BGPRouters \ DOMAIN LocalAS : DOMAIN BGPRoutes[r] = {}

AtRouters == \A i \in Installed : i[1] \in BGPRouters

BgpIInv ==
    /\ BgpFunctions /\ AtRouters /\ DOMAIN LocalAS \subseteq BGPRouters
    /\ ToInstall /\ NothingBefore /\ BGPUseless

LEMMA BgpInitIInv == BgpInit => BgpIInv
<1> SUFFICES ASSUME BgpInit PROVE BgpIInv
  OBVIOUS
<1>1. DOMAIN <<>> = {}
  OBVIOUS
<1>2. BgpFunctions /\ DOMAIN LocalAS = {} /\ NothingBefore /\ RoutesLeadToOneself /\ AtRouters
  BY <1>1 DEF BgpInit, BgpFunctions, NothingBefore, RoutesLeadToOneself, AtRouters
<1>3. OwnASRefused
  BY <1>2 DEF OwnASRefused
<1>4. ToInstall
  BY DEF BgpInit, ToInstall, Waiting
<1> QED BY <1>2, <1>3, <1>4 DEF BgpIInv, BGPUseless

(* EnableBgp never changes the AS of a process that runs, and peers are    *)
(* only added.                                                             *)
LEMMA ConfigStep ==
    ASSUME BgpIInv, NEW m \in BGPMenu, CONFIG_BGP(m[1], m[2], m[3], m[4])
    PROVE  BgpIInv'
<1> DEFINE r == m[1]
<1>1. r \in BGPRouters
  BY BgpAssumption
<1>2. /\ DOMAIN LocalAS' = DOMAIN LocalAS \cup {r}
      /\ \A q \in DOMAIN LocalAS : LocalAS'[q] = LocalAS[q]
  BY DEF CONFIG_BGP
<1>3. \A q \in BGPRouters : DOMAIN Peers[q] \subseteq DOMAIN Peers'[q]
  BY <1>1 DEF CONFIG_BGP, BgpIInv, BgpFunctions
<1>4. BgpFunctions'
  BY <1>1 DEF CONFIG_BGP, BgpIInv, BgpFunctions
<1>5. bgpPc'["connection"].step = "cycle" /\ \A c \in Cyclers : c # "connection" => bgpPc'[c] = bgpPc[c]
  BY DEF CONFIG_BGP, BgpIInv, BgpFunctions, Cyclers
<1>6. BGPRoutes' = BGPRoutes /\ Installed' = Installed
  BY DEF CONFIG_BGP
<1>7. ToInstall'
  BY <1>3, <1>5 DEF ToInstall, BgpIInv, BgpFunctions
<1>8. NothingBefore' /\ (DOMAIN LocalAS \subseteq BGPRouters)'
  BY <1>1, <1>2, <1>6 DEF NothingBefore, BgpIInv
<1>9. RoutesLeadToOneself' /\ AtRouters'
  BY <1>3, <1>6 DEF RoutesLeadToOneself, BgpIInv, BGPUseless, AtRouters
<1>10. OwnASRefused'
  BY <1>1, <1>2, <1>6 DEF OwnASRefused, BgpIInv, BGPUseless, NothingBefore
<1> QED BY <1>4, <1>7, <1>8, <1>9, <1>10 DEF BgpIInv, BGPUseless

(* Steps that only move a cycle on, and not to an installation.            *)
LEMMA CycleStep ==
    ASSUME BgpIInv, UNCHANGED <<LocalAS, Peers, BGPRoutes, Installed>>, BgpFunctions',
           \A c \in Cyclers : bgpPc'[c] = bgpPc[c] \/ bgpPc'[c].step # "install"
    PROVE  BgpIInv'
<1>1. ToInstall'
  BY DEF BgpIInv, ToInstall
<1> QED
  BY <1>1 DEF BgpIInv, AtRouters, NothingBefore, BGPUseless, RoutesLeadToOneself, OwnASRefused

(* The address that ProcessUpdate gets is the receiver's: it takes nothing *)
(* unless the receiver is its own peer, and never a path with its AS.      *)
LEMMA UpdateStep ==
    ASSUME BgpIInv, NEW c \in Cyclers, NEW q \in BGPRouters, ProcessUpdate(c, q)
    PROVE  BgpIInv'
<1> DEFINE new == IF q \in DOMAIN LocalAS /\ q \in DOMAIN Peers[q]
                  THEN Accepted(q, q, bgpPc[c].routes) ELSE {}
           nets == {x.net : x \in new}
<1>1. PICK pick \in [nets -> new] :
         /\ \A n \in nets : pick[n].net = n
         /\ BGPRoutes' = [BGPRoutes EXCEPT ![q] =
                [n \in DOMAIN @ \cup nets |->
                   IF n \in nets THEN [hop |-> q, as |-> pick[n].as] ELSE @[n]]]
  BY DEF ProcessUpdate, PeerKey
<1>2. bgpPc' = [bgpPc EXCEPT ![c] =
         [step |-> "install", from |-> @.from, routes |-> @.routes,
          peers |-> @.peers \ {q}, todo |-> @.todo, at |-> q, hop |-> q, nets |-> nets]]
  BY DEF ProcessUpdate, PeerKey
<1>3. UNCHANGED <<LocalAS, Peers, Installed>>
  BY DEF ProcessUpdate
<1>4. /\ bgpPc'[c].at = q /\ bgpPc'[c].hop = q /\ bgpPc'[c].nets = nets
      /\ \A d \in Cyclers : d # c => bgpPc'[d] = bgpPc[d]
  BY <1>2 DEF BgpIInv, BgpFunctions
<1>5. nets # {} => q \in DOMAIN LocalAS /\ q \in DOMAIN Peers[q]
  OBVIOUS
<1>6. ToInstall'
  BY <1>3, <1>4, <1>5 DEF BgpIInv, ToInstall
<1>7. BgpFunctions'
  BY <1>1, <1>2, <1>3 DEF BgpIInv, BgpFunctions
<1>8. /\ \A r \in BGPRouters : r # q => BGPRoutes'[r] = BGPRoutes[r]
      /\ DOMAIN BGPRoutes'[q] = DOMAIN BGPRoutes[q] \cup nets
      /\ \A n \in nets : BGPRoutes'[q][n].as = pick[n].as
      /\ \A n \in DOMAIN BGPRoutes[q] \ nets : BGPRoutes'[q][n] = BGPRoutes[q][n]
  BY <1>1 DEF BgpIInv, BgpFunctions
<1>9. NothingBefore'
  BY <1>3, <1>5, <1>8 DEF BgpIInv, NothingBefore
<1>10. \A n \in nets : pick[n].as # LocalAS[q]
  <2> SUFFICES ASSUME NEW n \in nets PROVE pick[n].as # LocalAS[q]
    OBVIOUS
  <2>1. pick[n] \in new
    BY <1>1
  <2>2. new = Accepted(q, q, bgpPc[c].routes)
    BY <1>5
  <2> QED BY <2>1, <2>2 DEF Accepted
<1>11. OwnASRefused'
  BY <1>3, <1>8, <1>10 DEF BgpIInv, BGPUseless, OwnASRefused
<1>12. RoutesLeadToOneself' /\ AtRouters' /\ (DOMAIN LocalAS \subseteq BGPRouters)'
  BY <1>3 DEF BgpIInv, BGPUseless, RoutesLeadToOneself, AtRouters
<1> QED BY <1>6, <1>7, <1>9, <1>11, <1>12 DEF BgpIInv, BGPUseless

LEMMA InstallStep ==
    ASSUME BgpIInv, NEW c \in Cyclers, Install(c)
    PROVE  BgpIInv'
<1> DEFINE s == bgpPc[c]
<1>1. s.hop = s.at /\ s.at \in BGPRouters /\ (s.nets # {} => s.at \in DOMAIN Peers[s.at])
  BY DEF Install, BgpIInv, ToInstall
<1>2. Installed' = {i \in Installed : ~(i[1] = s.at /\ i[2] \in s.nets)}
                      \cup {<<s.at, n, s.hop>> : n \in s.nets}
  BY DEF Install
<1>3. UNCHANGED <<LocalAS, Peers, BGPRoutes>>
  BY DEF Install
<1>4. bgpPc'[c].step = "send" /\ \A d \in Cyclers : d # c => bgpPc'[d] = bgpPc[d]
  BY DEF Install, BgpIInv, BgpFunctions
<1>5. ToInstall'
  BY <1>3, <1>4 DEF BgpIInv, ToInstall
<1>6. RoutesLeadToOneself' /\ AtRouters'
  BY <1>1, <1>2, <1>3 DEF BgpIInv, BGPUseless, RoutesLeadToOneself, AtRouters
<1>7. BgpFunctions'
  BY <1>3 DEF Install, BgpIInv, BgpFunctions
<1>8. OwnASRefused' /\ NothingBefore' /\ (DOMAIN LocalAS \subseteq BGPRouters)'
  BY <1>3 DEF BgpIInv, BGPUseless, OwnASRefused, NothingBefore
<1> QED BY <1>5, <1>6, <1>7, <1>8 DEF BgpIInv, BGPUseless

LEMMA BgpNextIInv == BgpIInv /\ [BgpNext]_bgpVars => BgpIInv'
<1> SUFFICES ASSUME BgpIInv, [BgpNext]_bgpVars PROVE BgpIInv'
  OBVIOUS
<1>1. CASE UNCHANGED bgpVars
  BY <1>1 DEF bgpVars, BgpIInv, BgpFunctions, AtRouters, ToInstall, NothingBefore, BGPUseless,
              RoutesLeadToOneself, OwnASRefused
<1>2. CASE BGPTimer
  <2>1. BgpFunctions' /\ \A c \in Cyclers : bgpPc'[c] = bgpPc[c] \/ bgpPc'[c].step # "install"
    BY <1>2 DEF BGPTimer, BgpIInv, BgpFunctions
  <2> QED BY <1>2, <2>1, CycleStep DEF BGPTimer
<1>3. CASE \E m \in BGPMenu : CONFIG_BGP(m[1], m[2], m[3], m[4])
  BY <1>3, ConfigStep
<1>4. ASSUME NEW c \in Cyclers, NEW r \in BGPRouters, Turn(c, r) PROVE BgpIInv'
  <2>1. BgpFunctions'
    BY <1>4 DEF Turn, BgpIInv, BgpFunctions
  <2>2. \A d \in Cyclers : bgpPc'[d] = bgpPc[d] \/ bgpPc'[d].step # "install"
    BY <1>4 DEF Turn, BgpIInv, BgpFunctions
  <2> QED BY <1>4, <2>1, <2>2, CycleStep DEF Turn
<1>5. ASSUME NEW c \in Cyclers, EndTurn(c) PROVE BgpIInv'
  <2>1. BgpFunctions' /\ \A d \in Cyclers : bgpPc'[d] = bgpPc[d] \/ bgpPc'[d].step # "install"
    BY <1>5 DEF EndTurn, BgpIInv, BgpFunctions, Waiting
  <2> QED BY <1>5, <2>1, CycleStep DEF EndTurn
<1> QED
  BY <1>1, <1>2, <1>3, <1>4, <1>5, UpdateStep, InstallStep DEF BgpNext, RunBgpUpdateCycle

(* However routers are configured and however cycles and configuration     *)
(* overlap: an installed route leads to the router itself, which is its    *)
(* own peer, and none has the router's own AS.                             *)
THEOREM NothingLearned == BgpSpec => []BGPUseless
<1>1. BgpIInv => BGPUseless
  BY DEF BgpIInv
<1> QED BY <1>1, BgpInitIInv, BgpNextIInv, PTL DEF BgpSpec

-----------------------------------------------------------------------------
(* The lab: types.                                                         *)

NeighborMaps == Partial(Ports, [router : Devices, port : Ports, ip : IfaceAddresses])
LabRouters ==
    [Interfaces : IfaceMaps, PortNeighbors : NeighborMaps, routes : SUBSET Routes,
     IKEPeers : SUBSET {Public[r] : r \in RouterIds}, crypto : SUBSET RouterIds,
     pool : Pools \cup {NoPool}]
LabHosts ==
    [ip : HostAddresses \cup {Absent}, uplink : Devices \cup {Absent}, from : RouterIds \cup {Absent}]
Labs ==
    [routers : Partial(RouterIds, LabRouters),
     hosts : Partial(HostIds, LabHosts),
     switches : SUBSET SwitchIds, links : Seq(Cables)]
Negotiations ==
    [src : RouterIds, dst : RouterIds, at : {"look", "src", "dst", "srcRoutes", "dstRoutes"},
     srcLive : BOOLEAN, dstLive : BOOLEAN]
Offers == [host : HostIds, ip : HostAddresses, from : RouterIds \cup {Absent}, live : BOOLEAN]

LabTypes ==
    /\ lab \in Labs
    /\ file \in Snapshots \cup {Absent, Broken} /\ saving \in Snapshots \cup {Absent}
    /\ negs \subseteq Negotiations /\ offers \subseteq Offers
    /\ commands \in 0..MaxCommands /\ crashes \in 0..MaxCrashes
    /\ changed \in BOOLEAN /\ loaded \in BOOLEAN

(* A host has the address that the pool of its router has for it.          *)
Holds(rs, r, h, a) ==
    /\ r \in DOMAIN rs /\ rs[r].pool # NoPool
    /\ h \in DOMAIN rs[r].pool.Assigned /\ rs[r].pool.Assigned[h] = a
LeasesHeld ==
    /\ \A h \in DOMAIN lab.hosts :
          lab.hosts[h].from # Absent => Holds(lab.routers, lab.hosts[h].from, h, lab.hosts[h].ip)
    /\ \A o \in offers : o.from # Absent => Holds(lab.routers, o.from, o.host, o.ip)

(* Tunnels and routes lead to routers that are there, or to late ones.     *)
Leads(rs, a) == a \in late \/ \E x \in DOMAIN rs : a = Public[x]
RoutesLead(rs) == \A r \in DOMAIN rs : \A q \in rs[r].routes : Leads(rs, q.hop)
TunnelsLead == \A r \in DOMAIN lab.routers : \A a \in lab.routers[r].IKEPeers : Leads(lab.routers, a)

SavedSound == \A s \in {file, saving} \ {Absent, Broken} : Addressed(s.routers) /\ RoutesLead(s.routers)

LinksFresh ==
    ~changed =>
        /\ LinkNumbered(lab.routers, lab.links)
        /\ \E f \in Files : Len(lab.links) <= Saved(f) + commands

LabInv ==
    /\ LabTypes /\ Addressed(lab.routers) /\ LeasesDistinct /\ LeasesHeld
    /\ TunnelsLead /\ RoutesLead(lab.routers) /\ SavedSound /\ RoutesHaveTunnels /\ LinksFresh /\ FileUsable

-----------------------------------------------------------------------------
(* Partial functions.                                                      *)

LEMMA PartialMap ==
    ASSUME NEW X, NEW S, NEW f
    PROVE  f \in Partial(X, S) <=> DOMAIN f \subseteq X /\ f \in [DOMAIN f -> S]
<1>1. f \in Partial(X, S) => DOMAIN f \subseteq X /\ f \in [DOMAIN f -> S]
  BY DEF Partial
<1>2. DOMAIN f \subseteq X /\ f \in [DOMAIN f -> S] => f \in Partial(X, S)
  BY DEF Partial
<1> QED BY <1>1, <1>2

LEMMA EmptyMap == ASSUME NEW X, NEW S PROVE <<>> \in Partial(X, S)
<1>1. DOMAIN <<>> = {}
  OBVIOUS
<1>2. <<>> \in [{} -> S]
  OBVIOUS
<1> QED BY <1>1, <1>2, PartialMap

LEMMA PutMap ==
    ASSUME NEW X, NEW S, NEW f \in Partial(X, S), NEW x \in X, NEW v \in S
    PROVE  Put(f, x, v) \in Partial(X, S)
<1>1. DOMAIN f \subseteq X /\ f \in [DOMAIN f -> S]
  BY PartialMap
<1>2. Put(f, x, v) \in [DOMAIN f \cup {x} -> S] /\ DOMAIN Put(f, x, v) = DOMAIN f \cup {x}
  BY <1>1 DEF Put
<1> QED BY <1>1, <1>2, PartialMap

(* A sub-map.                                                              *)
LEMMA RestrictMap ==
    ASSUME NEW X, NEW S, NEW f \in Partial(X, S), NEW D \in SUBSET DOMAIN f
    PROVE  /\ Restrict(f, D) \in Partial(X, S) /\ DOMAIN Restrict(f, D) = D
           /\ \A y \in D : Restrict(f, D)[y] = f[y]
<1>1. DOMAIN f \subseteq X /\ f \in [DOMAIN f -> S]
  BY PartialMap
<1>2. Restrict(f, D) \in [D -> S] /\ DOMAIN Restrict(f, D) = D /\ \A y \in D : Restrict(f, D)[y] = f[y]
  BY <1>1 DEF Restrict
<1> QED BY <1>1, <1>2, PartialMap

-----------------------------------------------------------------------------
(* applyLinkState: what a lab becomes when links are applied.              *)

(* m is l with links applied that are in C: new addresses are at their     *)
(* ports, in the network of as many links as there are.                    *)
Extends(l, m, C) ==
    /\ m \in Labs /\ m.links = l.links /\ m.switches = l.switches
    /\ DOMAIN m.hosts = DOMAIN l.hosts /\ DOMAIN m.routers = DOMAIN l.routers
    /\ \A h \in DOMAIN l.hosts : m.hosts[h].ip = l.hosts[h].ip /\ m.hosts[h].from = l.hosts[h].from
    /\ \A r \in DOMAIN l.routers :
          /\ m.routers[r].routes = l.routers[r].routes /\ m.routers[r].pool = l.routers[r].pool
          /\ m.routers[r].crypto = l.routers[r].crypto /\ m.routers[r].IKEPeers = l.routers[r].IKEPeers
          /\ \A p \in DOMAIN l.routers[r].Interfaces :
                /\ p \in DOMAIN m.routers[r].Interfaces
                /\ m.routers[r].Interfaces[p] = l.routers[r].Interfaces[p]
          /\ \A p \in DOMAIN m.routers[r].Interfaces \ DOMAIN l.routers[r].Interfaces :
                /\ m.routers[r].Interfaces[p][1] = Len(l.links)
                /\ \E c \in C : /\ c.src \in DOMAIN l.routers /\ c.dst \in DOMAIN l.routers
                                /\ <<r, p>> \in Ends(c)

(* What one end of a link gets.                                            *)
SameBut(x, y, p, i) ==
    /\ y.routes = x.routes /\ y.pool = x.pool /\ y.crypto = x.crypto /\ y.IKEPeers = x.IKEPeers
    /\ \A o \in DOMAIN x.Interfaces : o \in DOMAIN y.Interfaces /\ y.Interfaces[o] = x.Interfaces[o]
    /\ \A o \in DOMAIN y.Interfaces \ DOMAIN x.Interfaces : o = p /\ y.Interfaces[o][1] = i

LEMMA AddressAssigned ==
    ASSUME NEW x \in LabRouters, NEW p \in Ports, NEW i \in Int, NEW e \in Nat \ {0}
    PROVE  /\ AssignLinkAddress(x, p, i, e) \in LabRouters
           /\ AssignLinkAddress(x, p, i, e).Interfaces[p] \in IfaceAddresses
           /\ SameBut(x, AssignLinkAddress(x, p, i, e), p, i)
<1> DEFINE near == AssignLinkAddress(x, p, i, e)
<1>1. x.Interfaces \in Partial(Ports, IfaceAddresses)
  BY DEF LabRouters, IfaceMaps
<1>2. near \in LabRouters /\ p \in DOMAIN near.Interfaces /\ SameBut(x, near, p, i)
  <2>1. CASE p \in DOMAIN x.Interfaces
    BY <2>1 DEF AssignLinkAddress, SameBut
  <2>2. CASE p \notin DOMAIN x.Interfaces
    <3>1. PICK v \in IfaceAddresses : v = <<i, e>>
      BY DEF IfaceAddresses
    <3> PICK f \in Partial(Ports, IfaceAddresses) : f = x.Interfaces
      BY <1>1
    <3> DEFINE new == Put(f, p, v)
    <3>2. /\ new \in Partial(Ports, IfaceAddresses) /\ DOMAIN new = DOMAIN f \cup {p}
          /\ new[p] = v /\ \A o \in DOMAIN f : o # p => new[o] = f[o]
      <4>1. new \in Partial(Ports, IfaceAddresses)
        BY PutMap
      <4> QED BY <4>1 DEF Put
    <3>3. near = [x EXCEPT !.Interfaces = new]
      BY <2>2, <3>1 DEF AssignLinkAddress
    <3> HIDE DEF new, near
    <3>4. /\ near \in LabRouters /\ near.Interfaces = new
          /\ near.routes = x.routes /\ near.pool = x.pool /\ near.crypto = x.crypto /\ near.IKEPeers = x.IKEPeers
      BY <3>2, <3>3 DEF LabRouters, IfaceMaps
    <3> QED BY <3>1, <3>2, <3>4, <2>2 DEF SameBut
  <2> QED BY <2>1, <2>2
<1>3. near.Interfaces[p] \in IfaceAddresses
  <2>1. near.Interfaces \in Partial(Ports, IfaceAddresses)
    BY <1>2 DEF LabRouters, IfaceMaps
  <2> QED BY <1>2, <2>1, PartialMap
<1> QED BY <1>2, <1>3

LEMMA NeighborSet ==
    ASSUME NEW x \in LabRouters, NEW p \in Ports, NEW d \in Devices, NEW q \in Ports, NEW a \in IfaceAddresses
    PROVE  /\ SetNeighbor(x, p, d, q, a) \in LabRouters
           /\ \A y, o, i : SameBut(y, x, o, i) => SameBut(y, SetNeighbor(x, p, d, q, a), o, i)
<1> DEFINE done == SetNeighbor(x, p, d, q, a)
           new == Put(x.PortNeighbors, p, [router |-> d, port |-> q, ip |-> a])
<1>1. x.PortNeighbors \in NeighborMaps
  BY DEF LabRouters
<1>2. new \in NeighborMaps
  BY <1>1, PutMap DEF NeighborMaps
<1>3. done = [x EXCEPT !.PortNeighbors = new]
  BY DEF SetNeighbor
<1> HIDE DEF new, done
<1>4. done \in LabRouters /\ done.Interfaces = x.Interfaces /\ done.routes = x.routes
      /\ done.pool = x.pool /\ done.crypto = x.crypto /\ done.IKEPeers = x.IKEPeers
  BY <1>2, <1>3 DEF LabRouters
<1>5. \A y, o, i : SameBut(y, x, o, i) => SameBut(y, done, o, i)
  BY <1>4 DEF SameBut
<1> QED BY <1>4, <1>5 DEF done

LEMMA CableEnds ==
    ASSUME NEW c \in Cables
    PROVE  /\ c.src \in Devices /\ c.dst \in Devices /\ c.src # c.dst
           /\ c.sport \in Ports /\ c.dport \in Ports
  BY LabAssumption DEF Ports

LEMMA LabTyped ==
    ASSUME NEW l \in Labs
    PROVE  /\ DOMAIN l.routers \subseteq RouterIds /\ l.routers \in [DOMAIN l.routers -> LabRouters]
           /\ DOMAIN l.hosts \subseteq HostIds /\ l.hosts \in [DOMAIN l.hosts -> LabHosts]
           /\ l.links \in Seq(Cables) /\ l.switches \subseteq SwitchIds
           /\ l = [routers |-> l.routers, hosts |-> l.hosts, switches |-> l.switches, links |-> l.links]
<1>1. l.routers \in Partial(RouterIds, LabRouters) /\ l.hosts \in Partial(HostIds, LabHosts)
  BY DEF Labs
<1>2. /\ l.links \in Seq(Cables) /\ l.switches \subseteq SwitchIds
      /\ l = [routers |-> l.routers, hosts |-> l.hosts, switches |-> l.switches, links |-> l.links]
  BY DEF Labs
<1> QED BY <1>1, <1>2, PartialMap

LEMMA UplinksTyped ==
    ASSUME NEW l \in Labs, NEW c \in Cables
    PROVE  /\ SetUplinks(l, c) \in Partial(HostIds, LabHosts)
           /\ DOMAIN SetUplinks(l, c) = DOMAIN l.hosts
           /\ \A h \in DOMAIN l.hosts :
                 SetUplinks(l, c)[h].ip = l.hosts[h].ip /\ SetUplinks(l, c)[h].from = l.hosts[h].from
<1>1. DOMAIN l.hosts \subseteq HostIds /\ l.hosts \in [DOMAIN l.hosts -> LabHosts]
  BY LabTyped
<1>2. c.src \in Devices /\ c.dst \in Devices
  BY CableEnds
<1>3. ASSUME NEW h \in DOMAIN l.hosts
      PROVE  /\ SetUplinks(l, c)[h] \in LabHosts
             /\ SetUplinks(l, c)[h].ip = l.hosts[h].ip /\ SetUplinks(l, c)[h].from = l.hosts[h].from
  <2>1. l.hosts[h] \in LabHosts
    BY <1>1
  <2>2. \/ SetUplinks(l, c)[h] = l.hosts[h]
        \/ \E d \in Devices : SetUplinks(l, c)[h] = [l.hosts[h] EXCEPT !.uplink = d]
    BY <1>2 DEF SetUplinks
  <2> QED BY <2>1, <2>2 DEF LabHosts
<1>4. DOMAIN SetUplinks(l, c) = DOMAIN l.hosts /\ SetUplinks(l, c) \in [DOMAIN l.hosts -> LabHosts]
  <2>1. SetUplinks(l, c) = [h \in DOMAIN l.hosts |-> SetUplinks(l, c)[h]]
    BY DEF SetUplinks
  <2> QED BY <2>1, <1>3
<1>5. SetUplinks(l, c) \in Partial(HostIds, LabHosts)
  BY <1>1, <1>4, PartialMap
<1> QED BY <1>3, <1>4, <1>5

LEMMA RoutersApplied ==
    ASSUME NEW l \in Labs, NEW c \in Cables, IsRouter(l, c.src), IsRouter(l, c.dst)
    PROVE  /\ ApplyToRouters(l, c) \in Partial(RouterIds, LabRouters)
           /\ DOMAIN ApplyToRouters(l, c) = DOMAIN l.routers
           /\ \A r \in DOMAIN l.routers :
                 LET x == l.routers[r]  y == ApplyToRouters(l, c)[r]
                 IN  /\ y.routes = x.routes /\ y.pool = x.pool /\ y.crypto = x.crypto /\ y.IKEPeers = x.IKEPeers
                     /\ \A p \in DOMAIN x.Interfaces : p \in DOMAIN y.Interfaces /\ y.Interfaces[p] = x.Interfaces[p]
                     /\ \A p \in DOMAIN y.Interfaces \ DOMAIN x.Interfaces :
                           y.Interfaces[p][1] = Len(l.links) /\ <<r, p>> \in Ends(c)
<1> DEFINE n == Len(l.links)
           s == AssignLinkAddress(l.routers[c.src], c.sport, n, 1)
           d == AssignLinkAddress(l.routers[c.dst], c.dport, n, 2)
           sn == SetNeighbor(s, c.sport, c.dst, c.dport, d.Interfaces[c.dport])
           dn == SetNeighbor(d, c.dport, c.src, c.sport, s.Interfaces[c.sport])
           new == ApplyToRouters(l, c)
           old == l.routers
<1>1. /\ DOMAIN old \subseteq RouterIds /\ old \in [DOMAIN old -> LabRouters] /\ n \in Int
      /\ c.src \in DOMAIN old /\ c.dst \in DOMAIN old
      /\ old[c.src] \in LabRouters /\ old[c.dst] \in LabRouters
  BY LabTyped DEF IsRouter
<1>2. c.src \in Devices /\ c.dst \in Devices /\ c.src # c.dst /\ c.sport \in Ports /\ c.dport \in Ports
  BY CableEnds
<1>3. new = [old EXCEPT ![c.src] = sn, ![c.dst] = dn]
  BY <1>1 DEF ApplyToRouters, IsRouter
<1>4. /\ s \in LabRouters /\ s.Interfaces[c.sport] \in IfaceAddresses /\ SameBut(old[c.src], s, c.sport, n)
      /\ d \in LabRouters /\ d.Interfaces[c.dport] \in IfaceAddresses /\ SameBut(old[c.dst], d, c.dport, n)
  <2>1. 1 \in Nat \ {0} /\ 2 \in Nat \ {0}
    OBVIOUS
  <2> QED BY <1>1, <1>2, <2>1, AddressAssigned
<1> HIDE DEF s, d
<1>5. sn \in LabRouters /\ SameBut(old[c.src], sn, c.sport, n)
  BY <1>2, <1>4, NeighborSet
<1>6. dn \in LabRouters /\ SameBut(old[c.dst], dn, c.dport, n)
  BY <1>2, <1>4, NeighborSet
<1> HIDE DEF s, d, sn, dn, new, n, old
<1>7. DOMAIN new = DOMAIN old /\ new \in [DOMAIN old -> LabRouters]
  BY <1>1, <1>3, <1>5, <1>6
<1>8. new \in Partial(RouterIds, LabRouters)
  BY <1>1, <1>7, PartialMap
<1>9. ASSUME NEW r \in DOMAIN old
      PROVE  /\ new[r].routes = old[r].routes /\ new[r].pool = old[r].pool
             /\ new[r].crypto = old[r].crypto /\ new[r].IKEPeers = old[r].IKEPeers
             /\ \A p \in DOMAIN old[r].Interfaces :
                   p \in DOMAIN new[r].Interfaces /\ new[r].Interfaces[p] = old[r].Interfaces[p]
             /\ \A p \in DOMAIN new[r].Interfaces \ DOMAIN old[r].Interfaces :
                   new[r].Interfaces[p][1] = n /\ <<r, p>> \in Ends(c)
  <2>1. CASE r = c.src
    <3>1. new[r] = sn
      BY <1>1, <1>2, <1>3, <2>1
    <3> QED BY <1>5, <2>1, <3>1 DEF Ends, SameBut
  <2>2. CASE r = c.dst
    <3>1. new[r] = dn
      BY <1>1, <1>2, <1>3, <2>2
    <3> QED BY <1>6, <2>2, <3>1 DEF Ends, SameBut
  <2>3. CASE r # c.src /\ r # c.dst
    <3>1. new[r] = old[r]
      BY <1>1, <1>2, <1>3, <2>3
    <3> QED BY <3>1
  <2> QED BY <2>1, <2>2, <2>3
<1> QED BY <1>7, <1>8, <1>9 DEF new, old, n

LEMMA LinkApplied ==
    ASSUME NEW l \in Labs, NEW c \in Cables
    PROVE  Extends(l, applyLinkState(l, c), {c})
<1> DEFINE m == applyLinkState(l, c)
<1>1. m = [routers |-> ApplyToRouters(l, c), hosts |-> SetUplinks(l, c), switches |-> l.switches, links |-> l.links]
  <2>1. l = [routers |-> l.routers, hosts |-> l.hosts, switches |-> l.switches, links |-> l.links]
    BY LabTyped
  <2> DEFINE x == l.routers
             h == l.hosts
             s == l.switches
             k == l.links
             ar == ApplyToRouters(l, c)
             su == SetUplinks(l, c)
  <2>2. m = [l EXCEPT !.routers = ar, !.hosts = su]
    BY DEF applyLinkState
  <2>3. l = [routers |-> x, hosts |-> h, switches |-> s, links |-> k]
    BY <2>1
  <2> HIDE DEF m, ar, su, x, h, s, k
  <2>4. m = [routers |-> ar, hosts |-> su, switches |-> s, links |-> k]
    BY <2>2, <2>3
  <2> QED BY <2>4 DEF ar, su, s, k
<1>2. l.routers \in Partial(RouterIds, LabRouters) /\ l.switches \in SUBSET SwitchIds /\ l.links \in Seq(Cables)
  BY DEF Labs
<1>3. CASE IsRouter(l, c.src) /\ IsRouter(l, c.dst)
  <2>1. m \in Labs
    BY <1>1, <1>2, <1>3, RoutersApplied, UplinksTyped DEF Labs
  <2> QED BY <1>1, <1>3, <2>1, RoutersApplied, UplinksTyped DEF Extends, IsRouter
<1>4. CASE ~(IsRouter(l, c.src) /\ IsRouter(l, c.dst))
  <2>0. ApplyToRouters(l, c) = l.routers
    BY <1>4 DEF ApplyToRouters
  <2>1. m \in Labs
    BY <1>1, <1>2, <2>0, UplinksTyped DEF Labs
  <2> QED BY <1>1, <2>0, <2>1, UplinksTyped DEF Extends
<1> QED BY <1>3, <1>4

LEMMA ExtendsMore ==
    ASSUME NEW l, NEW m, NEW n, NEW C, NEW c \in C, Extends(l, m, C), Extends(m, n, {c})
    PROVE  Extends(l, n, C)
<1>1. /\ n \in Labs /\ n.links = l.links /\ n.switches = l.switches
      /\ DOMAIN n.hosts = DOMAIN l.hosts /\ DOMAIN n.routers = DOMAIN l.routers
      /\ \A h \in DOMAIN l.hosts : n.hosts[h].ip = l.hosts[h].ip /\ n.hosts[h].from = l.hosts[h].from
  BY DEF Extends
<1>2. ASSUME NEW r \in DOMAIN l.routers
      PROVE  /\ n.routers[r].routes = l.routers[r].routes /\ n.routers[r].pool = l.routers[r].pool
             /\ n.routers[r].crypto = l.routers[r].crypto /\ n.routers[r].IKEPeers = l.routers[r].IKEPeers
             /\ \A p \in DOMAIN l.routers[r].Interfaces :
                   /\ p \in DOMAIN n.routers[r].Interfaces
                   /\ n.routers[r].Interfaces[p] = l.routers[r].Interfaces[p]
  BY DEF Extends
<1>3. ASSUME NEW r \in DOMAIN l.routers, NEW p \in DOMAIN n.routers[r].Interfaces \ DOMAIN l.routers[r].Interfaces
      PROVE  /\ n.routers[r].Interfaces[p][1] = Len(l.links)
             /\ \E k \in C : k.src \in DOMAIN l.routers /\ k.dst \in DOMAIN l.routers /\ <<r, p>> \in Ends(k)
  <2>1. CASE p \in DOMAIN m.routers[r].Interfaces
    BY <2>1 DEF Extends
  <2>2. CASE p \notin DOMAIN m.routers[r].Interfaces
    BY <2>2 DEF Extends
  <2> QED BY <2>1, <2>2
<1> QED BY <1>1, <1>2, <1>3 DEF Extends

-----------------------------------------------------------------------------
(* Recursion over a list of links: induction is the choice of the least    *)
(* index at which it fails.                                                *)

LEMMA LeastIndex ==
    ASSUME NEW T \in SUBSET Nat, T # {}
    PROVE  \E m \in T : \A k \in T : m <= k
<1> DEFINE R == OpToRel(<, Nat)
<1>1. IsWellFoundedOn(R, Nat)
  BY NatLessThanWellFounded
<1>2. PICK m \in T : \A k \in T : <<k, m>> \notin R
  <2> HIDE DEF R
  <2> QED BY <1>1, WFMin, Zenon
<1>3. \A k \in T : ~(k < m)
  BY <1>2 DEF OpToRel
<1> QED BY <1>3

(* The labs that ImportSnapshot goes through.                              *)
AppliedTo(snap, n, g) ==
    g = [i \in 0..n |-> IF i = 0 THEN Restored(snap) ELSE applyLinkState(g[i - 1], snap.links[i])]

LEMMA AppliedExists ==
    ASSUME NEW snap, NEW n \in Nat
    PROVE  \E g : AppliedTo(snap, n, g)
<1> DEFINE T == {k \in Nat : ~\E g : AppliedTo(snap, k, g)}
<1> SUFFICES ASSUME T # {} PROVE FALSE
  OBVIOUS
<1>1. PICK m \in T : \A k \in T : m <= k
  BY LeastIndex
<1>2. CASE m = 0
  <2> DEFINE g == [i \in 0..0 |-> Restored(snap)]
  <2>1. g = [i \in 0..0 |-> IF i = 0 THEN Restored(snap) ELSE applyLinkState(g[i - 1], snap.links[i])]
    OBVIOUS
  <2>2. AppliedTo(snap, m, g)
    BY <1>2, <2>1 DEF AppliedTo
  <2> QED BY <2>2
<1>3. CASE m # 0
  <2>1. m - 1 \in Nat /\ m - 1 \notin T
    BY <1>1, <1>3
  <2>2. PICK h : AppliedTo(snap, m - 1, h)
    BY <2>1
  <2> DEFINE g == [i \in 0..m |-> IF i = m THEN applyLinkState(h[m - 1], snap.links[m]) ELSE h[i]]
  <2>3. DOMAIN h = 0..m - 1 /\ \A i \in 0..m - 1 :
            h[i] = IF i = 0 THEN Restored(snap) ELSE applyLinkState(h[i - 1], snap.links[i])
    <3> DEFINE d(i) == IF i = 0 THEN Restored(snap) ELSE applyLinkState(h[i - 1], snap.links[i])
    <3>1. h = [i \in 0..m - 1 |-> d(i)]
      BY <2>2 DEF AppliedTo
    <3> HIDE DEF d
    <3>2. DOMAIN h = 0..m - 1 /\ \A i \in 0..m - 1 : h[i] = d(i)
      BY <3>1
    <3> QED BY <3>2 DEF d
  <2>4. ASSUME NEW i \in 0..m
        PROVE  g[i] = IF i = 0 THEN Restored(snap) ELSE applyLinkState(g[i - 1], snap.links[i])
    <3>1. CASE i = m
      BY <1>3, <3>1
    <3>2. CASE i # m
      BY <2>3, <3>2
    <3> QED BY <3>1, <3>2
  <2>5. g = [i \in 0..m |-> IF i = 0 THEN Restored(snap) ELSE applyLinkState(g[i - 1], snap.links[i])]
    <3>1. g = [i \in 0..m |-> g[i]]
      OBVIOUS
    <3> QED BY <2>4, <3>1
  <2>6. AppliedTo(snap, m, g)
    BY <2>5 DEF AppliedTo
  <2> QED BY <2>6
<1> QED BY <1>2, <1>3

LEMMA ImportApplies ==
    ASSUME NEW snap, snap.links \in Seq(Cables)
    PROVE  \E g : AppliedTo(snap, Len(snap.links), g) /\ ImportSnapshot(snap) = g[Len(snap.links)]
<1> DEFINE g == CHOOSE g : AppliedTo(snap, Len(snap.links), g)
<1>1. AppliedTo(snap, Len(snap.links), g)
  <2>1. Len(snap.links) \in Nat
    OBVIOUS
  <2>2. \E h : AppliedTo(snap, Len(snap.links), h)
    BY <2>1, AppliedExists
  <2> QED BY <2>2, Zenon
<1>2. ImportSnapshot(snap) = g[Len(snap.links)]
  BY Zenon DEF ImportSnapshot, AppliedTo
<1> QED BY <1>1, <1>2

LEMMA SnapshotTyped ==
    ASSUME NEW s \in Snapshots
    PROVE  /\ DOMAIN s.routers \subseteq RouterIds
           /\ s.routers \in [DOMAIN s.routers -> [Interfaces : IfaceMaps, routes : SUBSET Routes]]
           /\ DOMAIN s.hosts \subseteq HostIds
           /\ s.hosts \in [DOMAIN s.hosts -> [ip : HostAddresses \cup {Absent}, uplink : Devices \cup {Absent}]]
           /\ s.links \in Seq(Cables) /\ s.switches \subseteq SwitchIds
<1>1. /\ s.routers \in Partial(RouterIds, [Interfaces : IfaceMaps, routes : SUBSET Routes])
      /\ s.hosts \in Partial(HostIds, [ip : HostAddresses \cup {Absent}, uplink : Devices \cup {Absent}])
      /\ s.links \in Seq(Cables) /\ s.switches \subseteq SwitchIds
  BY DEF Snapshots
<1> QED BY <1>1, PartialMap

LEMMA NewRouterTyped ==
    ASSUME NEW m \in IfaceMaps, NEW q \in SUBSET Routes
    PROVE  /\ [NewRouter(m) EXCEPT !.routes = q] \in LabRouters
           /\ NewRouter(m) \in LabRouters
<1>1. <<>> \in NeighborMaps
  BY EmptyMap DEF NeighborMaps
<1> QED BY <1>1 DEF NewRouter, LabRouters

LEMMA RestoredTyped ==
    ASSUME NEW s \in Snapshots
    PROVE  /\ Restored(s) \in Labs /\ Restored(s).links = s.links /\ Restored(s).switches = s.switches
           /\ DOMAIN Restored(s).routers = DOMAIN s.routers /\ DOMAIN Restored(s).hosts = DOMAIN s.hosts
           /\ \A h \in DOMAIN s.hosts :
                 Restored(s).hosts[h].ip = s.hosts[h].ip /\ Restored(s).hosts[h].from = Absent
           /\ \A r \in DOMAIN s.routers :
                 /\ Restored(s).routers[r].Interfaces = s.routers[r].Interfaces
                 /\ Restored(s).routers[r].routes = s.routers[r].routes
                 /\ Restored(s).routers[r].pool = NoPool /\ Restored(s).routers[r].crypto = {}
                 /\ Restored(s).routers[r].IKEPeers = {}
<1> DEFINE rs == [r \in DOMAIN s.routers |-> RestoreRouter(s.routers[r])]
           hs == [h \in DOMAIN s.hosts |-> RestoreHost(s.hosts[h])]
<1>1. \A r \in DOMAIN s.routers :
         /\ RestoreRouter(s.routers[r]) \in LabRouters
         /\ RestoreRouter(s.routers[r]).Interfaces = s.routers[r].Interfaces
         /\ RestoreRouter(s.routers[r]).routes = s.routers[r].routes
         /\ RestoreRouter(s.routers[r]).pool = NoPool /\ RestoreRouter(s.routers[r]).crypto = {}
         /\ RestoreRouter(s.routers[r]).IKEPeers = {}
  <2> TAKE r \in DOMAIN s.routers
  <2>1. s.routers[r].Interfaces \in IfaceMaps /\ s.routers[r].routes \in SUBSET Routes
    BY SnapshotTyped
  <2>2. RestoreRouter(s.routers[r]) \in LabRouters
    BY <2>1, NewRouterTyped DEF RestoreRouter
  <2> QED BY <2>2 DEF RestoreRouter, NewRouter
<1>2. \A h \in DOMAIN s.hosts :
         /\ RestoreHost(s.hosts[h]) \in LabHosts
         /\ RestoreHost(s.hosts[h]).ip = s.hosts[h].ip /\ RestoreHost(s.hosts[h]).from = Absent
  BY SnapshotTyped DEF RestoreHost, NewHost, LabHosts
<1>3. rs \in Partial(RouterIds, LabRouters)
  <2>1. DOMAIN rs \subseteq RouterIds /\ rs \in [DOMAIN rs -> LabRouters]
    BY <1>1, SnapshotTyped
  <2> QED BY <2>1, PartialMap
<1>4. hs \in Partial(HostIds, LabHosts)
  <2>1. DOMAIN hs \subseteq HostIds /\ hs \in [DOMAIN hs -> LabHosts]
    BY <1>2, SnapshotTyped
  <2> QED BY <2>1, PartialMap
<1>5. /\ DOMAIN rs = DOMAIN s.routers /\ DOMAIN hs = DOMAIN s.hosts
      /\ \A r \in DOMAIN s.routers : rs[r] = RestoreRouter(s.routers[r])
      /\ \A h \in DOMAIN s.hosts : hs[h] = RestoreHost(s.hosts[h])
  OBVIOUS
<1>6. Restored(s) = [routers |-> rs, hosts |-> hs, switches |-> s.switches, links |-> s.links]
  BY DEF Restored
<1> HIDE DEF rs, hs
<1>7. /\ Restored(s).routers = rs /\ Restored(s).hosts = hs
      /\ Restored(s).links = s.links /\ Restored(s).switches = s.switches
  BY <1>6
<1>8. Restored(s) \in Labs
  BY <1>3, <1>4, <1>6, SnapshotTyped DEF Labs
<1> QED BY <1>1, <1>2, <1>5, <1>7, <1>8

LEMMA ExtendsItself ==
    ASSUME NEW l \in Labs, NEW C
    PROVE  Extends(l, l, C)
  BY DEF Extends

(* Whatever the links are, importing them only adds addresses.             *)
LEMMA Imported ==
    ASSUME NEW s \in Snapshots
    PROVE  Extends(Restored(s), ImportSnapshot(s), Range(s.links))
<1>1. s.links \in Seq(Cables) /\ Restored(s) \in Labs
  BY SnapshotTyped, RestoredTyped
<1> DEFINE n == Len(s.links)
<1>2. PICK g : AppliedTo(s, n, g) /\ ImportSnapshot(s) = g[n]
  BY <1>1, ImportApplies
<1>3. \A i \in 0..n : g[i] = IF i = 0 THEN Restored(s) ELSE applyLinkState(g[i - 1], s.links[i])
  <2> DEFINE d(i) == IF i = 0 THEN Restored(s) ELSE applyLinkState(g[i - 1], s.links[i])
  <2>1. g = [i \in 0..n |-> d(i)]
    BY <1>2 DEF AppliedTo
  <2> HIDE DEF d, n
  <2>2. \A i \in 0..n : g[i] = d(i)
    BY <2>1
  <2> QED BY <2>2 DEF d
<1> DEFINE T == {i \in 0..n : ~Extends(Restored(s), g[i], Range(s.links))}
<1>4. T = {}
  <2> SUFFICES ASSUME T # {} PROVE FALSE
    OBVIOUS
  <2>0. T \in SUBSET Nat
    OBVIOUS
  <2>1. PICK m \in T : \A k \in T : m <= k
    BY <2>0, LeastIndex
  <2>2. m # 0
    BY <1>1, <1>3, <2>1, ExtendsItself
  <2>3. m - 1 \in 0..n /\ m - 1 \notin T /\ m \in 1..n
    BY <2>1, <2>2, <1>1
  <2>4. Extends(Restored(s), g[m - 1], Range(s.links))
    BY <2>3
  <2>5. s.links[m] \in Cables /\ s.links[m] \in Range(s.links)
    BY <1>1, <2>3 DEF Range
  <2>6. g[m] = applyLinkState(g[m - 1], s.links[m])
    <3>1. m \in 0..n
      OBVIOUS
    <3>2. g[m] = IF m = 0 THEN Restored(s) ELSE applyLinkState(g[m - 1], s.links[m])
      BY <1>3, <3>1
    <3> QED BY <2>2, <3>2
  <2>7. g[m - 1] \in Labs
    BY <2>4 DEF Extends
  <2>8. Extends(g[m - 1], g[m], {s.links[m]})
    BY <2>5, <2>6, <2>7, LinkApplied
  <2>9. Extends(Restored(s), g[m], Range(s.links))
    BY <2>4, <2>5, <2>8, ExtendsMore
  <2> QED BY <2>9, <2>1
<1>5. n \in 0..n
  BY <1>1
<1> QED BY <1>2, <1>4, <1>5

-----------------------------------------------------------------------------
(* The links that stay.                                                    *)

FilteredBy(links, gone, n, g) ==
    g = [i \in 0..n |-> IF i = 0 THEN <<>>
                        ELSE IF links[i] \in gone THEN g[i - 1] ELSE Append(g[i - 1], links[i])]

LEMMA FilteredExists ==
    ASSUME NEW links, NEW gone, NEW n \in Nat
    PROVE  \E g : FilteredBy(links, gone, n, g)
<1> DEFINE T == {k \in Nat : ~\E g : FilteredBy(links, gone, k, g)}
           Step(i, v) == IF links[i] \in gone THEN v ELSE Append(v, links[i])
<1> SUFFICES ASSUME T # {} PROVE FALSE
  OBVIOUS
<1>0. T \in SUBSET Nat
  OBVIOUS
<1>1. PICK m \in T : \A k \in T : m <= k
  BY <1>0, LeastIndex
<1>2. CASE m = 0
  <2> DEFINE g == [i \in 0..0 |-> <<>>]
  <2>1. g = [i \in 0..0 |-> IF i = 0 THEN <<>> ELSE Step(i, g[i - 1])]
    OBVIOUS
  <2>2. FilteredBy(links, gone, m, g)
    BY <1>2, <2>1 DEF FilteredBy
  <2> QED BY <2>2
<1>3. CASE m # 0
  <2>1. m - 1 \in Nat /\ m - 1 \notin T
    BY <1>1, <1>3
  <2>2. PICK h : FilteredBy(links, gone, m - 1, h)
    BY <2>1
  <2> DEFINE g == [i \in 0..m |-> IF i = m THEN Step(m, h[m - 1]) ELSE h[i]]
  <2>3. DOMAIN h = 0..m - 1 /\ \A i \in 0..m - 1 : h[i] = IF i = 0 THEN <<>> ELSE Step(i, h[i - 1])
    <3> DEFINE d(i) == IF i = 0 THEN <<>> ELSE Step(i, h[i - 1])
    <3>1. h = [i \in 0..m - 1 |-> d(i)]
      BY <2>2 DEF FilteredBy
    <3> HIDE DEF d
    <3>2. DOMAIN h = 0..m - 1 /\ \A i \in 0..m - 1 : h[i] = d(i)
      BY <3>1
    <3> QED BY <3>2 DEF d
  <2>4. ASSUME NEW i \in 0..m
        PROVE  g[i] = IF i = 0 THEN <<>> ELSE Step(i, g[i - 1])
    <3> HIDE DEF Step
    <3>1. CASE i = m
      BY <1>3, <3>1
    <3>2. CASE i # m
      BY <2>3, <3>2
    <3> QED BY <3>1, <3>2
  <2>5. g = [i \in 0..m |-> IF i = 0 THEN <<>> ELSE Step(i, g[i - 1])]
    <3>1. g = [i \in 0..m |-> g[i]]
      OBVIOUS
    <3> HIDE DEF Step
    <3> QED BY <2>4, <3>1
  <2>6. FilteredBy(links, gone, m, g)
    BY <2>5 DEF FilteredBy
  <2> QED BY <2>6
<1> QED BY <1>2, <1>3

LEMMA WithoutTyped ==
    ASSUME NEW links \in Seq(Cables), NEW gone
    PROVE  Without(links, gone) \in Seq(Cables)
<1> DEFINE n == Len(links)
           f == CHOOSE g : FilteredBy(links, gone, n, g)
<1>0. n \in Nat
  OBVIOUS
<1>1. FilteredBy(links, gone, n, f)
  <2>1. \E g : FilteredBy(links, gone, n, g)
    BY <1>0, FilteredExists
  <2> QED BY <2>1, Zenon
<1>2. Without(links, gone) = f[n]
  BY Zenon DEF Without, FilteredBy
<1> HIDE DEF f, n
<1>3. \A i \in 0..n :
         f[i] = IF i = 0 THEN <<>>
                ELSE IF links[i] \in gone THEN f[i - 1] ELSE Append(f[i - 1], links[i])
  <2> DEFINE d(i) == IF i = 0 THEN <<>>
                     ELSE IF links[i] \in gone THEN f[i - 1] ELSE Append(f[i - 1], links[i])
  <2>1. f = [i \in 0..n |-> d(i)]
    BY <1>1 DEF FilteredBy
  <2> HIDE DEF d
  <2>2. \A i \in 0..n : f[i] = d(i)
    BY <2>1
  <2> QED BY <2>2 DEF d
<1> DEFINE T == {i \in 0..n : f[i] \notin Seq(Cables)}
<1>4. T = {}
  <2> SUFFICES ASSUME T # {} PROVE FALSE
    OBVIOUS
  <2>0. T \in SUBSET Nat
    BY <1>0
  <2>1. PICK m \in T : \A k \in T : m <= k
    BY <2>0, LeastIndex
  <2>a. f[0] = <<>> /\ <<>> \in Seq(Cables)
    BY <1>0, <1>3
  <2>2. m # 0
    BY <2>a, <2>1
  <2>3. m - 1 \in 0..n /\ m - 1 \notin T /\ m \in 1..n
    BY <2>1, <2>2, <1>0
  <2>4. f[m - 1] \in Seq(Cables) /\ links[m] \in Cables
    BY <2>3 DEF n
  <2>5. f[m] = IF links[m] \in gone THEN f[m - 1] ELSE Append(f[m - 1], links[m])
    BY <1>3, <2>2, <2>3
  <2>6. f[m] \in Seq(Cables)
    BY <2>4, <2>5
  <2> QED BY <2>6, <2>1
<1> QED BY <1>0, <1>2, <1>4

-----------------------------------------------------------------------------
(* Steps that leave some of the invariant alone.                           *)

LEMMA AssumedOfConstants ==
    /\ Absent \notin Snapshots /\ Broken \notin Snapshots /\ Absent # Broken
    /\ Absent \notin RouterIds /\ NoPool \notin Pools
    /\ MaxCommands \in Nat /\ MaxCrashes \in Nat
    /\ \A n \in Lans : n \in Int /\ n <= 0
  BY LabAssumption

LEMMA InterfacesGiven ==
    ASSUME NEW r \in RouterIds
    PROVE  /\ Iface0[r] \in IfaceMaps /\ Public[r] \in Range(Iface0[r])
           /\ Iface0[r] \in [DOMAIN Iface0[r] -> IfaceAddresses]
<1>1. /\ Iface0[r] \in [DOMAIN Iface0[r] -> IfaceAddresses] /\ Public[r] \in Range(Iface0[r])
  BY LabAssumption
<1>2. DOMAIN Iface0[r] \subseteq Ports
  BY DEF Ports
<1> QED BY <1>1, <1>2, PartialMap DEF IfaceMaps

(* Nothing is saved, loaded or lost.                                       *)
LEMMA FilesKept ==
    ASSUME LabInv, UNCHANGED <<file, saving, crashes>>, late \subseteq late'
    PROVE  SavedSound' /\ FileUsable'
<1>1. FileUsable'
  BY DEF LabInv, FileUsable
<1>2. SavedSound'
  BY DEF LabInv, SavedSound, RoutesLead, Leads
<1> QED BY <1>1, <1>2

LEMMA CommandTyped ==
    ASSUME LabInv, Command
    PROVE  commands' = commands + 1 /\ commands' \in 0..MaxCommands /\ commands \in Nat /\ crashes' = crashes
  BY AssumedOfConstants DEF LabInv, LabTypes, Command

(* The lab is made of its parts.                                           *)
LEMMA LabMade ==
    ASSUME NEW rs \in Partial(RouterIds, LabRouters), NEW hs \in Partial(HostIds, LabHosts),
           NEW sw \in SUBSET SwitchIds, NEW ks \in Seq(Cables)
    PROVE  [routers |-> rs, hosts |-> hs, switches |-> sw, links |-> ks] \in Labs
  BY DEF Labs

LEMMA LabParts ==
    ASSUME NEW l \in Labs
    PROVE  /\ l.routers \in Partial(RouterIds, LabRouters) /\ l.hosts \in Partial(HostIds, LabHosts)
           /\ l.switches \in SUBSET SwitchIds /\ l.links \in Seq(Cables)
           /\ \A x : [l EXCEPT !.routers = x] =
                        [routers |-> x, hosts |-> l.hosts, switches |-> l.switches, links |-> l.links]
           /\ \A x : [l EXCEPT !.hosts = x] =
                        [routers |-> l.routers, hosts |-> x, switches |-> l.switches, links |-> l.links]
           /\ \A x, y : [l EXCEPT !.routers = x, !.hosts = y] =
                        [routers |-> x, hosts |-> y, switches |-> l.switches, links |-> l.links]
           /\ \A x : [l EXCEPT !.switches = x] =
                        [routers |-> l.routers, hosts |-> l.hosts, switches |-> x, links |-> l.links]
           /\ \A x : [l EXCEPT !.links = x] =
                        [routers |-> l.routers, hosts |-> l.hosts, switches |-> l.switches, links |-> x]
<1>1. /\ l.routers \in Partial(RouterIds, LabRouters) /\ l.hosts \in Partial(HostIds, LabHosts)
      /\ l.switches \in SUBSET SwitchIds /\ l.links \in Seq(Cables)
  BY DEF Labs
<1>2. PICK a, b, c, d : l = [routers |-> a, hosts |-> b, switches |-> c, links |-> d]
  BY DEF Labs
<1>3. l.routers = a /\ l.hosts = b /\ l.switches = c /\ l.links = d
  BY <1>2
<1>4. ASSUME NEW x PROVE [l EXCEPT !.routers = x] = [routers |-> x, hosts |-> l.hosts, switches |-> l.switches, links |-> l.links]
  <2>1. [l EXCEPT !.routers = x] = [routers |-> x, hosts |-> b, switches |-> c, links |-> d]
    BY <1>2
  <2> QED BY <2>1, <1>3
<1>5. ASSUME NEW x PROVE [l EXCEPT !.hosts = x] = [routers |-> l.routers, hosts |-> x, switches |-> l.switches, links |-> l.links]
  <2>1. [l EXCEPT !.hosts = x] = [routers |-> a, hosts |-> x, switches |-> c, links |-> d]
    BY <1>2
  <2> QED BY <2>1, <1>3
<1>6. ASSUME NEW x, NEW y PROVE [l EXCEPT !.routers = x, !.hosts = y] = [routers |-> x, hosts |-> y, switches |-> l.switches, links |-> l.links]
  <2>0. [l EXCEPT !.routers = x, !.hosts = y] = [[l EXCEPT !.routers = x] EXCEPT !.hosts = y]
    OBVIOUS
  <2>1. [l EXCEPT !.routers = x] = [routers |-> x, hosts |-> b, switches |-> c, links |-> d]
    BY <1>2
  <2>2. [[routers |-> x, hosts |-> b, switches |-> c, links |-> d] EXCEPT !.hosts = y]
            = [routers |-> x, hosts |-> y, switches |-> c, links |-> d]
    OBVIOUS
  <2> QED BY <2>0, <2>1, <2>2, <1>3
<1>7. ASSUME NEW x PROVE [l EXCEPT !.switches = x] = [routers |-> l.routers, hosts |-> l.hosts, switches |-> x, links |-> l.links]
  <2>1. [l EXCEPT !.switches = x] = [routers |-> a, hosts |-> b, switches |-> x, links |-> d]
    BY <1>2
  <2> QED BY <2>1, <1>3
<1>8. ASSUME NEW x PROVE [l EXCEPT !.links = x] = [routers |-> l.routers, hosts |-> l.hosts, switches |-> l.switches, links |-> x]
  <2>1. [l EXCEPT !.links = x] = [routers |-> a, hosts |-> b, switches |-> c, links |-> x]
    BY <1>2
  <2> QED BY <2>1, <1>3
<1> QED BY <1>1, <1>4, <1>5, <1>6, <1>7, <1>8

(* What a router has to be for its part of the invariant.                  *)
PoolApart(x) ==
    x.pool # NoPool => /\ Distinct(x.pool)
                       /\ \A c \in DOMAIN x.pool.Assigned : x.pool.Assigned[c] \notin Range(x.Interfaces)

(* One router is changed, and its interfaces are not.                      *)
LEMMA RouterChanged ==
    ASSUME LabInv, NEW r \in DOMAIN lab.routers, NEW x \in LabRouters,
           x.Interfaces = lab.routers[r].Interfaces,
           lab'.routers = [lab.routers EXCEPT ![r] = x], lab'.links = lab.links
    PROVE  /\ lab'.routers \in Partial(RouterIds, LabRouters)
           /\ DOMAIN lab'.routers = DOMAIN lab.routers /\ lab'.routers[r] = x
           /\ \A o \in DOMAIN lab.routers : o # r => lab'.routers[o] = lab.routers[o]
           /\ Addressed(lab.routers)'
           /\ PoolApart(x) => LeasesDistinct'
           /\ changed' = changed /\ commands' \in {commands, commands + 1} => LinksFresh'
<1>1. /\ lab \in Labs /\ Addressed(lab.routers) /\ LeasesDistinct /\ LinksFresh /\ commands \in Nat
  BY DEF LabInv, LabTypes
<1>2. DOMAIN lab.routers \subseteq RouterIds /\ lab.routers \in [DOMAIN lab.routers -> LabRouters]
  BY <1>1, LabTyped
<1>3. /\ DOMAIN lab'.routers = DOMAIN lab.routers /\ lab'.routers[r] = x
      /\ \A o \in DOMAIN lab.routers : o # r => lab'.routers[o] = lab.routers[o]
      /\ lab'.routers \in [DOMAIN lab.routers -> LabRouters]
  BY <1>2
<1>4. lab'.routers \in Partial(RouterIds, LabRouters)
  BY <1>2, <1>3, PartialMap
<1>5. \A o \in DOMAIN lab.routers : lab'.routers[o].Interfaces = lab.routers[o].Interfaces
  BY <1>3
<1>6. Addressed(lab.routers)'
  BY <1>1, <1>3, <1>5 DEF Addressed
<1>7. ASSUME PoolApart(x) PROVE LeasesDistinct'
  BY <1>1, <1>3, <1>7 DEF LeasesDistinct, PoolApart
<1>8. ASSUME changed' = changed, commands' \in {commands, commands + 1} PROVE LinksFresh'
  <2> SUFFICES ASSUME ~changed
               PROVE  LinkNumbered(lab'.routers, lab'.links) /\ \E f \in Files : Len(lab'.links) <= Saved(f) + commands'
    BY <1>8 DEF LinksFresh
  <2>1. LinkNumbered(lab'.routers, lab'.links)
    BY <1>1, <1>3, <1>5 DEF LinksFresh, LinkNumbered
  <2>2. PICK f \in Files : Len(lab.links) <= Saved(f) + commands
    BY <1>1 DEF LinksFresh
  <2>3. Saved(f) \in Nat /\ Len(lab.links) \in Nat
    <3>1. f = Absent \/ f.links \in Seq(Cables)
      BY LabAssumption DEF CompleteFile, IsSnapshot
    <3>2. lab.links \in Seq(Cables)
      BY <1>1, LabTyped
    <3> QED BY <3>1, <3>2 DEF Saved
  <2>4. Len(lab'.links) <= Saved(f) + commands'
    BY <1>1, <1>8, <2>2, <2>3
  <2> QED BY <2>1, <2>4
<1> QED BY <1>3, <1>4, <1>6, <1>7, <1>8

(* A step in which nothing happens to the lab.                             *)
LEMMA LabStays ==
    ASSUME LabInv, UNCHANGED <<lab, file, saving, crashes, changed, loaded>>, late \subseteq late',
           negs' \subseteq Negotiations, offers' \subseteq offers, commands' = commands
    PROVE  LabInv'
<1>1. LabTypes'
  <2>1. LabTypes /\ offers' \subseteq Offers
    BY DEF LabInv, LabTypes
  <2> QED BY <2>1 DEF LabTypes
<1>2. Addressed(lab.routers)' /\ LeasesDistinct'
  <2>1. Addressed(lab.routers) /\ LeasesDistinct
    BY DEF LabInv
  <2>2. LeasesDistinct'
    BY <2>1 DEF LeasesDistinct
  <2> QED BY <2>1, <2>2 DEF Addressed
<1>3. LeasesHeld'
  BY DEF LabInv, LeasesHeld, Holds
<1>4. TunnelsLead' /\ RoutesLead(lab.routers)'
  BY DEF LabInv, TunnelsLead, RoutesLead, Leads
<1>5. RoutesHaveTunnels' /\ LinksFresh'
  BY DEF LabInv, RoutesHaveTunnels, LinksFresh, LinkNumbered
<1> QED BY <1>1, <1>2, <1>3, <1>4, <1>5, FilesKept DEF LabInv

(* A step that changes one router, whose leases and addresses stay.        *)
LEMMA RouterStep ==
    ASSUME LabInv, NEW r \in DOMAIN lab.routers, NEW x \in LabRouters,
           x.Interfaces = lab.routers[r].Interfaces,
           lab' = [lab EXCEPT !.routers = [lab.routers EXCEPT ![r] = x]],
           UNCHANGED <<file, saving, crashes, changed, loaded>>, late \subseteq late',
           negs' \subseteq Negotiations, offers' \subseteq Offers,
           commands' \in {commands, commands + 1}, commands' \in 0..MaxCommands,
           PoolApart(x),
           lab.routers[r].pool # NoPool =>
               /\ x.pool # NoPool
               /\ \A h \in DOMAIN lab.routers[r].pool.Assigned :
                     h \in DOMAIN x.pool.Assigned /\ x.pool.Assigned[h] = lab.routers[r].pool.Assigned[h],
           \A o \in offers' \ offers :
               o.from = r /\ x.pool # NoPool /\ o.host \in DOMAIN x.pool.Assigned /\ x.pool.Assigned[o.host] = o.ip,
           \A a \in x.IKEPeers \cup {q.hop : q \in x.routes} :
               a \in late' \/ \E y \in DOMAIN lab.routers : a = Public[y],
           \A q \in x.routes : q.vpn => q.hop \in x.IKEPeers \/ loaded
    PROVE  LabInv'
<1>1. lab \in Labs
  BY DEF LabInv, LabTypes
<1> DEFINE rs == [lab.routers EXCEPT ![r] = x]
<1>2. lab' = [routers |-> rs, hosts |-> lab.hosts, switches |-> lab.switches, links |-> lab.links]
  BY <1>1, LabParts
<1>3. /\ lab'.routers = rs /\ lab'.hosts = lab.hosts
      /\ lab'.switches = lab.switches /\ lab'.links = lab.links
  BY <1>2
<1>4. /\ rs \in Partial(RouterIds, LabRouters)
      /\ DOMAIN lab'.routers = DOMAIN lab.routers /\ lab'.routers[r] = x
      /\ \A o \in DOMAIN lab.routers : o # r => lab'.routers[o] = lab.routers[o]
      /\ Addressed(lab.routers)' /\ LeasesDistinct' /\ LinksFresh'
  BY <1>3, RouterChanged
<1> HIDE DEF rs
<1>5. lab' \in Labs
  BY <1>1, <1>2, <1>4 DEF Labs
<1>6. LabTypes'
  BY <1>5 DEF LabInv, LabTypes
<1>7. \A o, h, a : Holds(lab.routers, o, h, a) => Holds(lab'.routers, o, h, a)
  <2> TAKE o, h, a
  <2>1. CASE o = r
    BY <1>4, <2>1 DEF Holds
  <2>2. CASE o # r
    BY <1>4, <2>2 DEF Holds
  <2> QED BY <2>1, <2>2
<1>8. LeasesHeld'
  <2>1. \A h \in DOMAIN lab'.hosts :
            lab'.hosts[h].from # Absent => Holds(lab'.routers, lab'.hosts[h].from, h, lab'.hosts[h].ip)
    BY <1>3, <1>7 DEF LabInv, LeasesHeld
  <2>2. \A o \in offers' : o.from # Absent => Holds(lab'.routers, o.from, o.host, o.ip)
    <3> TAKE o \in offers'
    <3>1. CASE o \in offers
      BY <1>7, <3>1 DEF LabInv, LeasesHeld
    <3>2. CASE o \notin offers
      BY <1>4, <3>2 DEF Holds
    <3> QED BY <3>1, <3>2
  <2> QED BY <2>1, <2>2 DEF LeasesHeld
<1>9. TunnelsLead' /\ RoutesLead(lab.routers)'
  <2>1. \A a : Leads(lab.routers, a) => a \in late' \/ \E y \in DOMAIN lab.routers : a = Public[y]
    BY DEF Leads
  <2>2. \A o \in DOMAIN lab.routers : \A a \in lab'.routers[o].IKEPeers \cup {q.hop : q \in lab'.routers[o].routes} :
            a \in late' \/ \E y \in DOMAIN lab.routers : a = Public[y]
    <3> TAKE o \in DOMAIN lab.routers
    <3>1. CASE o = r
      BY <1>4, <3>1
    <3>2. CASE o # r
      BY <1>4, <2>1, <3>2 DEF LabInv, TunnelsLead, RoutesLead
    <3> QED BY <3>1, <3>2
  <2> QED BY <1>4, <2>2 DEF TunnelsLead, RoutesLead, Leads
<1>10. RoutesHaveTunnels'
  BY <1>4 DEF LabInv, RoutesHaveTunnels
<1> QED BY <1>4, <1>6, <1>8, <1>9, <1>10, FilesKept DEF LabInv

-----------------------------------------------------------------------------
(* Steps that change one router.                                           *)

LEMMA RouterAt ==
    ASSUME LabInv, NEW r \in DOMAIN lab.routers
    PROVE  /\ r \in RouterIds /\ lab.routers[r] \in LabRouters /\ PoolApart(lab.routers[r])
           /\ \A a \in lab.routers[r].IKEPeers \cup {q.hop : q \in lab.routers[r].routes} :
                 a \in late \/ \E y \in DOMAIN lab.routers : a = Public[y]
           /\ \A q \in lab.routers[r].routes : q.vpn => q.hop \in lab.routers[r].IKEPeers \/ loaded
<1>1. lab \in Labs
  BY DEF LabInv, LabTypes
<1>2. r \in RouterIds /\ lab.routers[r] \in LabRouters
  BY <1>1, LabTyped
<1>3. PoolApart(lab.routers[r])
  BY DEF LabInv, LeasesDistinct, PoolApart
<1>4. \A a \in lab.routers[r].IKEPeers \cup {q.hop : q \in lab.routers[r].routes} :
          a \in late \/ \E y \in DOMAIN lab.routers : a = Public[y]
  BY DEF LabInv, TunnelsLead, RoutesLead, Leads
<1>5. \A q \in lab.routers[r].routes : q.vpn => q.hop \in lab.routers[r].IKEPeers \/ loaded
  BY DEF LabInv, RoutesHaveTunnels
<1> QED BY <1>2, <1>3, <1>4, <1>5

LEMMA StaticRouteKept ==
    ASSUME LabInv, NEW r \in RouterIds, NEW q \in RouterIds, ADD_STATIC_ROUTE(r, q)
    PROVE  LabInv'
<1> DEFINE y == lab.routers[r]
           new == [hop |-> Public[q], vpn |-> FALSE]
           x == [y EXCEPT !.routes = @ \cup {new}]
<1>1. /\ r \in DOMAIN lab.routers /\ q \in DOMAIN lab.routers /\ Command
      /\ lab' = [lab EXCEPT !.routers[r].routes = @ \cup {new}]
      /\ UNCHANGED <<negs, offers, changed, loaded, late, file, saving>>
  BY DEF ADD_STATIC_ROUTE, IsRouter, NoFile
<1>2. lab' = [lab EXCEPT !.routers = [lab.routers EXCEPT ![r] = x]]
  BY <1>1
<1>3. new \in Routes /\ y \in LabRouters
  BY <1>1, RouterAt DEF Routes
<1>4. /\ x \in LabRouters /\ x.Interfaces = y.Interfaces /\ x.pool = y.pool
      /\ x.IKEPeers = y.IKEPeers /\ x.routes = y.routes \cup {new}
  BY <1>3 DEF LabRouters
<1>5. PoolApart(x)
  BY <1>1, <1>4, RouterAt DEF PoolApart
<1>6. \A a \in x.IKEPeers \cup {z.hop : z \in x.routes} : a \in late' \/ \E z \in DOMAIN lab.routers : a = Public[z]
  BY <1>1, <1>4, RouterAt
<1>7. \A z \in x.routes : z.vpn => z.hop \in x.IKEPeers \/ loaded
  BY <1>1, <1>4, RouterAt
<1>8. negs' \subseteq Negotiations /\ offers' \subseteq Offers
  BY <1>1 DEF LabInv, LabTypes
<1> HIDE DEF x
<1> QED BY <1>1, <1>2, <1>4, <1>5, <1>6, <1>7, <1>8, CommandTyped, RouterStep

LEMMA TunnelConfigured ==
    ASSUME LabInv, NEW r \in RouterIds, NEW q \in RouterIds, ConfigureTunnel(r, q)
    PROVE  LabInv'
<1> DEFINE y == lab.routers[r]
           x == [y EXCEPT !.crypto = @ \cup {q}]
<1>1. /\ r \in DOMAIN lab.routers /\ Command
      /\ lab' = [lab EXCEPT !.routers[r].crypto = @ \cup {q}]
      /\ UNCHANGED <<negs, offers, changed, loaded, late, file, saving>>
  BY DEF ConfigureTunnel, IsRouter, NoFile
<1>2. lab' = [lab EXCEPT !.routers = [lab.routers EXCEPT ![r] = x]]
  BY <1>1
<1>3. y \in LabRouters
  BY <1>1, RouterAt
<1>4. /\ x \in LabRouters /\ x.Interfaces = y.Interfaces /\ x.pool = y.pool
      /\ x.IKEPeers = y.IKEPeers /\ x.routes = y.routes
  BY <1>3 DEF LabRouters
<1>5. PoolApart(x)
  BY <1>1, <1>4, RouterAt DEF PoolApart
<1>6. \A a \in x.IKEPeers \cup {z.hop : z \in x.routes} : a \in late' \/ \E z \in DOMAIN lab.routers : a = Public[z]
  BY <1>1, <1>4, RouterAt
<1>7. \A z \in x.routes : z.vpn => z.hop \in x.IKEPeers \/ loaded
  BY <1>1, <1>4, RouterAt
<1>8. negs' \subseteq Negotiations /\ offers' \subseteq Offers
  BY <1>1 DEF LabInv, LabTypes
<1> HIDE DEF x
<1> QED BY <1>1, <1>2, <1>4, <1>5, <1>6, <1>7, <1>8, CommandTyped, RouterStep

(* A negotiation takes a step.                                             *)
LEMMA LookUpKept ==
    ASSUME LabInv, NEW g \in negs, LookUp(g)
    PROVE  LabInv'
<1>1. /\ UNCHANGED <<lab, late, offers, commands, crashes, changed, loaded, file, saving>>
      /\ \/ negs' = negs \ {g}
         \/ negs' = (negs \ {g}) \cup {[g EXCEPT !.at = "src", !.srcLive = TRUE, !.dstLive = TRUE]}
  BY DEF LookUp, NegOnly, NoFile, GoOn, End
<1>2. g \in Negotiations /\ negs \subseteq Negotiations
  BY DEF LabInv, LabTypes
<1>3. [g EXCEPT !.at = "src", !.srcLive = TRUE, !.dstLive = TRUE] \in Negotiations
  BY <1>2 DEF Negotiations
<1>4. negs' \subseteq Negotiations
  BY <1>1, <1>2, <1>3
<1> QED BY <1>1, <1>4, LabStays

LEMMA ActivateKept ==
    ASSUME LabInv, NEW g \in negs, NEW r \in RouterIds, NEW peer \in RouterIds, NEW live \in BOOLEAN,
           NEW next \in {"dst", "srcRoutes"}, Activate(g, r, live, peer, next)
    PROVE  LabInv'
<1>1. /\ UNCHANGED <<offers, commands, crashes, changed, loaded, file, saving>>
      /\ negs' = (negs \ {g}) \cup {[g EXCEPT !.at = next]}
      /\ lab' = IF live THEN [lab EXCEPT !.routers[r].IKEPeers = @ \cup {Public[peer]}] ELSE lab
      /\ late' = IF live /\ ~IsRouter(lab, peer) THEN late \cup {Public[peer]} ELSE late
  BY DEF Activate, NegOnly, NoFile, GoOn
<1>2. negs' \subseteq Negotiations /\ offers' \subseteq Offers
  <2>1. g \in Negotiations /\ negs \subseteq Negotiations /\ offers \subseteq Offers
    BY DEF LabInv, LabTypes
  <2>2. [g EXCEPT !.at = next] \in Negotiations
    BY <2>1 DEF Negotiations
  <2> QED BY <1>1, <2>1, <2>2
<1>3. late \subseteq late'
  BY <1>1
<1>4. commands' \in 0..MaxCommands /\ commands' = commands
  BY <1>1 DEF LabInv, LabTypes
<1>5. CASE live /\ r \in DOMAIN lab.routers
  <2> DEFINE y == lab.routers[r]
             x == [y EXCEPT !.IKEPeers = @ \cup {Public[peer]}]
  <2>1. lab' = [lab EXCEPT !.routers = [lab.routers EXCEPT ![r] = x]]
    BY <1>1, <1>5
  <2>2. y \in LabRouters
    BY <1>5, RouterAt
  <2>3. /\ x \in LabRouters /\ x.Interfaces = y.Interfaces /\ x.pool = y.pool
        /\ x.IKEPeers = y.IKEPeers \cup {Public[peer]} /\ x.routes = y.routes
    BY <2>2 DEF LabRouters
  <2>4. PoolApart(x)
    BY <1>5, <2>3, RouterAt DEF PoolApart
  <2>5. Public[peer] \in late' \/ \E z \in DOMAIN lab.routers : Public[peer] = Public[z]
    BY <1>1, <1>5 DEF IsRouter
  <2>6. \A a \in x.IKEPeers \cup {z.hop : z \in x.routes} : a \in late' \/ \E z \in DOMAIN lab.routers : a = Public[z]
    BY <1>3, <1>5, <2>3, <2>5, RouterAt
  <2>7. \A z \in x.routes : z.vpn => z.hop \in x.IKEPeers \/ loaded
    BY <1>5, <2>3, RouterAt
  <2> HIDE DEF x
  <2> QED BY <1>1, <1>2, <1>3, <1>4, <1>5, <2>1, <2>3, <2>4, <2>6, <2>7, RouterStep
<1>6. CASE ~(live /\ r \in DOMAIN lab.routers)
  <2>1. lab' = lab
    <3>1. CASE ~live
      BY <1>1, <3>1
    <3>2. CASE r \notin DOMAIN lab.routers
      <4>1. lab \in Labs
        BY DEF LabInv, LabTypes
      <4>2. [lab EXCEPT !.routers[r].IKEPeers = @ \cup {Public[peer]}]
               = [lab EXCEPT !.routers = [lab.routers EXCEPT ![r].IKEPeers = @ \cup {Public[peer]}]]
        OBVIOUS
      <4>3. [lab.routers EXCEPT ![r].IKEPeers = @ \cup {Public[peer]}] = lab.routers
        BY <3>2, <4>1, LabTyped
      <4>4. [lab EXCEPT !.routers = lab.routers] = lab
        BY <4>1 DEF Labs
      <4> QED BY <1>1, <4>2, <4>3, <4>4
    <3> QED BY <1>6, <3>1, <3>2
  <2> QED BY <1>1, <1>2, <1>3, <1>4, <2>1, LabStays
<1> QED BY <1>5, <1>6

LEMMA InstallKept ==
    ASSUME LabInv, NEW g \in negs, NEW r \in RouterIds, InstallVPNRoutes(r),
           \/ negs' = negs \ {g}
           \/ negs' = (negs \ {g}) \cup {[g EXCEPT !.at = "dstRoutes"]},
           UNCHANGED late, NegOnly
    PROVE  LabInv'
<1>1. /\ UNCHANGED <<offers, commands, crashes, changed, loaded, file, saving, late>>
      /\ lab' = IF r \in DOMAIN lab.routers
                THEN [lab EXCEPT !.routers[r].routes = @ \cup VPNRoutes(lab.routers[r])] ELSE lab
  BY DEF InstallVPNRoutes, NegOnly, NoFile, IsRouter
<1>2. negs' \subseteq Negotiations /\ offers' \subseteq Offers
  <2>1. g \in Negotiations /\ negs \subseteq Negotiations /\ offers \subseteq Offers
    BY DEF LabInv, LabTypes
  <2>2. [g EXCEPT !.at = "dstRoutes"] \in Negotiations
    BY <2>1 DEF Negotiations
  <2> QED BY <1>1, <2>1, <2>2
<1>3. commands' \in 0..MaxCommands /\ commands' = commands
  BY <1>1 DEF LabInv, LabTypes
<1>4. CASE r \in DOMAIN lab.routers
  <2> DEFINE y == lab.routers[r]
             x == [y EXCEPT !.routes = @ \cup VPNRoutes(y)]
  <2>1. lab' = [lab EXCEPT !.routers = [lab.routers EXCEPT ![r] = x]]
    BY <1>1, <1>4
  <2>2. y \in LabRouters
    BY <1>4, RouterAt
  <2>3. \A q \in VPNRoutes(y) : q \in Routes /\ q.hop \in y.IKEPeers
    <3>1. y.IKEPeers \subseteq {Public[o] : o \in RouterIds}
      BY <2>2 DEF LabRouters
    <3>2. \A q \in VPNRoutes(y) : \E a \in y.IKEPeers : q = [hop |-> a, vpn |-> TRUE]
      BY DEF VPNRoutes
    <3>3. \A a \in y.IKEPeers : [hop |-> a, vpn |-> TRUE] \in Routes
      BY <3>1 DEF Routes
    <3> QED BY <3>2, <3>3
  <2>4. /\ x \in LabRouters /\ x.Interfaces = y.Interfaces /\ x.pool = y.pool
        /\ x.IKEPeers = y.IKEPeers /\ x.routes = y.routes \cup VPNRoutes(y)
    BY <2>2, <2>3 DEF LabRouters
  <2>5. PoolApart(x)
    BY <1>4, <2>4, RouterAt DEF PoolApart
  <2>6. \A a \in x.IKEPeers \cup {z.hop : z \in x.routes} : a \in late' \/ \E z \in DOMAIN lab.routers : a = Public[z]
    BY <1>1, <1>4, <2>3, <2>4, RouterAt
  <2>7. \A z \in x.routes : z.vpn => z.hop \in x.IKEPeers \/ loaded
    BY <1>4, <2>3, <2>4, RouterAt
  <2> HIDE DEF x
  <2> QED BY <1>1, <1>2, <1>3, <1>4, <2>1, <2>4, <2>5, <2>6, <2>7, RouterStep
<1>5. CASE r \notin DOMAIN lab.routers
  BY <1>1, <1>2, <1>3, <1>5, LabStays
<1> QED BY <1>4, <1>5

LEMMA NegotiationKept ==
    ASSUME LabInv, NEW g \in negs,
           LookUp(g) \/ ActivateSource(g) \/ ActivateTarget(g) \/ InstallSource(g) \/ InstallTarget(g)
    PROVE  LabInv'
<1>1. g.src \in RouterIds /\ g.dst \in RouterIds /\ g.srcLive \in BOOLEAN /\ g.dstLive \in BOOLEAN
  BY DEF LabInv, LabTypes, Negotiations
<1>2. CASE LookUp(g)
  BY <1>2, LookUpKept
<1>3. CASE ActivateSource(g)
  BY <1>1, <1>3, ActivateKept DEF ActivateSource
<1>4. CASE ActivateTarget(g)
  BY <1>1, <1>4, ActivateKept DEF ActivateTarget
<1>5. CASE InstallSource(g)
  BY <1>1, <1>5, InstallKept DEF InstallSource, GoOn
<1>6. CASE InstallTarget(g)
  BY <1>1, <1>6, InstallKept DEF InstallTarget, End
<1> QED BY <1>2, <1>3, <1>4, <1>5, <1>6

-----------------------------------------------------------------------------
(* DHCP: a lease is of an address that nobody has.                         *)

LEMMA PoolTyped ==
    ASSUME NEW pool \in Pools
    PROVE  /\ pool.net \in Lans /\ pool.Assigned \in Partial(HostIds, Lans \X Nat)
           /\ DOMAIN pool.Assigned \subseteq HostIds /\ pool.Assigned \in [DOMAIN pool.Assigned -> Lans \X Nat]
           /\ pool # NoPool
<1>1. pool.net \in Lans /\ pool.Assigned \in Partial(HostIds, Lans \X Nat)
  BY DEF Pools
<1> QED BY <1>1, PartialMap, AssumedOfConstants

LEMMA LeaseApart ==
    ASSUME NEW pool \in Pools, NEW client \in HostIds, NEW ifaces \in SUBSET IfaceAddresses,
           Distinct(pool), \A c \in DOMAIN pool.Assigned : pool.Assigned[c] \notin ifaces,
           NEW a \in Lease(pool, client, ifaces)
    PROVE  /\ a \in Lans \X Nat /\ Assign(pool, client, a) \in Pools
           /\ Distinct(Assign(pool, client, a))
           /\ \A c \in DOMAIN Assign(pool, client, a).Assigned : Assign(pool, client, a).Assigned[c] \notin ifaces
           /\ \A c \in DOMAIN pool.Assigned :
                 /\ c \in DOMAIN Assign(pool, client, a).Assigned
                 /\ Assign(pool, client, a).Assigned[c] = pool.Assigned[c]
           /\ client \in DOMAIN Assign(pool, client, a).Assigned
           /\ Assign(pool, client, a).Assigned[client] = a
<1> DEFINE old == pool.Assigned
           new == [c \in DOMAIN old \cup {client} |-> IF c = client THEN a ELSE old[c]]
           then == Assign(pool, client, a)
<1>1. DOMAIN old \subseteq HostIds /\ old \in [DOMAIN old -> Lans \X Nat] /\ pool.net \in Lans
  BY PoolTyped
<1>2. /\ a \in Lans \X Nat
      /\ client \in DOMAIN old => a = old[client]
      /\ client \notin DOMAIN old => a \notin ifaces /\ (a[2] = 0 \/ a \notin Range(old))
  <2>1. CASE client \in DOMAIN old
    <3>1. a = old[client]
      BY <2>1 DEF Lease
    <3> QED BY <1>1, <2>1, <3>1
  <2>2. CASE client \notin DOMAIN old
    <3>1. a \in NextPoolIP(pool, ifaces)
      BY <2>2 DEF Lease
    <3>2. \/ a = <<pool.net, 0>>
          \/ \E h \in FreeHosts(pool, ifaces) : a = <<pool.net, h>>
      BY <3>1 DEF NextPoolIP
    <3>3. CASE a = <<pool.net, 0>>
      <4>1. a \notin ifaces
        BY <3>3 DEF IfaceAddresses
      <4> QED BY <1>1, <2>2, <3>3, <4>1
    <3>4. ASSUME NEW h \in FreeHosts(pool, ifaces), a = <<pool.net, h>>
          PROVE  a \in Lans \X Nat /\ a \notin ifaces /\ a \notin Range(old)
      <4>1. h \in Nat
        BY PoolAssumption DEF FreeHosts
      <4> QED BY <1>1, <3>4, <4>1 DEF FreeHosts
    <3> QED BY <2>2, <3>2, <3>3, <3>4
  <2> QED BY <2>1, <2>2
<1>3. /\ DOMAIN new = DOMAIN old \cup {client} /\ new[client] = a
      /\ \A c \in DOMAIN old : new[c] = old[c]
      /\ \A c \in DOMAIN new : c # client => c \in DOMAIN old /\ new[c] = old[c]
      /\ new \in [DOMAIN old \cup {client} -> Lans \X Nat]
  BY <1>1, <1>2
<1>4. new \in Partial(HostIds, Lans \X Nat)
  BY <1>1, <1>3, PartialMap
<1>5. then = [pool EXCEPT !.Assigned = new]
  BY DEF Assign
<1> HIDE DEF new, then
<1>6. then \in Pools /\ then.Assigned = new
  BY <1>4, <1>5 DEF Pools
<1>7. Distinct(then)
  <2> SUFFICES ASSUME NEW c \in DOMAIN new, NEW d \in DOMAIN new, c # d, new[c] = new[d]
               PROVE  new[c][2] = 0
    BY <1>6 DEF Distinct
  <2>1. CASE c \in DOMAIN old /\ d \in DOMAIN old
    BY <1>3, <2>1 DEF Distinct
  <2>2. CASE c \notin DOMAIN old
    <3>1. c = client /\ d \in DOMAIN old /\ new[c] = a /\ a = old[d]
      BY <1>3, <2>2
    <3>2. a \in Range(old)
      BY <3>1 DEF Range
    <3> QED BY <1>2, <2>2, <3>1, <3>2
  <2>3. CASE d \notin DOMAIN old
    <3>1. d = client /\ c \in DOMAIN old /\ new[d] = a /\ a = old[c]
      BY <1>3, <2>3
    <3>2. a \in Range(old)
      BY <3>1 DEF Range
    <3> QED BY <1>2, <2>3, <3>1, <3>2
  <2> QED BY <2>1, <2>2, <2>3
<1>8. \A c \in DOMAIN new : new[c] \notin ifaces
  BY <1>2, <1>3
<1> QED BY <1>2, <1>3, <1>6, <1>7, <1>8 DEF then

LEMMA PoolNetworkKept ==
    ASSUME LabInv, NEW r \in RouterIds, NEW net \in Lans, PoolNetwork(r, net)
    PROVE  LabInv'
<1> DEFINE y == lab.routers[r]
           pool == SetDHCPPoolNetwork(y.pool, net)
           x == [y EXCEPT !.pool = pool]
<1>1. /\ r \in DOMAIN lab.routers /\ Command
      /\ lab' = [lab EXCEPT !.routers[r].pool = SetDHCPPoolNetwork(@, net)]
      /\ UNCHANGED <<negs, offers, changed, loaded, late, file, saving>>
  BY DEF PoolNetwork, IsRouter, NoFile
<1>2. lab' = [lab EXCEPT !.routers = [lab.routers EXCEPT ![r] = x]]
  BY <1>1
<1>3. y \in LabRouters /\ y.pool \in Pools \cup {NoPool}
  BY <1>1, RouterAt DEF LabRouters
<1>4. /\ pool \in Pools
      /\ y.pool # NoPool => pool.Assigned = y.pool.Assigned
      /\ y.pool = NoPool => pool.Assigned = <<>>
  <2>1. <<>> \in Partial(HostIds, Lans \X Nat)
    BY EmptyMap
  <2>2. CASE y.pool = NoPool
    BY <2>1, <2>2 DEF SetDHCPPoolNetwork, AddDHCPPool, Pools
  <2>3. CASE y.pool # NoPool
    BY <1>3, <2>3 DEF SetDHCPPoolNetwork, Pools
  <2> QED BY <2>2, <2>3
<1>5. pool # NoPool
  BY <1>4, PoolTyped
<1> HIDE DEF pool
<1>6. /\ x \in LabRouters /\ x.Interfaces = y.Interfaces /\ x.pool = pool
      /\ x.IKEPeers = y.IKEPeers /\ x.routes = y.routes
  BY <1>3, <1>4 DEF LabRouters
<1>7. PoolApart(x)
  <2>1. DOMAIN <<>> = {}
    OBVIOUS
  <2>2. PoolApart(y)
    BY <1>1, RouterAt
  <2> QED BY <1>4, <1>6, <2>1, <2>2 DEF PoolApart, Distinct
<1>8. \A a \in x.IKEPeers \cup {z.hop : z \in x.routes} : a \in late' \/ \E z \in DOMAIN lab.routers : a = Public[z]
  BY <1>1, <1>6, RouterAt
<1>9. \A z \in x.routes : z.vpn => z.hop \in x.IKEPeers \/ loaded
  BY <1>1, <1>6, RouterAt
<1>10. negs' \subseteq Negotiations /\ offers' \subseteq Offers
  BY <1>1 DEF LabInv, LabTypes
<1>11. lab.routers[r].pool # NoPool =>
          /\ x.pool # NoPool
          /\ \A h \in DOMAIN lab.routers[r].pool.Assigned :
                h \in DOMAIN x.pool.Assigned /\ x.pool.Assigned[h] = lab.routers[r].pool.Assigned[h]
  BY <1>4, <1>5, <1>6
<1> HIDE DEF x
<1> QED BY <1>1, <1>2, <1>6, <1>7, <1>8, <1>9, <1>10, <1>11, CommandTyped, RouterStep

LEMMA RequestKept ==
    ASSUME LabInv, NEW h \in HostIds, HOST_DHCP(h)
    PROVE  LabInv'
<1>0. PICK r \in Servers(h) : \E p \in InPorts(r) :
         /\ Serves(r, p)
         /\ \E a \in Lease(lab.routers[r].pool, h, Range(lab.routers[r].Interfaces)) :
               /\ lab' = [lab EXCEPT !.routers[r].pool = Assign(@, h, a)]
               /\ offers' = offers \cup {[host |-> h, ip |-> a, from |-> r, live |-> TRUE]}
  BY DEF HOST_DHCP
<1>1. PICK p \in InPorts(r) :
         /\ Serves(r, p)
         /\ \E a \in Lease(lab.routers[r].pool, h, Range(lab.routers[r].Interfaces)) :
               /\ lab' = [lab EXCEPT !.routers[r].pool = Assign(@, h, a)]
               /\ offers' = offers \cup {[host |-> h, ip |-> a, from |-> r, live |-> TRUE]}
  BY <1>0
<1>2. PICK a \in Lease(lab.routers[r].pool, h, Range(lab.routers[r].Interfaces)) :
         /\ lab' = [lab EXCEPT !.routers[r].pool = Assign(@, h, a)]
         /\ offers' = offers \cup {[host |-> h, ip |-> a, from |-> r, live |-> TRUE]}
  BY <1>1
<1>3. Command /\ UNCHANGED <<negs, changed, loaded, late, file, saving>>
  BY DEF HOST_DHCP, NoFile
<1>4. r \in DOMAIN lab.routers
  BY <1>1 DEF Servers, IsRouter
<1> DEFINE y == lab.routers[r]
           pool == Assign(y.pool, h, a)
           x == [y EXCEPT !.pool = pool]
<1>5. lab' = [lab EXCEPT !.routers = [lab.routers EXCEPT ![r] = x]]
  BY <1>2
<1>6. y \in LabRouters /\ r \in RouterIds
  BY <1>4, RouterAt
<1>7. y.pool \in Pools /\ Range(y.Interfaces) \in SUBSET IfaceAddresses
  <2>1. y.pool \in Pools
    BY <1>1, <1>6 DEF LabRouters, Serves
  <2>2. y.Interfaces \in [DOMAIN y.Interfaces -> IfaceAddresses]
    BY <1>6, PartialMap DEF LabRouters, IfaceMaps
  <2> QED BY <2>1, <2>2 DEF Range
<1>8. Distinct(y.pool) /\ \A c \in DOMAIN y.pool.Assigned : y.pool.Assigned[c] \notin Range(y.Interfaces)
  BY <1>4, <1>7, PoolTyped, RouterAt DEF PoolApart
<1>9. /\ a \in Lans \X Nat /\ pool \in Pools /\ Distinct(pool)
      /\ \A c \in DOMAIN pool.Assigned : pool.Assigned[c] \notin Range(y.Interfaces)
      /\ \A c \in DOMAIN y.pool.Assigned : c \in DOMAIN pool.Assigned /\ pool.Assigned[c] = y.pool.Assigned[c]
      /\ h \in DOMAIN pool.Assigned /\ pool.Assigned[h] = a
  BY <1>2, <1>7, <1>8, LeaseApart
<1>10. pool # NoPool
  BY <1>9, PoolTyped
<1> HIDE DEF pool
<1>11. /\ x \in LabRouters /\ x.Interfaces = y.Interfaces /\ x.pool = pool
       /\ x.IKEPeers = y.IKEPeers /\ x.routes = y.routes
  BY <1>6, <1>9 DEF LabRouters
<1>12. PoolApart(x)
  BY <1>9, <1>11 DEF PoolApart
<1>13. \A q \in x.IKEPeers \cup {z.hop : z \in x.routes} : q \in late' \/ \E z \in DOMAIN lab.routers : q = Public[z]
  BY <1>3, <1>4, <1>11, RouterAt
<1>14. \A z \in x.routes : z.vpn => z.hop \in x.IKEPeers \/ loaded
  BY <1>4, <1>11, RouterAt
<1> DEFINE o == [host |-> h, ip |-> a, from |-> r, live |-> TRUE]
<1>15. o \in Offers
  <2>1. a \in HostAddresses
    BY <1>9, AssumedOfConstants DEF HostAddresses
  <2> QED BY <1>6, <2>1 DEF Offers
<1>16. negs' \subseteq Negotiations /\ offers' \subseteq Offers
  BY <1>2, <1>3, <1>15 DEF LabInv, LabTypes
<1>17. \A z \in offers' \ offers :
          z.from = r /\ x.pool # NoPool /\ z.host \in DOMAIN x.pool.Assigned /\ x.pool.Assigned[z.host] = z.ip
  BY <1>2, <1>9, <1>10, <1>11
<1>18. \A c \in DOMAIN y.pool.Assigned :
          c \in DOMAIN x.pool.Assigned /\ x.pool.Assigned[c] = y.pool.Assigned[c]
  BY <1>9, <1>11
<1> HIDE DEF x, o
<1> QED BY <1>3, <1>4, <1>5, <1>10, <1>11, <1>12, <1>13, <1>14, <1>16, <1>17, <1>18, CommandTyped, RouterStep

(* What Forget, Stranded, Orphaned and ForgetLeases keep.                  *)
LEMMA ForgetTyped ==
    ASSUME NEW hosts \in Partial(HostIds, LabHosts), NEW rs
    PROVE  /\ ForgetLeases(hosts, rs) \in Partial(HostIds, LabHosts)
           /\ DOMAIN ForgetLeases(hosts, rs) = DOMAIN hosts
           /\ \A h \in DOMAIN hosts : ForgetLeases(hosts, rs)[h].from # Absent =>
                 /\ ForgetLeases(hosts, rs)[h].from = hosts[h].from /\ hosts[h].from \notin rs
                 /\ ForgetLeases(hosts, rs)[h].ip = hosts[h].ip
<1> DEFINE new == ForgetLeases(hosts, rs)
<1>1. DOMAIN hosts \subseteq HostIds /\ hosts \in [DOMAIN hosts -> LabHosts]
  BY PartialMap
<1>2. ASSUME NEW h \in DOMAIN hosts
      PROVE  /\ new[h] \in LabHosts
             /\ new[h].from # Absent =>
                   new[h].from = hosts[h].from /\ hosts[h].from \notin rs /\ new[h].ip = hosts[h].ip
  <2>1. hosts[h] \in LabHosts
    BY <1>1
  <2>2. new[h] = IF hosts[h].from \in rs THEN [hosts[h] EXCEPT !.from = Absent] ELSE hosts[h]
    BY DEF ForgetLeases
  <2>3. CASE hosts[h].from \in rs
    BY <2>1, <2>2, <2>3 DEF LabHosts
  <2>4. CASE hosts[h].from \notin rs
    BY <2>1, <2>2, <2>4
  <2> QED BY <2>3, <2>4
<1>3. DOMAIN new = DOMAIN hosts /\ new = [h \in DOMAIN hosts |-> new[h]]
  BY DEF ForgetLeases
<1>4. new \in [DOMAIN new -> LabHosts]
  BY <1>2, <1>3
<1>5. new \in Partial(HostIds, LabHosts)
  BY <1>1, <1>3, <1>4, PartialMap
<1> QED BY <1>2, <1>3, <1>5

LEMMA ForgetOffers ==
    ASSUME NEW os \in SUBSET Offers, NEW rs
    PROVE  /\ Forget(os, rs) \subseteq Offers
           /\ \A o \in Forget(os, rs) : o.from # Absent => o.from \notin rs /\ o \in os
<1> SUFFICES ASSUME NEW o \in Forget(os, rs)
             PROVE  o \in Offers /\ (o.from # Absent => o.from \notin rs /\ o \in os)
  OBVIOUS
<1>1. PICK p \in os : o = [p EXCEPT !.from = IF p.from \in rs THEN Absent ELSE p.from]
  BY DEF Forget
<1>2. p \in Offers
  OBVIOUS
<1>3. CASE p.from \in rs
  BY <1>1, <1>2, <1>3 DEF Offers
<1>4. CASE p.from \notin rs
  <2>1. o = p
    BY <1>1, <1>2, <1>4 DEF Offers
  <2> QED BY <1>2, <1>4, <2>1
<1> QED BY <1>3, <1>4

LEMMA StrandOffers ==
    ASSUME NEW os \in SUBSET Offers, NEW ds
    PROVE  /\ Stranded(os, ds) \subseteq Offers
           /\ \A o \in Stranded(os, ds) : \E p \in os : o.host = p.host /\ o.ip = p.ip /\ o.from = p.from
<1> SUFFICES ASSUME NEW o \in Stranded(os, ds)
             PROVE  o \in Offers /\ \E p \in os : o.host = p.host /\ o.ip = p.ip /\ o.from = p.from
  OBVIOUS
<1>1. PICK p \in os : o = [p EXCEPT !.live = p.live /\ p.host \notin ds]
  BY DEF Stranded
<1>2. p \in Offers /\ (p.live /\ p.host \notin ds) \in BOOLEAN
  OBVIOUS
<1>3. o \in Offers /\ o.host = p.host /\ o.ip = p.ip /\ o.from = p.from
  BY <1>1, <1>2 DEF Offers
<1> QED BY <1>3

LEMMA OrphansTyped ==
    ASSUME NEW gs \in SUBSET Negotiations, NEW ds
    PROVE  Orphaned(gs, ds) \subseteq Negotiations
<1> SUFFICES ASSUME NEW g \in gs
             PROVE  [g EXCEPT !.srcLive = g.srcLive /\ g.src \notin ds, !.dstLive = g.dstLive /\ g.dst \notin ds]
                        \in Negotiations
  BY DEF Orphaned
<1>1. /\ g \in Negotiations
      /\ (g.srcLive /\ g.src \notin ds) \in BOOLEAN /\ (g.dstLive /\ g.dst \notin ds) \in BOOLEAN
  OBVIOUS
<1> QED BY <1>1 DEF Negotiations

LEMMA SpawnTyped ==
    ASSUME NEW l \in Labs, NEW links \in Seq(Cables)
    PROVE  Spawned(l, links) \subseteq Negotiations
<1>1. DOMAIN l.routers \subseteq RouterIds
  BY LabTyped
<1>2. ASSUME NEW g \in Spawned(l, links) PROVE g \in Negotiations
  <2>1. PICK c \in Range(links) :
           /\ IsRouter(l, c.src) /\ IsRouter(l, c.dst)
           /\ g = [src |-> c.src, dst |-> c.dst, at |-> "look", srcLive |-> TRUE, dstLive |-> TRUE]
    BY DEF Spawned
  <2>2. c.src \in RouterIds /\ c.dst \in RouterIds
    BY <1>1, <2>1 DEF IsRouter
  <2> QED BY <2>1, <2>2 DEF Negotiations
<1> QED BY <1>2

-----------------------------------------------------------------------------
(* Leases of pools that a step leaves alone stay held.                     *)
LEMMA HeldAfter ==
    ASSUME LabInv, NEW S,
           \A r \in DOMAIN lab.routers \ S :
              r \in DOMAIN lab'.routers /\ lab'.routers[r].pool = lab.routers[r].pool,
           \A h \in DOMAIN lab'.hosts : lab'.hosts[h].from # Absent =>
              /\ h \in DOMAIN lab.hosts /\ lab'.hosts[h].from = lab.hosts[h].from
              /\ lab.hosts[h].from \notin S /\ lab'.hosts[h].ip = lab.hosts[h].ip,
           \A o \in offers' : o.from # Absent =>
              /\ o.from \notin S
              /\ \E p \in offers : o.host = p.host /\ o.ip = p.ip /\ o.from = p.from
    PROVE  LeasesHeld'
<1>1. ASSUME NEW r, NEW h, NEW a, Holds(lab.routers, r, h, a), r \notin S
      PROVE  Holds(lab'.routers, r, h, a)
  BY <1>1 DEF Holds
<1>2. ASSUME NEW h \in DOMAIN lab'.hosts, lab'.hosts[h].from # Absent
      PROVE  Holds(lab'.routers, lab'.hosts[h].from, h, lab'.hosts[h].ip)
  <2>1. /\ h \in DOMAIN lab.hosts /\ lab'.hosts[h].from = lab.hosts[h].from
        /\ lab.hosts[h].from \notin S /\ lab'.hosts[h].ip = lab.hosts[h].ip
    BY <1>2
  <2>2. Holds(lab.routers, lab.hosts[h].from, h, lab.hosts[h].ip)
    BY <1>2, <2>1 DEF LabInv, LeasesHeld
  <2> QED BY <1>1, <2>1, <2>2
<1>3. ASSUME NEW o \in offers', o.from # Absent
      PROVE  Holds(lab'.routers, o.from, o.host, o.ip)
  <2>1. o.from \notin S
    BY <1>3
  <2>2. PICK p \in offers : o.host = p.host /\ o.ip = p.ip /\ o.from = p.from
    BY <1>3
  <2>3. Holds(lab.routers, p.from, p.host, p.ip)
    BY <1>3, <2>2 DEF LabInv, LeasesHeld
  <2> QED BY <1>1, <2>1, <2>2, <2>3
<1> QED BY <1>2, <1>3 DEF LeasesHeld

(* Routers that a step does not remove keep what they lead to.             *)
LEMMA LeadsAfter ==
    ASSUME LabInv, late \subseteq late', loaded' = loaded,
           DOMAIN lab.routers \subseteq DOMAIN lab'.routers,
           \A r \in DOMAIN lab'.routers :
              \/ /\ r \in DOMAIN lab.routers
                 /\ lab'.routers[r].IKEPeers = lab.routers[r].IKEPeers
                 /\ lab'.routers[r].routes = lab.routers[r].routes
              \/ lab'.routers[r].IKEPeers = {} /\ lab'.routers[r].routes = {}
    PROVE  TunnelsLead' /\ RoutesLead(lab.routers)' /\ RoutesHaveTunnels'
<1>1. ASSUME NEW a, a \in late \/ \E x \in DOMAIN lab.routers : a = Public[x]
      PROVE  a \in late' \/ \E x \in DOMAIN lab'.routers : a = Public[x]
  BY <1>1
<1>2. TunnelsLead'
  <2> SUFFICES ASSUME NEW r \in DOMAIN lab'.routers, NEW a \in lab'.routers[r].IKEPeers
               PROVE  a \in late' \/ \E x \in DOMAIN lab'.routers : a = Public[x]
    BY DEF TunnelsLead, Leads
  <2>1. r \in DOMAIN lab.routers /\ a \in lab.routers[r].IKEPeers
    OBVIOUS
  <2>2. a \in late \/ \E x \in DOMAIN lab.routers : a = Public[x]
    BY <2>1 DEF LabInv, TunnelsLead, Leads
  <2> QED BY <1>1, <2>2
<1>3. RoutesLead(lab.routers)'
  <2> SUFFICES ASSUME NEW r \in DOMAIN lab'.routers, NEW q \in lab'.routers[r].routes
               PROVE  q.hop \in late' \/ \E x \in DOMAIN lab'.routers : q.hop = Public[x]
    BY DEF RoutesLead, Leads
  <2>1. r \in DOMAIN lab.routers /\ q \in lab.routers[r].routes
    OBVIOUS
  <2>2. q.hop \in late \/ \E x \in DOMAIN lab.routers : q.hop = Public[x]
    BY <2>1 DEF LabInv, RoutesLead, Leads
  <2> QED BY <1>1, <2>2
<1>4. RoutesHaveTunnels'
  <2> SUFFICES ASSUME NEW r \in DOMAIN lab'.routers, NEW q \in lab'.routers[r].routes, q.vpn
               PROVE  q.hop \in lab'.routers[r].IKEPeers \/ loaded'
    BY DEF RoutesHaveTunnels
  <2>1. /\ r \in DOMAIN lab.routers /\ q \in lab.routers[r].routes
        /\ lab'.routers[r].IKEPeers = lab.routers[r].IKEPeers
    OBVIOUS
  <2> QED BY <2>1 DEF LabInv, RoutesHaveTunnels
<1> QED BY <1>2, <1>3, <1>4

-----------------------------------------------------------------------------
(* Commands that build a lab.                                              *)

LEMMA PoolConfigured ==
    ASSUME LabInv, NEW r \in RouterIds, NEW net \in Lans, CONFIG_DHCP_POOL(r, net)
    PROVE  LabInv'
<1> DEFINE y == lab.routers[r]
           x == [y EXCEPT !.pool = AddDHCPPool(net)]
           hs == ForgetLeases(lab.hosts, {r})
<1>1. /\ r \in DOMAIN lab.routers /\ Command
      /\ lab' = [lab EXCEPT !.routers[r].pool = AddDHCPPool(net), !.hosts = hs]
      /\ offers' = Forget(offers, {r})
      /\ UNCHANGED <<negs, changed, loaded, late, file, saving>>
  BY DEF CONFIG_DHCP_POOL, IsRouter, NoFile
<1>2. lab \in Labs /\ negs \subseteq Negotiations /\ offers \in SUBSET Offers
  BY DEF LabInv, LabTypes
<1>3. hs \in Partial(HostIds, LabHosts)
  BY <1>2, LabParts, ForgetTyped
<1>4. lab' = [lab EXCEPT !.routers = [lab.routers EXCEPT ![r] = x], !.hosts = hs]
  BY <1>1
<1>5. lab' = [routers |-> [lab.routers EXCEPT ![r] = x], hosts |-> hs,
              switches |-> lab.switches, links |-> lab.links]
  <2> HIDE DEF x, hs
  <2>1. PICK rs : rs = [lab.routers EXCEPT ![r] = x]
    OBVIOUS
  <2>2. lab' = [lab EXCEPT !.routers = rs, !.hosts = hs]
    BY <1>4, <2>1
  <2>3. lab' = [routers |-> rs, hosts |-> hs, switches |-> lab.switches, links |-> lab.links]
    BY <1>2, <2>2, LabParts
  <2> QED BY <2>1, <2>3
<1>6. AddDHCPPool(net) \in Pools /\ AddDHCPPool(net).Assigned = <<>>
  BY EmptyMap DEF AddDHCPPool, Pools
<1>7. y \in LabRouters
  BY <1>1, RouterAt
<1>8. /\ x \in LabRouters /\ x.Interfaces = y.Interfaces /\ x.pool = AddDHCPPool(net)
      /\ x.routes = y.routes /\ x.IKEPeers = y.IKEPeers
  BY <1>6, <1>7 DEF LabRouters
<1>9. PoolApart(x)
  <2>1. DOMAIN <<>> = {}
    OBVIOUS
  <2> QED BY <1>6, <1>8, <2>1 DEF PoolApart, Distinct
<1> HIDE DEF x
<1>10. commands' = commands + 1 /\ commands' \in 0..MaxCommands /\ crashes' = crashes
  BY <1>1, CommandTyped
<1>11. /\ lab'.routers \in Partial(RouterIds, LabRouters)
       /\ DOMAIN lab'.routers = DOMAIN lab.routers /\ lab'.routers[r] = x
       /\ \A o \in DOMAIN lab.routers : o # r => lab'.routers[o] = lab.routers[o]
       /\ Addressed(lab.routers)' /\ LeasesDistinct' /\ LinksFresh'
  <2>1. lab'.routers = [lab.routers EXCEPT ![r] = x] /\ lab'.links = lab.links
    BY <1>5
  <2>2. changed' = changed /\ commands' \in {commands, commands + 1}
    BY <1>1, <1>10
  <2> QED BY <1>1, <1>8, <1>9, <2>1, <2>2, RouterChanged
<1>12. LabTypes'
  <2>1. lab' \in Labs
    BY <1>2, <1>3, <1>5, <1>11, LabParts, LabMade
  <2>2. offers' \subseteq Offers
    BY <1>1, <1>2, ForgetOffers
  <2> QED BY <1>1, <1>10, <2>1, <2>2 DEF LabInv, LabTypes
<1>13. LeasesHeld'
  <2>1. \A o \in DOMAIN lab.routers \ {r} :
           o \in DOMAIN lab'.routers /\ lab'.routers[o].pool = lab.routers[o].pool
    BY <1>11
  <2>2. \A h \in DOMAIN lab'.hosts : lab'.hosts[h].from # Absent =>
           /\ h \in DOMAIN lab.hosts /\ lab'.hosts[h].from = lab.hosts[h].from
           /\ lab.hosts[h].from \notin {r} /\ lab'.hosts[h].ip = lab.hosts[h].ip
    <3>1. lab'.hosts = hs /\ lab.hosts \in Partial(HostIds, LabHosts)
      BY <1>2, <1>5, LabParts
    <3> QED BY <3>1, ForgetTyped
  <2>3. \A o \in offers' : o.from # Absent =>
           /\ o.from \notin {r}
           /\ \E p \in offers : o.host = p.host /\ o.ip = p.ip /\ o.from = p.from
    BY <1>1, <1>2, ForgetOffers
  <2> QED BY <2>1, <2>2, <2>3, HeldAfter
<1>14. TunnelsLead' /\ RoutesLead(lab.routers)' /\ RoutesHaveTunnels'
  BY <1>1, <1>8, <1>11, LeadsAfter
<1>15. SavedSound' /\ FileUsable'
  BY <1>1, <1>10, FilesKept
<1> QED BY <1>11, <1>12, <1>13, <1>14, <1>15 DEF LabInv

(* A lab of no more links than before is as fresh as it was.               *)
LEMMA FreshAfter ==
    ASSUME LabInv, commands' \in {commands, commands + 1},
           changed' \in BOOLEAN, changed => changed',
           Len(lab'.links) \in Nat, Len(lab'.links) <= Len(lab.links) + (commands' - commands),
           ~changed' => LinkNumbered(lab'.routers, lab'.links)
    PROVE  LinksFresh'
<1> SUFFICES ASSUME ~changed'
             PROVE  \E f \in Files : Len(lab'.links) <= Saved(f) + commands'
  BY DEF LinksFresh
<1>1. lab \in Labs /\ LinksFresh /\ commands \in Nat /\ ~changed
  BY DEF LabInv, LabTypes
<1>2. PICK f \in Files : Len(lab.links) <= Saved(f) + commands
  BY <1>1 DEF LinksFresh
<1>3. Saved(f) \in Nat /\ Len(lab.links) \in Nat
  <2>1. f = Absent \/ f.links \in Seq(Cables)
    BY LabAssumption DEF CompleteFile, IsSnapshot
  <2>2. lab.links \in Seq(Cables)
    BY <1>1, LabTyped
  <2> QED BY <2>1, <2>2 DEF Saved
<1> QED BY <1>1, <1>2, <1>3

LEMMA RouterAdded ==
    ASSUME LabInv, NEW r \in RouterIds, ADD_ROUTER(r)
    PROVE  LabInv'
<1> DEFINE x == NewRouter(Iface0[r])
           rs == Put(lab.routers, r, x)
           hs == ForgetLeases(lab.hosts, {r})
<1>1. /\ Command
      /\ lab' = [lab EXCEPT !.routers = rs, !.hosts = hs]
      /\ negs' = Orphaned(negs, {r}) /\ offers' = Forget(offers, {r})
      /\ changed' = (changed \/ r \in DOMAIN lab.routers)
      /\ UNCHANGED <<loaded, late, file, saving>>
  BY DEF ADD_ROUTER, IsRouter, NoFile
<1>2. /\ lab \in Labs /\ negs \in SUBSET Negotiations /\ offers \in SUBSET Offers
      /\ changed \in BOOLEAN /\ changed' \in BOOLEAN
  BY <1>1 DEF LabInv, LabTypes
<1>3. /\ lab.hosts \in Partial(HostIds, LabHosts) /\ hs \in Partial(HostIds, LabHosts)
      /\ lab.routers \in Partial(RouterIds, LabRouters) /\ lab.links \in Seq(Cables)
      /\ lab.switches \in SUBSET SwitchIds
  BY <1>2, LabParts, ForgetTyped
<1>4. lab' = [routers |-> rs, hosts |-> hs, switches |-> lab.switches, links |-> lab.links]
  BY <1>1, <1>2, LabParts
<1>5. lab'.routers = rs /\ lab'.hosts = hs /\ lab'.links = lab.links
  BY <1>4
<1>6. x \in LabRouters /\ rs \in Partial(RouterIds, LabRouters)
  <2>1. x \in LabRouters
    BY InterfacesGiven, NewRouterTyped
  <2> QED BY <1>3, <2>1, PutMap
<1>7. /\ x.Interfaces = Iface0[r] /\ x.pool = NoPool
      /\ x.IKEPeers = {} /\ x.routes = {}
  BY DEF NewRouter
<1>8. /\ DOMAIN rs = DOMAIN lab.routers \cup {r} /\ rs[r] = x
      /\ \A o \in DOMAIN lab.routers : o # r => rs[o] = lab.routers[o]
  BY DEF Put
<1> HIDE DEF x, rs, hs
<1>9. commands' = commands + 1 /\ commands' \in 0..MaxCommands /\ commands \in Nat /\ crashes' = crashes
  BY <1>1, CommandTyped
<1>10. LabTypes'
  <2>1. lab' \in Labs
    BY <1>3, <1>4, <1>6, LabMade
  <2>2. offers' \subseteq Offers /\ negs' \subseteq Negotiations
    BY <1>1, <1>2, ForgetOffers, OrphansTyped
  <2> QED BY <1>1, <1>2, <1>9, <2>1, <2>2 DEF LabInv, LabTypes
<1>11. Addressed(lab.routers)'
  BY <1>5, <1>7, <1>8 DEF LabInv, Addressed
<1>12. LeasesDistinct'
  BY <1>5, <1>7, <1>8 DEF LabInv, LeasesDistinct
<1>13. LeasesHeld'
  <2>1. \A o \in DOMAIN lab.routers \ {r} :
           o \in DOMAIN lab'.routers /\ lab'.routers[o].pool = lab.routers[o].pool
    BY <1>5, <1>8
  <2>2. \A h \in DOMAIN lab'.hosts : lab'.hosts[h].from # Absent =>
           /\ h \in DOMAIN lab.hosts /\ lab'.hosts[h].from = lab.hosts[h].from
           /\ lab.hosts[h].from \notin {r} /\ lab'.hosts[h].ip = lab.hosts[h].ip
    BY <1>3, <1>5, ForgetTyped DEF hs
  <2>3. \A o \in offers' : o.from # Absent =>
           /\ o.from \notin {r}
           /\ \E p \in offers : o.host = p.host /\ o.ip = p.ip /\ o.from = p.from
    BY <1>1, <1>2, ForgetOffers
  <2> QED BY <2>1, <2>2, <2>3, HeldAfter
<1>14. TunnelsLead' /\ RoutesLead(lab.routers)' /\ RoutesHaveTunnels'
  <2>1. DOMAIN lab.routers \subseteq DOMAIN lab'.routers
    BY <1>5, <1>8
  <2>2. \A o \in DOMAIN lab'.routers :
           \/ /\ o \in DOMAIN lab.routers
              /\ lab'.routers[o].IKEPeers = lab.routers[o].IKEPeers
              /\ lab'.routers[o].routes = lab.routers[o].routes
           \/ lab'.routers[o].IKEPeers = {} /\ lab'.routers[o].routes = {}
    BY <1>5, <1>7, <1>8
  <2> QED BY <1>1, <2>1, <2>2, LeadsAfter
<1>15. LinksFresh'
  <2>1. Len(lab'.links) \in Nat /\ Len(lab'.links) <= Len(lab.links) + (commands' - commands)
    BY <1>3, <1>5, <1>9
  <2>2. ASSUME ~changed' PROVE LinkNumbered(lab'.routers, lab'.links)
    <3>1. ~changed
      BY <1>1, <2>2
    <3>2. LinkNumbered(lab.routers, lab.links)
      BY <3>1 DEF LabInv, LinksFresh
    <3> QED BY <1>5, <1>7, <1>8, <3>2 DEF LinkNumbered
  <2>3. changed => changed'
    BY <1>1
  <2> QED BY <1>2, <1>9, <2>1, <2>2, <2>3, FreshAfter
<1>16. SavedSound' /\ FileUsable'
  BY <1>1, <1>9, FilesKept
<1> QED BY <1>10, <1>11, <1>12, <1>13, <1>14, <1>15, <1>16 DEF LabInv

(* Steps that change no router and no link.                                *)
LEMMA RoutersStay ==
    ASSUME LabInv, lab' \in Labs, lab'.routers = lab.routers, lab'.links = lab.links,
           UNCHANGED <<file, saving, crashes, changed, loaded, late, negs>>,
           offers' \subseteq Offers, commands' \in {commands, commands + 1}, commands' \in 0..MaxCommands,
           LeasesHeld'
    PROVE  LabInv'
<1>1. LabTypes'
  BY DEF LabInv, LabTypes
<1>2. Addressed(lab.routers)' /\ LeasesDistinct' /\ RoutesHaveTunnels'
  BY DEF LabInv, Addressed, LeasesDistinct, RoutesHaveTunnels
<1>3. TunnelsLead' /\ RoutesLead(lab.routers)'
  BY DEF LabInv, TunnelsLead, RoutesLead, Leads
<1>4. LinksFresh'
  <2>1. commands \in Nat /\ lab.links \in Seq(Cables) /\ changed \in BOOLEAN
    BY LabTyped DEF LabInv, LabTypes
  <2>2. ~changed' => LinkNumbered(lab'.routers, lab'.links)
    BY DEF LabInv, LinksFresh
  <2>3. Len(lab'.links) \in Nat /\ Len(lab'.links) <= Len(lab.links) + (commands' - commands)
    BY <2>1
  <2> QED BY <2>1, <2>2, <2>3, FreshAfter
<1>5. SavedSound' /\ FileUsable'
  BY FilesKept
<1> QED BY <1>1, <1>2, <1>3, <1>4, <1>5 DEF LabInv

LEMMA SwitchAdded ==
    ASSUME LabInv, NEW s \in SwitchIds, ADD_SWITCH(s)
    PROVE  LabInv'
<1>1. /\ Command /\ lab' = [lab EXCEPT !.switches = lab.switches \cup {s}]
      /\ UNCHANGED <<negs, offers, changed, loaded, late, file, saving>>
  BY DEF ADD_SWITCH, NoFile
<1>2. lab \in Labs /\ offers \in SUBSET Offers
  BY DEF LabInv, LabTypes
<1>3. lab' = [routers |-> lab.routers, hosts |-> lab.hosts, switches |-> lab.switches \cup {s}, links |-> lab.links]
  BY <1>1, <1>2, LabParts
<1>4. lab' \in Labs /\ lab'.routers = lab.routers /\ lab'.links = lab.links /\ lab'.hosts = lab.hosts
  BY <1>2, <1>3, LabParts, LabMade
<1>5. LeasesHeld'
  BY <1>1, <1>4 DEF LabInv, LeasesHeld, Holds
<1> QED BY <1>1, <1>2, <1>4, <1>5, CommandTyped, RoutersStay

LEMMA HostAdded ==
    ASSUME LabInv, NEW h \in HostIds, ADD_HOST(h)
    PROVE  LabInv'
<1> DEFINE x == NewHost(Absent, Absent)
           hs == Put(lab.hosts, h, x)
<1>1. /\ Command /\ lab' = [lab EXCEPT !.hosts = hs]
      /\ offers' = Stranded(offers, {h})
      /\ UNCHANGED <<negs, changed, loaded, late, file, saving>>
  BY DEF ADD_HOST, NoFile
<1>2. lab \in Labs /\ offers \in SUBSET Offers
  BY DEF LabInv, LabTypes
<1>3. x \in LabHosts /\ x.from = Absent
  BY DEF NewHost, LabHosts
<1>4. hs \in Partial(HostIds, LabHosts)
  BY <1>2, <1>3, LabParts, PutMap
<1>5. DOMAIN hs = DOMAIN lab.hosts \cup {h} /\ hs[h] = x /\ \A k \in DOMAIN lab.hosts : k # h => hs[k] = lab.hosts[k]
  BY DEF Put
<1> HIDE DEF x, hs
<1>6. lab' = [routers |-> lab.routers, hosts |-> hs, switches |-> lab.switches, links |-> lab.links]
  BY <1>1, <1>2, LabParts
<1>7. lab' \in Labs /\ lab'.routers = lab.routers /\ lab'.links = lab.links /\ lab'.hosts = hs
  BY <1>2, <1>4, <1>6, LabParts, LabMade
<1>8. offers' \subseteq Offers
  BY <1>1, <1>2, StrandOffers
<1>9. LeasesHeld'
  <2>1. \A o \in DOMAIN lab.routers \ {Absent} :
           o \in DOMAIN lab'.routers /\ lab'.routers[o].pool = lab.routers[o].pool
    BY <1>7
  <2>2. \A k \in DOMAIN lab'.hosts : lab'.hosts[k].from # Absent =>
           /\ k \in DOMAIN lab.hosts /\ lab'.hosts[k].from = lab.hosts[k].from
           /\ lab.hosts[k].from \notin {Absent} /\ lab'.hosts[k].ip = lab.hosts[k].ip
    BY <1>3, <1>5, <1>7
  <2>3. \A o \in offers' : o.from # Absent =>
           /\ o.from \notin {Absent}
           /\ \E p \in offers : o.host = p.host /\ o.ip = p.ip /\ o.from = p.from
    BY <1>1, <1>2, StrandOffers
  <2> QED BY <2>1, <2>2, <2>3, HeldAfter
<1> QED BY <1>1, <1>7, <1>8, <1>9, CommandTyped, RoutersStay

LEMMA HostConfigured ==
    ASSUME LabInv, NEW o \in offers, ConfigureHost(o)
    PROVE  LabInv'
<1> DEFINE y == lab.hosts[o.host]
           x == [y EXCEPT !.ip = o.ip, !.from = o.from]
           hs == [lab.hosts EXCEPT ![o.host] = x]
<1>1. /\ lab' = IF o.live THEN [lab EXCEPT !.hosts = hs] ELSE lab
      /\ offers' = offers \ {o}
      /\ UNCHANGED <<negs, commands, crashes, changed, loaded, late, file, saving>>
  BY DEF ConfigureHost, NoFile
<1>2. lab \in Labs /\ offers \in SUBSET Offers /\ o \in Offers /\ commands \in 0..MaxCommands
      /\ negs \subseteq Negotiations
  BY DEF LabInv, LabTypes
<1>3. DOMAIN lab.hosts \subseteq HostIds /\ lab.hosts \in [DOMAIN lab.hosts -> LabHosts]
  BY <1>2, LabTyped
<1>4. CASE ~o.live
  BY <1>1, <1>2, <1>4, LabStays
<1>5. CASE o.live
  <2>1. lab' = [routers |-> lab.routers, hosts |-> hs, switches |-> lab.switches, links |-> lab.links]
    BY <1>1, <1>2, <1>5, LabParts
  <2>2. hs \in Partial(HostIds, LabHosts)
    <3>1. o.host \in DOMAIN lab.hosts => x \in LabHosts
      BY <1>2, <1>3 DEF LabHosts, Offers
    <3>2. DOMAIN hs = DOMAIN lab.hosts /\ hs \in [DOMAIN hs -> LabHosts]
      BY <1>3, <3>1
    <3> QED BY <1>3, <3>2, PartialMap
  <2>3. lab' \in Labs /\ lab'.routers = lab.routers /\ lab'.links = lab.links /\ lab'.hosts = hs
    BY <1>2, <2>1, <2>2, LabParts, LabMade
  <2>4. ASSUME NEW h \in DOMAIN hs, hs[h].from # Absent
        PROVE  Holds(lab.routers, hs[h].from, h, hs[h].ip)
    <3>1. CASE h = o.host
      <4>1. y \in LabHosts /\ hs[h] = x
        BY <1>3, <2>4, <3>1
      <4>2. hs[h].from = o.from /\ hs[h].ip = o.ip
        BY <4>1 DEF LabHosts
      <4>3. Holds(lab.routers, o.from, o.host, o.ip)
        BY <2>4, <4>2 DEF LabInv, LeasesHeld
      <4> QED BY <3>1, <4>2, <4>3
    <3>2. CASE h # o.host
      <4>1. h \in DOMAIN lab.hosts /\ hs[h] = lab.hosts[h]
        BY <2>4, <3>2
      <4> QED BY <2>4, <4>1 DEF LabInv, LeasesHeld
    <3> QED BY <3>1, <3>2
  <2>5. \A p \in offers' : p.from # Absent => Holds(lab.routers, p.from, p.host, p.ip)
    BY <1>1 DEF LabInv, LeasesHeld
  <2> HIDE DEF hs
  <2>6. LeasesHeld'
    <3>1. \A h \in DOMAIN lab'.hosts :
             lab'.hosts[h].from # Absent => Holds(lab'.routers, lab'.hosts[h].from, h, lab'.hosts[h].ip)
      BY <2>3, <2>4
    <3>2. \A p \in offers' : p.from # Absent => Holds(lab'.routers, p.from, p.host, p.ip)
      BY <2>3, <2>5
    <3> QED BY <3>1, <3>2 DEF LeasesHeld
  <2> QED BY <1>1, <1>2, <2>3, <2>6, RoutersStay
<1> QED BY <1>4, <1>5

LEMMA LinkConnected ==
    ASSUME LabInv, NEW c \in Cables, CONNECT_LINK(c)
    PROVE  LabInv'
<1> DEFINE ks == Append(lab.links, c)
           l == [lab EXCEPT !.links = ks]
           n == Len(lab.links)
<1>1. /\ Command /\ lab' = applyLinkState(l, c)
      /\ negs' = negs \cup Spawned(lab, <<c>>)
      /\ UNCHANGED <<offers, changed, loaded, late, file, saving>>
  BY DEF CONNECT_LINK, AddLink, NoFile
<1>2. /\ lab \in Labs /\ negs \subseteq Negotiations /\ offers \subseteq Offers
      /\ changed \in BOOLEAN
  BY DEF LabInv, LabTypes
<1>3. /\ l = [routers |-> lab.routers, hosts |-> lab.hosts, switches |-> lab.switches, links |-> ks]
      /\ lab.links \in Seq(Cables) /\ ks \in Seq(Cables)
  <2>1. lab.links \in Seq(Cables)
    BY <1>2, LabParts
  <2>2. ks \in Seq(Cables)
    BY <2>1
  <2> HIDE DEF ks
  <2> QED BY <1>2, <2>1, <2>2, LabParts
<1> HIDE DEF l, ks
<1>4. l \in Labs /\ l.routers = lab.routers /\ l.hosts = lab.hosts /\ l.links = ks
  BY <1>2, <1>3, LabParts, LabMade
<1>5. Extends(l, lab', {c})
  BY <1>1, <1>4, LinkApplied
<1>6. Len(ks) = n + 1 /\ n \in Nat /\ ks[n + 1] = c /\ \A i \in 1..n : ks[i] = lab.links[i]
  BY <1>3 DEF ks
<1>7. /\ lab' \in Labs /\ lab'.links = ks
      /\ DOMAIN lab'.hosts = DOMAIN lab.hosts /\ DOMAIN lab'.routers = DOMAIN lab.routers
      /\ \A h \in DOMAIN lab.hosts : lab'.hosts[h].ip = lab.hosts[h].ip /\ lab'.hosts[h].from = lab.hosts[h].from
  BY <1>4, <1>5 DEF Extends
<1>8. ASSUME NEW r \in DOMAIN lab.routers
      PROVE  /\ lab'.routers[r].routes = lab.routers[r].routes /\ lab'.routers[r].pool = lab.routers[r].pool
             /\ lab'.routers[r].IKEPeers = lab.routers[r].IKEPeers
             /\ \A p \in DOMAIN lab.routers[r].Interfaces :
                   /\ p \in DOMAIN lab'.routers[r].Interfaces
                   /\ lab'.routers[r].Interfaces[p] = lab.routers[r].Interfaces[p]
             /\ \A p \in DOMAIN lab'.routers[r].Interfaces \ DOMAIN lab.routers[r].Interfaces :
                   lab'.routers[r].Interfaces[p][1] = n + 1 /\ <<r, p>> \in Ends(c)
  BY <1>4, <1>5, <1>6 DEF Extends
<1>9. commands' = commands + 1 /\ commands' \in 0..MaxCommands /\ commands \in Nat /\ crashes' = crashes
  BY <1>1, CommandTyped
<1>10. LabTypes'
  <2>1. negs' \subseteq Negotiations
    <3>1. <<c>> \in Seq(Cables)
      OBVIOUS
    <3> QED BY <1>1, <1>2, <3>1, SpawnTyped
  <2> QED BY <1>1, <1>7, <1>9, <2>1 DEF LabInv, LabTypes
<1>11. Addressed(lab.routers)'
  BY <1>7, <1>8 DEF LabInv, Addressed
<1>12. LeasesDistinct'
  <2> SUFFICES ASSUME NEW r \in DOMAIN lab'.routers
               PROVE  PoolApart(lab'.routers[r])
    BY DEF LeasesDistinct, PoolApart
  <2>1. r \in DOMAIN lab.routers /\ PoolApart(lab.routers[r]) /\ lab'.routers[r].pool = lab.routers[r].pool
    BY <1>7, <1>8, RouterAt
  <2>2. ASSUME lab.routers[r].pool # NoPool, NEW h \in DOMAIN lab.routers[r].pool.Assigned,
               NEW p \in DOMAIN lab'.routers[r].Interfaces
        PROVE  lab.routers[r].pool.Assigned[h] # lab'.routers[r].Interfaces[p]
    <3>1. CASE p \in DOMAIN lab.routers[r].Interfaces
      <4>1. lab'.routers[r].Interfaces[p] = lab.routers[r].Interfaces[p]
        BY <1>8, <2>1, <3>1
      <4>2. lab.routers[r].Interfaces[p] \in Range(lab.routers[r].Interfaces)
        BY <3>1 DEF Range
      <4> QED BY <2>1, <2>2, <4>1, <4>2 DEF PoolApart
    <3>2. CASE p \notin DOMAIN lab.routers[r].Interfaces
      <4>1. lab'.routers[r].Interfaces[p][1] = n + 1
        BY <1>8, <2>1, <2>2, <3>2
      <4>2. lab.routers[r].pool \in Pools
        BY <2>1, <2>2, RouterAt DEF LabRouters
      <4>3. lab.routers[r].pool.Assigned[h] \in Lans \X Nat
        BY <2>2, <4>2, PoolTyped
      <4>4. lab.routers[r].pool.Assigned[h][1] \in Int /\ lab.routers[r].pool.Assigned[h][1] <= 0
        BY <4>3, AssumedOfConstants
      <4> QED BY <1>6, <4>1, <4>4
    <3> QED BY <3>1, <3>2
  <2> QED BY <2>1, <2>2 DEF PoolApart, Range
<1>13. LeasesHeld'
  <2>1. \A o \in DOMAIN lab.routers \ {Absent} :
           o \in DOMAIN lab'.routers /\ lab'.routers[o].pool = lab.routers[o].pool
    BY <1>7, <1>8
  <2>2. \A k \in DOMAIN lab'.hosts : lab'.hosts[k].from # Absent =>
           /\ k \in DOMAIN lab.hosts /\ lab'.hosts[k].from = lab.hosts[k].from
           /\ lab.hosts[k].from \notin {Absent} /\ lab'.hosts[k].ip = lab.hosts[k].ip
    BY <1>7
  <2>3. \A o \in offers' : o.from # Absent =>
           /\ o.from \notin {Absent}
           /\ \E p \in offers : o.host = p.host /\ o.ip = p.ip /\ o.from = p.from
    BY <1>1
  <2> QED BY <2>1, <2>2, <2>3, HeldAfter
<1>14. TunnelsLead' /\ RoutesLead(lab.routers)' /\ RoutesHaveTunnels'
  <2>1. DOMAIN lab.routers \subseteq DOMAIN lab'.routers
    BY <1>7
  <2>2. \A o \in DOMAIN lab'.routers :
           \/ /\ o \in DOMAIN lab.routers
              /\ lab'.routers[o].IKEPeers = lab.routers[o].IKEPeers
              /\ lab'.routers[o].routes = lab.routers[o].routes
           \/ lab'.routers[o].IKEPeers = {} /\ lab'.routers[o].routes = {}
    BY <1>7, <1>8
  <2> QED BY <1>1, <2>1, <2>2, LeadsAfter
<1>15. LinksFresh'
  <2>1. Len(lab'.links) \in Nat /\ Len(lab'.links) <= Len(lab.links) + (commands' - commands)
    BY <1>6, <1>7, <1>9
  <2>2. ASSUME ~changed PROVE LinkNumbered(lab'.routers, ks)
    <3> SUFFICES ASSUME NEW r \in DOMAIN lab'.routers,
                        NEW p \in DOMAIN lab'.routers[r].Interfaces \ DOMAIN Iface0[r]
                 PROVE  \E i \in DOMAIN ks :
                           lab'.routers[r].Interfaces[p][1] = i /\ <<r, p>> \in Ends(ks[i])
      BY DEF LinkNumbered
    <3>1. DOMAIN ks = 1..(n + 1) /\ DOMAIN lab.links = 1..n /\ r \in DOMAIN lab.routers
      BY <1>3, <1>6, <1>7
    <3>2. CASE p \in DOMAIN lab.routers[r].Interfaces
      <4>1. LinkNumbered(lab.routers, lab.links)
        BY <2>2 DEF LabInv, LinksFresh
      <4>2. PICK i \in DOMAIN lab.links :
               lab.routers[r].Interfaces[p][1] = i /\ <<r, p>> \in Ends(lab.links[i])
        BY <3>1, <3>2, <4>1 DEF LinkNumbered
      <4> QED BY <1>6, <1>8, <3>1, <3>2, <4>2
    <3>3. CASE p \notin DOMAIN lab.routers[r].Interfaces
      BY <1>6, <1>8, <3>1, <3>3
    <3> QED BY <3>2, <3>3
  <2> QED BY <1>1, <1>2, <1>7, <1>9, <2>1, <2>2, FreshAfter
<1>16. SavedSound' /\ FileUsable'
  BY <1>1, <1>9, FilesKept
<1> QED BY <1>10, <1>11, <1>12, <1>13, <1>14, <1>15, <1>16 DEF LabInv

LEMMA LinkRemoved ==
    ASSUME LabInv, NEW id, REMOVE_LINK(id)
    PROVE  LabInv'
<1> DEFINE ks == Without(lab.links, {c \in Cables : c.id = id})
<1>1. /\ Command /\ lab' = [lab EXCEPT !.links = ks] /\ changed' = TRUE
      /\ UNCHANGED <<negs, offers, loaded, late, file, saving>>
  BY DEF REMOVE_LINK, RemoveLink, NoFile
<1>2. lab \in Labs /\ negs \subseteq Negotiations /\ offers \subseteq Offers
  BY DEF LabInv, LabTypes
<1>3. ks \in Seq(Cables)
  BY <1>2, LabParts, WithoutTyped
<1> HIDE DEF ks
<1>4. lab' = [routers |-> lab.routers, hosts |-> lab.hosts, switches |-> lab.switches, links |-> ks]
  BY <1>1, <1>2, LabParts
<1>5. lab' \in Labs /\ lab'.routers = lab.routers /\ lab'.hosts = lab.hosts
  BY <1>2, <1>3, <1>4, LabParts, LabMade
<1>6. commands' = commands + 1 /\ commands' \in 0..MaxCommands /\ commands \in Nat /\ crashes' = crashes
  BY <1>1, CommandTyped
<1>7. LabTypes'
  BY <1>1, <1>5, <1>6 DEF LabInv, LabTypes
<1>8. Addressed(lab.routers)' /\ LeasesDistinct' /\ RoutesHaveTunnels'
  BY <1>1, <1>5 DEF LabInv, Addressed, LeasesDistinct, RoutesHaveTunnels
<1>9. TunnelsLead' /\ RoutesLead(lab.routers)' /\ LeasesHeld'
  BY <1>1, <1>5 DEF LabInv, TunnelsLead, RoutesLead, Leads, LeasesHeld, Holds
<1>10. LinksFresh'
  BY <1>1 DEF LinksFresh
<1>11. SavedSound' /\ FileUsable'
  BY <1>1, <1>6, FilesKept
<1> QED BY <1>7, <1>8, <1>9, <1>10, <1>11 DEF LabInv

-----------------------------------------------------------------------------
(* A device is removed.                                                    *)

LEMMA Purged ==
    ASSUME NEW x \in LabRouters, NEW d, NEW ips
    PROVE  /\ Purge(x, d, ips) \in LabRouters
           /\ Purge(x, d, ips).Interfaces = x.Interfaces /\ Purge(x, d, ips).pool = x.pool
           /\ Purge(x, d, ips).IKEPeers = x.IKEPeers \ ips
           /\ Purge(x, d, ips).routes = {q \in x.routes : q.hop \notin ips}
<1> DEFINE ns == PurgeNeighbors(x, d)
<1>1. ns \in NeighborMaps
  <2>1. x.PortNeighbors \in NeighborMaps
    BY DEF LabRouters
  <2> QED BY <2>1, RestrictMap DEF PurgeNeighbors, NeighborMaps
<1> HIDE DEF ns
<1>2. Purge(x, d, ips) =
         [Interfaces |-> x.Interfaces, PortNeighbors |-> ns, routes |-> {q \in x.routes : q.hop \notin ips},
          IKEPeers |-> x.IKEPeers \ ips, crypto |-> x.crypto, pool |-> x.pool]
  <2>1. x = [Interfaces |-> x.Interfaces, PortNeighbors |-> x.PortNeighbors, routes |-> x.routes,
             IKEPeers |-> x.IKEPeers, crypto |-> x.crypto, pool |-> x.pool]
    BY DEF LabRouters
  <2>2. Purge(x, d, ips) =
           [x EXCEPT !.PortNeighbors = ns, !.routes = {q \in x.routes : q.hop \notin ips},
                     !.IKEPeers = x.IKEPeers \ ips]
    BY DEF Purge, PurgeRoutes, PurgePeers, ns
  <2> QED BY <2>1, <2>2
<1> QED BY <1>1, <1>2 DEF LabRouters

LEMMA DeviceRemoved ==
    ASSUME LabInv, NEW d \in Devices, REMOVE_DEVICE(d)
    PROVE  LabInv'
<1> DEFINE ips == collectDeviceIPs(lab, d)
           rs == [r \in DOMAIN lab.routers \ {d} |-> Purge(lab.routers[r], d, ips)]
           ho == Restrict(lab.hosts, DOMAIN lab.hosts \ {d})
           hs == ForgetLeases(ho, {d})
           sw == lab.switches \ {d}
           ks == Without(lab.links, {c \in Cables : d \in {c.src, c.dst}})
<1>1. /\ Command
      /\ lab' = [routers |-> rs, hosts |-> hs, switches |-> sw, links |-> ks]
      /\ negs' = Orphaned(negs, {d}) /\ offers' = Stranded(Forget(offers, {d}), {d})
      /\ changed' = TRUE /\ UNCHANGED <<loaded, late, file, saving>>
  BY DEF REMOVE_DEVICE, RemoveDevice, NoFile
<1>2. lab \in Labs /\ negs \in SUBSET Negotiations /\ offers \in SUBSET Offers
  BY DEF LabInv, LabTypes
<1>3. /\ lab.hosts \in Partial(HostIds, LabHosts) /\ lab.links \in Seq(Cables)
      /\ lab.switches \in SUBSET SwitchIds
      /\ DOMAIN lab.routers \subseteq RouterIds /\ lab.routers \in [DOMAIN lab.routers -> LabRouters]
  BY <1>2, LabParts, LabTyped
<1>4. ks \in Seq(Cables) /\ sw \in SUBSET SwitchIds
  BY <1>3, WithoutTyped
<1>5. ho \in Partial(HostIds, LabHosts) /\ DOMAIN ho = DOMAIN lab.hosts \ {d} /\ \A h \in DOMAIN ho : ho[h] = lab.hosts[h]
  BY <1>3, RestrictMap
<1> HIDE DEF ho
<1>6. /\ hs \in Partial(HostIds, LabHosts) /\ DOMAIN hs = DOMAIN ho
      /\ \A h \in DOMAIN ho : hs[h].from # Absent =>
            hs[h].from = ho[h].from /\ ho[h].from \notin {d} /\ hs[h].ip = ho[h].ip
  BY <1>5, ForgetTyped
<1> HIDE DEF hs
<1>7. \A h \in DOMAIN hs : hs[h].from # Absent =>
         /\ h \in DOMAIN lab.hosts /\ hs[h].from = lab.hosts[h].from
         /\ lab.hosts[h].from \notin {d} /\ hs[h].ip = lab.hosts[h].ip
  BY <1>5, <1>6
<1>8. /\ DOMAIN rs = DOMAIN lab.routers \ {d}
      /\ \A r \in DOMAIN rs :
            /\ r \in DOMAIN lab.routers
            /\ rs[r] \in LabRouters /\ rs[r].Interfaces = lab.routers[r].Interfaces
            /\ rs[r].pool = lab.routers[r].pool /\ rs[r].IKEPeers = lab.routers[r].IKEPeers \ ips
            /\ rs[r].routes = {q \in lab.routers[r].routes : q.hop \notin ips}
  BY <1>3, Purged
<1>9. d \in DOMAIN lab.routers => Public[d] \in ips
  <2> SUFFICES ASSUME d \in DOMAIN lab.routers
               PROVE  Public[d] \in Range(lab.routers[d].Interfaces)
    BY DEF collectDeviceIPs, IsRouter
  <2>1. PICK p \in DOMAIN Iface0[d] : Public[d] = Iface0[d][p]
    BY <1>3, InterfacesGiven DEF Range
  <2>2. p \in DOMAIN lab.routers[d].Interfaces /\ lab.routers[d].Interfaces[p] = Iface0[d][p]
    BY DEF LabInv, Addressed
  <2> QED BY <2>1, <2>2 DEF Range
<1> HIDE DEF rs, ks, sw, ips
<1>10. rs \in Partial(RouterIds, LabRouters)
  <2>1. rs = [r \in DOMAIN rs |-> rs[r]]
    BY DEF rs
  <2>2. rs \in [DOMAIN rs -> LabRouters] /\ DOMAIN rs \subseteq RouterIds
    BY <1>3, <1>8, <2>1
  <2> QED BY <2>2, PartialMap
<1>11. lab' \in Labs /\ lab'.routers = rs /\ lab'.hosts = hs
  BY <1>1, <1>4, <1>6, <1>10, LabMade
<1>12. commands' = commands + 1 /\ commands' \in 0..MaxCommands /\ commands \in Nat /\ crashes' = crashes
  BY <1>1, CommandTyped
<1>13. Forget(offers, {d}) \in SUBSET Offers
  BY <1>2, ForgetOffers
<1>14. LabTypes'
  <2>1. offers' \subseteq Offers /\ negs' \subseteq Negotiations
    BY <1>1, <1>2, <1>13, StrandOffers, OrphansTyped
  <2> QED BY <1>1, <1>11, <1>12, <2>1 DEF LabInv, LabTypes
<1>15. Addressed(lab.routers)'
  BY <1>8, <1>11 DEF LabInv, Addressed
<1>16. LeasesDistinct'
  BY <1>8, <1>11 DEF LabInv, LeasesDistinct
<1>17. LeasesHeld'
  <2>1. \A o \in DOMAIN lab.routers \ {d} :
           o \in DOMAIN lab'.routers /\ lab'.routers[o].pool = lab.routers[o].pool
    BY <1>8, <1>11
  <2>2. \A h \in DOMAIN lab'.hosts : lab'.hosts[h].from # Absent =>
           /\ h \in DOMAIN lab.hosts /\ lab'.hosts[h].from = lab.hosts[h].from
           /\ lab.hosts[h].from \notin {d} /\ lab'.hosts[h].ip = lab.hosts[h].ip
    BY <1>7, <1>11
  <2>3. ASSUME NEW o \in offers', o.from # Absent
        PROVE  o.from \notin {d} /\ \E p \in offers : o.host = p.host /\ o.ip = p.ip /\ o.from = p.from
    <3>1. PICK p \in Forget(offers, {d}) : o.host = p.host /\ o.ip = p.ip /\ o.from = p.from
      BY <1>1, <1>13, StrandOffers
    <3>2. p.from \notin {d} /\ p \in offers
      BY <1>2, <2>3, <3>1, ForgetOffers
    <3> QED BY <3>1, <3>2
  <2> QED BY <2>1, <2>2, <2>3, HeldAfter
<1>18. ASSUME NEW a, a \notin ips, a \in late \/ \E x \in DOMAIN lab.routers : a = Public[x]
       PROVE  a \in late' \/ \E x \in DOMAIN lab'.routers : a = Public[x]
  BY <1>1, <1>8, <1>9, <1>11, <1>18
<1>19. TunnelsLead'
  <2> SUFFICES ASSUME NEW r \in DOMAIN lab'.routers, NEW a \in lab'.routers[r].IKEPeers
               PROVE  a \in late' \/ \E x \in DOMAIN lab'.routers : a = Public[x]
    BY DEF TunnelsLead, Leads
  <2>1. r \in DOMAIN lab.routers /\ a \in lab.routers[r].IKEPeers /\ a \notin ips
    BY <1>8, <1>11
  <2>2. a \in late \/ \E x \in DOMAIN lab.routers : a = Public[x]
    BY <2>1, RouterAt
  <2> QED BY <1>18, <2>1, <2>2
<1>20. RoutesLead(lab.routers)'
  <2> SUFFICES ASSUME NEW r \in DOMAIN lab'.routers, NEW q \in lab'.routers[r].routes
               PROVE  q.hop \in late' \/ \E x \in DOMAIN lab'.routers : q.hop = Public[x]
    BY DEF RoutesLead, Leads
  <2>1. r \in DOMAIN lab.routers /\ q \in lab.routers[r].routes /\ q.hop \notin ips
    BY <1>8, <1>11
  <2>2. q.hop \in late \/ \E x \in DOMAIN lab.routers : q.hop = Public[x]
    BY <2>1, RouterAt
  <2> QED BY <1>18, <2>1, <2>2
<1>21. RoutesHaveTunnels'
  <2> SUFFICES ASSUME NEW r \in DOMAIN lab'.routers, NEW q \in lab'.routers[r].routes, q.vpn
               PROVE  q.hop \in lab'.routers[r].IKEPeers \/ loaded'
    BY DEF RoutesHaveTunnels
  <2>1. /\ r \in DOMAIN lab.routers /\ q \in lab.routers[r].routes /\ q.hop \notin ips
        /\ lab'.routers[r].IKEPeers = lab.routers[r].IKEPeers \ ips
    BY <1>8, <1>11
  <2> QED BY <1>1, <2>1, RouterAt
<1>22. LinksFresh'
  BY <1>1 DEF LinksFresh
<1>23. SavedSound' /\ FileUsable'
  BY <1>1, <1>12, FilesKept
<1> QED BY <1>11, <1>14, <1>15, <1>16, <1>17, <1>19, <1>20, <1>21, <1>22, <1>23 DEF LabInv

-----------------------------------------------------------------------------
(* Files.                                                                  *)

(* What a lab is that ImportSnapshot makes.                                *)
LEMMA ImportedLab ==
    ASSUME NEW s \in Snapshots
    PROVE  LET m == ImportSnapshot(s)
           IN  /\ m \in Labs /\ m.links = s.links /\ m.switches = s.switches
               /\ DOMAIN m.hosts = DOMAIN s.hosts /\ DOMAIN m.routers = DOMAIN s.routers
               /\ \A h \in DOMAIN s.hosts : m.hosts[h].ip = s.hosts[h].ip /\ m.hosts[h].from = Absent
               /\ \A r \in DOMAIN s.routers :
                     /\ m.routers[r].routes = s.routers[r].routes /\ m.routers[r].pool = NoPool
                     /\ m.routers[r].crypto = {} /\ m.routers[r].IKEPeers = {}
                     /\ \A p \in DOMAIN s.routers[r].Interfaces :
                           /\ p \in DOMAIN m.routers[r].Interfaces
                           /\ m.routers[r].Interfaces[p] = s.routers[r].Interfaces[p]
                     /\ \A p \in DOMAIN m.routers[r].Interfaces \ DOMAIN s.routers[r].Interfaces :
                           \E c \in Range(s.links) :
                              c.src \in DOMAIN s.routers /\ c.dst \in DOMAIN s.routers /\ <<r, p>> \in Ends(c)
<1> DEFINE m == ImportSnapshot(s)
           l == Restored(s)
<1>1. Extends(l, m, Range(s.links))
  BY Imported
<1>2. /\ l.links = s.links /\ l.switches = s.switches
      /\ DOMAIN l.routers = DOMAIN s.routers /\ DOMAIN l.hosts = DOMAIN s.hosts
      /\ \A h \in DOMAIN s.hosts : l.hosts[h].ip = s.hosts[h].ip /\ l.hosts[h].from = Absent
      /\ \A r \in DOMAIN s.routers :
            /\ l.routers[r].Interfaces = s.routers[r].Interfaces /\ l.routers[r].routes = s.routers[r].routes
            /\ l.routers[r].pool = NoPool /\ l.routers[r].crypto = {} /\ l.routers[r].IKEPeers = {}
  BY RestoredTyped
<1> HIDE DEF m, l
<1> SUFFICES /\ m \in Labs /\ m.links = s.links /\ m.switches = s.switches
             /\ DOMAIN m.hosts = DOMAIN s.hosts /\ DOMAIN m.routers = DOMAIN s.routers
             /\ \A h \in DOMAIN s.hosts : m.hosts[h].ip = s.hosts[h].ip /\ m.hosts[h].from = Absent
             /\ \A r \in DOMAIN s.routers :
                   /\ m.routers[r].routes = s.routers[r].routes /\ m.routers[r].pool = NoPool
                   /\ m.routers[r].crypto = {} /\ m.routers[r].IKEPeers = {}
                   /\ \A p \in DOMAIN s.routers[r].Interfaces :
                         /\ p \in DOMAIN m.routers[r].Interfaces
                         /\ m.routers[r].Interfaces[p] = s.routers[r].Interfaces[p]
                   /\ \A p \in DOMAIN m.routers[r].Interfaces \ DOMAIN s.routers[r].Interfaces :
                         \E c \in Range(s.links) :
                            c.src \in DOMAIN s.routers /\ c.dst \in DOMAIN s.routers /\ <<r, p>> \in Ends(c)
  BY DEF m
<1> QED BY <1>1, <1>2 DEF Extends

(* What is saved can be loaded, and leads where the lab led.               *)
LEMMA ExportTyped ==
    ASSUME NEW l \in Labs
    PROVE  /\ ExportSnapshot(l) \in Snapshots
           /\ ExportSnapshot(l).links = l.links /\ ExportSnapshot(l).switches = l.switches
           /\ DOMAIN ExportSnapshot(l).hosts = DOMAIN l.hosts
           /\ DOMAIN ExportSnapshot(l).routers = DOMAIN l.routers
           /\ \A h \in DOMAIN l.hosts : ExportSnapshot(l).hosts[h].ip = l.hosts[h].ip
           /\ \A r \in DOMAIN l.routers :
                 /\ ExportSnapshot(l).routers[r].Interfaces = l.routers[r].Interfaces
                 /\ ExportSnapshot(l).routers[r].routes = l.routers[r].routes
<1> DEFINE RS == [Interfaces : IfaceMaps, routes : SUBSET Routes]
           HS == [ip : HostAddresses \cup {Absent}, uplink : Devices \cup {Absent}]
           rs == [r \in DOMAIN l.routers |-> SnapshotRouter(l.routers[r])]
           hs == [h \in DOMAIN l.hosts |-> SnapshotHost(l.hosts[h])]
<1>1. /\ DOMAIN l.routers \subseteq RouterIds /\ l.routers \in [DOMAIN l.routers -> LabRouters]
      /\ DOMAIN l.hosts \subseteq HostIds /\ l.hosts \in [DOMAIN l.hosts -> LabHosts]
      /\ l.links \in Seq(Cables) /\ l.switches \in SUBSET SwitchIds
  BY LabTyped
<1>2. \A r \in DOMAIN l.routers : rs[r] \in RS /\ rs[r].Interfaces = l.routers[r].Interfaces /\ rs[r].routes = l.routers[r].routes
  BY <1>1 DEF SnapshotRouter, LabRouters
<1>3. \A h \in DOMAIN l.hosts : hs[h] \in HS /\ hs[h].ip = l.hosts[h].ip
  BY <1>1 DEF SnapshotHost, LabHosts
<1>4. rs \in [DOMAIN l.routers -> RS] /\ hs \in [DOMAIN l.hosts -> HS]
  BY <1>2, <1>3
<1>5. DOMAIN rs = DOMAIN l.routers /\ DOMAIN hs = DOMAIN l.hosts
  OBVIOUS
<1>6. ExportSnapshot(l) = [routers |-> rs, hosts |-> hs, switches |-> l.switches, links |-> l.links]
  BY DEF ExportSnapshot
<1> HIDE DEF rs, hs
<1>7. rs \in Partial(RouterIds, RS) /\ hs \in Partial(HostIds, HS)
  BY <1>1, <1>4, <1>5, PartialMap
<1>8. [routers |-> rs, hosts |-> hs, switches |-> l.switches, links |-> l.links] \in Snapshots
  BY <1>1, <1>7 DEF Snapshots
<1> QED BY <1>2, <1>3, <1>5, <1>6, <1>8

LEMMA CompleteTyped ==
    ASSUME NEW f \in Files, f # Absent
    PROVE  CompleteFile(f) /\ f \in Snapshots
<1>1. CompleteFile(f) /\ IsSnapshot(f)
  BY LabAssumption DEF CompleteFile
<1> DEFINE RS == [Interfaces : IfaceMaps, routes : SUBSET Routes]
           HS == [ip : HostAddresses \cup {Absent}, uplink : Devices \cup {Absent}]
<1>2. f.hosts \in Partial(HostIds, HS)
  BY <1>1, PartialMap DEF IsSnapshot, IsMap
<1>3. f.routers \in Partial(RouterIds, RS)
  <2>1. ASSUME NEW r \in DOMAIN f.routers PROVE f.routers[r] \in RS
    <3>1. /\ f.routers[r] = [Interfaces |-> f.routers[r].Interfaces, routes |-> f.routers[r].routes]
          /\ IsMap(f.routers[r].Interfaces, Ports, IfaceAddresses) /\ f.routers[r].routes \subseteq Routes
      BY <1>1, <2>1 DEF IsSnapshot
    <3>2. f.routers[r].Interfaces \in IfaceMaps
      BY <3>1, PartialMap DEF IsMap, IfaceMaps
    <3> QED BY <3>1, <3>2
  <2>2. f.routers = [r \in DOMAIN f.routers |-> f.routers[r]] /\ DOMAIN f.routers \subseteq RouterIds
    BY <1>1 DEF IsSnapshot
  <2>3. f.routers \in [DOMAIN f.routers -> RS]
    BY <2>1, <2>2
  <2> QED BY <2>2, <2>3, PartialMap
<1>4. /\ f = [routers |-> f.routers, hosts |-> f.hosts, switches |-> f.switches, links |-> f.links]
      /\ f.switches \subseteq SwitchIds /\ f.links \in Seq(Cables)
  BY <1>1 DEF IsSnapshot
<1>5. [routers |-> f.routers, hosts |-> f.hosts, switches |-> f.switches, links |-> f.links] \in Snapshots
  BY <1>2, <1>3, <1>4 DEF Snapshots
<1> QED BY <1>1, <1>4, <1>5

LEMMA EmptyLab == NoLab \in Labs /\ DOMAIN NoLab.routers = {} /\ DOMAIN NoLab.hosts = {} /\ Len(NoLab.links) = 0
<1>1. DOMAIN <<>> = {}
  OBVIOUS
<1>2. <<>> \in Partial(RouterIds, LabRouters) /\ <<>> \in Partial(HostIds, LabHosts)
  BY EmptyMap
<1>3. <<>> \in Seq(Cables) /\ Len(<<>>) = 0
  OBVIOUS
<1> QED BY <1>1, <1>2, <1>3, LabMade DEF NoLab

(* Steps that leave the lab alone keep all that does not look at the file. *)
LEMMA LabSame ==
    ASSUME LabInv, UNCHANGED <<lab, negs, offers, changed, loaded, late>>,
           commands' \in {commands, commands + 1}
    PROVE  /\ Addressed(lab.routers)' /\ LeasesDistinct' /\ LeasesHeld' /\ TunnelsLead'
           /\ RoutesLead(lab.routers)' /\ RoutesHaveTunnels' /\ LinksFresh'
<1>1. Addressed(lab.routers)' /\ LeasesDistinct'
  BY DEF LabInv, Addressed, LeasesDistinct
<1>2. LeasesHeld'
  BY DEF LabInv, LeasesHeld, Holds
<1>3. TunnelsLead' /\ RoutesLead(lab.routers)'
  BY DEF LabInv, TunnelsLead, RoutesLead, Leads
<1>4. RoutesHaveTunnels'
  BY DEF LabInv, RoutesHaveTunnels
<1>5. LinksFresh'
  <2>1. lab.links \in Seq(Cables) /\ changed \in BOOLEAN /\ commands \in Nat
    BY LabTyped DEF LabInv, LabTypes
  <2>2. Len(lab'.links) \in Nat /\ Len(lab'.links) <= Len(lab.links) + (commands' - commands)
    BY <2>1
  <2>3. ~changed' => LinkNumbered(lab'.routers, lab'.links)
    BY DEF LabInv, LinksFresh
  <2> QED BY <2>1, <2>2, <2>3, FreshAfter
<1> QED BY <1>1, <1>2, <1>3, <1>4, <1>5

LEMMA SaveKept ==
    ASSUME LabInv, SAVE_TOPOLOGY
    PROVE  LabInv'
<1>1. /\ Command /\ saving' = ExportSnapshot(lab) /\ file' = Broken
      /\ UNCHANGED <<lab, negs, offers, changed, loaded, late>>
  BY DEF SAVE_TOPOLOGY
<1>2. lab \in Labs
  BY DEF LabInv, LabTypes
<1> DEFINE s == ExportSnapshot(lab)
<1>3. /\ s \in Snapshots /\ DOMAIN s.routers = DOMAIN lab.routers
      /\ \A r \in DOMAIN lab.routers :
            s.routers[r].Interfaces = lab.routers[r].Interfaces /\ s.routers[r].routes = lab.routers[r].routes
  BY <1>2, ExportTyped
<1> HIDE DEF s
<1>4. commands' = commands + 1 /\ commands' \in 0..MaxCommands /\ crashes' = crashes
  BY <1>1, CommandTyped
<1>5. LabTypes'
  BY <1>1, <1>3, <1>4 DEF LabInv, LabTypes, s
<1>6. SavedSound'
  <2>1. Addressed(s.routers)
    BY <1>3 DEF LabInv, Addressed
  <2>2. \A r \in DOMAIN s.routers : \A q \in s.routers[r].routes : q.hop \in late \/ \E x \in DOMAIN s.routers : q.hop = Public[x]
    BY <1>3 DEF LabInv, RoutesLead, Leads
  <2>3. saving' = s /\ late' = late /\ file' = Broken
    BY <1>1 DEF s
  <2> QED BY <2>1, <2>2, <2>3 DEF SavedSound, RoutesLead, Leads
<1>7. FileUsable'
  BY <1>1, <1>3, AssumedOfConstants DEF FileUsable, s
<1> QED BY <1>1, <1>4, <1>5, <1>6, <1>7, LabSame DEF LabInv

LEMMA WriteKept ==
    ASSUME LabInv, WriteFile
    PROVE  LabInv'
<1>1. /\ saving # Absent /\ file' = saving /\ saving' = Absent
      /\ UNCHANGED <<lab, negs, offers, commands, crashes, changed, loaded, late>>
  BY DEF WriteFile
<1>2. LabTypes'
  BY <1>1 DEF LabInv, LabTypes
<1>3. SavedSound'
  BY <1>1 DEF LabInv, SavedSound, RoutesLead, Leads
<1>4. FileUsable'
  <2>1. saving \in Snapshots
    BY <1>1 DEF LabInv, LabTypes
  <2> QED BY <1>1, <2>1, AssumedOfConstants DEF FileUsable
<1> QED BY <1>1, <1>2, <1>3, <1>4, LabSame DEF LabInv

LEMMA LoadKept ==
    ASSUME LabInv, LOAD_TOPOLOGY
    PROVE  LabInv'
<1>1. /\ Command /\ file \notin {Absent, Broken} /\ lab' = ImportSnapshot(file)
      /\ negs' = Orphaned(negs, RouterIds) \cup Spawned(lab', lab'.links)
      /\ offers' = Stranded(Forget(offers, RouterIds), HostIds)
      /\ changed' = TRUE /\ loaded' = TRUE
      /\ UNCHANGED <<late, file, saving>>
  BY DEF LOAD_TOPOLOGY, NoFile
<1>2. /\ file \in Snapshots /\ negs \in SUBSET Negotiations /\ offers \in SUBSET Offers
      /\ Addressed(file.routers) /\ RoutesLead(file.routers)
  BY <1>1 DEF LabInv, LabTypes, SavedSound
<1>3. /\ lab' \in Labs
      /\ DOMAIN lab'.hosts = DOMAIN file.hosts /\ DOMAIN lab'.routers = DOMAIN file.routers
      /\ \A h \in DOMAIN file.hosts : lab'.hosts[h].from = Absent
      /\ \A r \in DOMAIN file.routers :
            /\ lab'.routers[r].routes = file.routers[r].routes /\ lab'.routers[r].pool = NoPool
            /\ lab'.routers[r].IKEPeers = {}
            /\ \A p \in DOMAIN file.routers[r].Interfaces :
                  /\ p \in DOMAIN lab'.routers[r].Interfaces
                  /\ lab'.routers[r].Interfaces[p] = file.routers[r].Interfaces[p]
  BY <1>1, <1>2, ImportedLab
<1>4. commands' = commands + 1 /\ commands' \in 0..MaxCommands /\ commands \in Nat /\ crashes' = crashes
  BY <1>1, CommandTyped
<1>5. Forget(offers, RouterIds) \in SUBSET Offers
  BY <1>2, ForgetOffers
<1>6. LabTypes'
  <2>1. offers' \subseteq Offers
    BY <1>1, <1>5, StrandOffers
  <2>2. negs' \subseteq Negotiations
    <3>1. Orphaned(negs, RouterIds) \subseteq Negotiations
      BY <1>2, OrphansTyped
    <3>2. PICK m : m = lab'
      OBVIOUS
    <3>3. m \in Labs /\ m.links \in Seq(Cables)
      BY <1>3, <3>2, LabTyped
    <3>4. Spawned(m, m.links) \subseteq Negotiations
      BY <3>3, SpawnTyped
    <3> QED BY <1>1, <3>1, <3>2, <3>4
  <2> QED BY <1>1, <1>3, <1>4, <2>1, <2>2 DEF LabInv, LabTypes
<1>7. Addressed(lab.routers)'
  BY <1>2, <1>3 DEF Addressed
<1>8. LeasesDistinct'
  BY <1>3 DEF LeasesDistinct
<1>9. LeasesHeld'
  <2>1. ASSUME NEW o \in offers' PROVE o.from = Absent
    <3>1. PICK p \in Forget(offers, RouterIds) : o.from = p.from
      BY <1>1, <1>5, StrandOffers
    <3>2. p.from # Absent => p.from \notin RouterIds /\ p \in offers
      BY <1>2, ForgetOffers
    <3>3. p \in Offers
      BY <1>5
    <3> QED BY <3>1, <3>2, <3>3 DEF Offers
  <2> QED BY <1>3, <2>1 DEF LeasesHeld
<1>10. TunnelsLead'
  BY <1>3 DEF TunnelsLead
<1>11. RoutesLead(lab.routers)'
  <2> SUFFICES ASSUME NEW r \in DOMAIN lab'.routers, NEW q \in lab'.routers[r].routes
               PROVE  q.hop \in late' \/ \E x \in DOMAIN lab'.routers : q.hop = Public[x]
    BY DEF RoutesLead, Leads
  <2>1. r \in DOMAIN file.routers /\ q \in file.routers[r].routes
    BY <1>3
  <2>2. q.hop \in late \/ \E x \in DOMAIN file.routers : q.hop = Public[x]
    BY <1>2, <2>1 DEF RoutesLead, Leads
  <2> QED BY <1>1, <1>3, <2>2
<1>12. RoutesHaveTunnels' /\ LinksFresh'
  BY <1>1 DEF RoutesHaveTunnels, LinksFresh
<1>13. SavedSound' /\ FileUsable'
  BY <1>1, <1>4, FilesKept
<1> QED BY <1>6, <1>7, <1>8, <1>9, <1>10, <1>11, <1>12, <1>13 DEF LabInv

LEMMA CrashKept ==
    ASSUME LabInv, Crash
    PROVE  LabInv'
<1>1. /\ crashes < MaxCrashes /\ crashes' = crashes + 1
      /\ lab' = NoLab /\ negs' = {} /\ offers' = {} /\ saving' = Absent
      /\ UNCHANGED <<file, commands, changed, loaded, late>>
  BY DEF Crash
<1>2. crashes \in 0..MaxCrashes /\ commands \in 0..MaxCommands /\ changed \in BOOLEAN /\ MaxCrashes \in Nat
  BY AssumedOfConstants DEF LabInv, LabTypes
<1>3. lab' \in Labs /\ DOMAIN lab'.routers = {} /\ DOMAIN lab'.hosts = {} /\ Len(lab'.links) = 0
  BY <1>1, EmptyLab
<1>4. LabTypes'
  BY <1>1, <1>2, <1>3 DEF LabInv, LabTypes
<1>5. Addressed(lab.routers)' /\ LeasesDistinct' /\ RoutesHaveTunnels'
  BY <1>3 DEF Addressed, LeasesDistinct, RoutesHaveTunnels
<1>6. TunnelsLead' /\ RoutesLead(lab.routers)' /\ LeasesHeld'
  BY <1>1, <1>3 DEF TunnelsLead, RoutesLead, LeasesHeld
<1>7. LinksFresh'
  <2>1. LinkNumbered(lab'.routers, lab'.links)
    BY <1>3 DEF LinkNumbered
  <2>2. lab.links \in Seq(Cables)
    BY LabTyped DEF LabInv, LabTypes
  <2>3. Len(lab'.links) \in Nat /\ Len(lab'.links) <= Len(lab.links) + (commands' - commands)
    BY <1>1, <1>2, <1>3, <2>2
  <2> QED BY <1>1, <1>2, <2>1, <2>3, FreshAfter
<1>8. SavedSound' /\ FileUsable'
  <2>1. FileUsable'
    BY <1>1, <1>2 DEF FileUsable
  <2>2. SavedSound'
    BY <1>1 DEF LabInv, SavedSound, RoutesLead, Leads
  <2> QED BY <2>1, <2>2
<1> QED BY <1>4, <1>5, <1>6, <1>7, <1>8 DEF LabInv

-----------------------------------------------------------------------------
(* The invariant.                                                          *)

LEMMA LabStarts ==
    ASSUME LabInit
    PROVE  LabInv
<1>1. /\ file \in Files /\ saving = Absent /\ offers = {}
      /\ lab = IF file = Absent THEN NoLab ELSE ImportSnapshot(file)
      /\ negs = IF file = Absent THEN {} ELSE Spawned(lab, lab.links)
      /\ commands = 0 /\ crashes = 0 /\ changed = FALSE /\ loaded = (file # Absent) /\ late = {}
  BY DEF LabInit
<1>2. MaxCommands \in Nat /\ MaxCrashes \in Nat /\ Absent # Broken /\ Broken \notin Snapshots
  BY AssumedOfConstants
<1>3. /\ saving \in Snapshots \cup {Absent} /\ offers \subseteq Offers
      /\ commands \in 0..MaxCommands /\ crashes \in 0..MaxCrashes
  BY <1>1, <1>2
<1>4. changed \in BOOLEAN /\ loaded \in BOOLEAN
  BY <1>1
<1>5. CASE file = Absent
  <2>1. lab = NoLab /\ negs = {} /\ loaded = FALSE
    BY <1>1, <1>5
  <2>2. lab \in Labs /\ DOMAIN lab.routers = {} /\ DOMAIN lab.hosts = {} /\ Len(lab.links) = 0
    BY <2>1, EmptyLab
  <2>3. LabTypes
    BY <1>3, <1>4, <1>5, <2>1, <2>2 DEF LabTypes
  <2>4. Addressed(lab.routers) /\ LeasesDistinct /\ RoutesHaveTunnels
    BY <2>2 DEF Addressed, LeasesDistinct, RoutesHaveTunnels
  <2>5. TunnelsLead /\ RoutesLead(lab.routers) /\ LeasesHeld
    BY <1>1, <2>2 DEF TunnelsLead, RoutesLead, LeasesHeld
  <2>6. LinksFresh
    <3>1. LinkNumbered(lab.routers, lab.links)
      BY <2>2 DEF LinkNumbered
    <3>2. Saved(Absent) = 0
      BY DEF Saved
    <3> QED BY <1>1, <1>5, <2>2, <3>1, <3>2 DEF LinksFresh
  <2>7. SavedSound /\ FileUsable
    BY <1>1, <1>2, <1>5 DEF SavedSound, FileUsable
  <2> QED BY <2>3, <2>4, <2>5, <2>6, <2>7 DEF LabInv
<1>6. CASE file # Absent
  <2>1. CompleteFile(file) /\ file \in Snapshots
    BY <1>1, <1>6, CompleteTyped
  <2>2. lab = ImportSnapshot(file) /\ negs = Spawned(lab, lab.links) /\ loaded = TRUE
    BY <1>1, <1>6
  <2>3. /\ lab \in Labs /\ lab.links = file.links
        /\ DOMAIN lab.hosts = DOMAIN file.hosts /\ DOMAIN lab.routers = DOMAIN file.routers
        /\ \A h \in DOMAIN file.hosts : lab.hosts[h].from = Absent
        /\ \A r \in DOMAIN file.routers :
              /\ lab.routers[r].routes = file.routers[r].routes /\ lab.routers[r].pool = NoPool
              /\ lab.routers[r].IKEPeers = {}
              /\ \A p \in DOMAIN file.routers[r].Interfaces :
                    /\ p \in DOMAIN lab.routers[r].Interfaces
                    /\ lab.routers[r].Interfaces[p] = file.routers[r].Interfaces[p]
              /\ \A p \in DOMAIN lab.routers[r].Interfaces \ DOMAIN file.routers[r].Interfaces :
                    \E c \in Range(file.links) :
                       c.src \in DOMAIN file.routers /\ c.dst \in DOMAIN file.routers /\ <<r, p>> \in Ends(c)
    BY <2>1, <2>2, ImportedLab
  <2>4. LabTypes
    <3>1. negs \subseteq Negotiations
      BY <2>2, <2>3, LabTyped, SpawnTyped
    <3> QED BY <1>3, <1>4, <2>1, <2>3, <3>1 DEF LabTypes
  <2>5. Addressed(file.routers) /\ RoutesLead(file.routers)
    BY <2>1 DEF CompleteFile, RoutesLead, Leads
  <2>6. Addressed(lab.routers)
    BY <2>3, <2>5 DEF Addressed
  <2>7. RoutesLead(lab.routers)
    BY <2>3, <2>5 DEF RoutesLead, Leads
  <2>8. LeasesDistinct /\ LeasesHeld /\ TunnelsLead /\ RoutesHaveTunnels
    BY <1>1, <2>2, <2>3 DEF LeasesDistinct, LeasesHeld, TunnelsLead, RoutesHaveTunnels
  <2>9. LinksFresh
    <3>1. ASSUME NEW r \in DOMAIN lab.routers, NEW p \in DOMAIN lab.routers[r].Interfaces
          PROVE  p \in DOMAIN file.routers[r].Interfaces
      <4> SUFFICES ASSUME p \notin DOMAIN file.routers[r].Interfaces
                   PROVE  FALSE
        OBVIOUS
      <4>1. PICK c \in Range(file.links) :
               c.src \in DOMAIN file.routers /\ c.dst \in DOMAIN file.routers /\ <<r, p>> \in Ends(c)
        BY <2>3, <3>1
      <4>2. PICK i \in DOMAIN file.links : c = file.links[i]
        BY <4>1 DEF Range
      <4>3. \A e \in Ends(c) : e[2] \in DOMAIN file.routers[e[1]].Interfaces
        BY <2>1, <4>1, <4>2 DEF CompleteFile
      <4> QED BY <4>1, <4>3
    <3>2. LinkNumbered(file.routers, file.links)
      BY <2>1 DEF CompleteFile
    <3>3. LinkNumbered(lab.routers, lab.links)
      BY <2>3, <3>1, <3>2 DEF LinkNumbered
    <3>4. Len(lab.links) <= Saved(file) + commands
      <4>1. file.links \in Seq(Cables)
        BY <2>1, SnapshotTyped
      <4> QED BY <1>1, <1>6, <2>3, <4>1 DEF Saved
    <3> QED BY <1>1, <3>3, <3>4 DEF LinksFresh
  <2>10. SavedSound /\ FileUsable
    BY <1>1, <1>2, <2>1, <2>5 DEF SavedSound, FileUsable
  <2> QED BY <2>4, <2>5, <2>6, <2>7, <2>8, <2>9, <2>10 DEF LabInv
<1> QED BY <1>5, <1>6

LEMMA LabInvStep ==
    ASSUME LabInv, [LabNext]_labVars
    PROVE  LabInv'
<1>1. CASE UNCHANGED labVars
  <2>1. UNCHANGED <<lab, file, saving, negs, offers, commands, crashes, changed, loaded, late>>
    BY <1>1 DEF labVars
  <2>2. negs' \subseteq Negotiations
    BY <2>1 DEF LabInv, LabTypes
  <2> QED BY <2>1, <2>2, LabStays
<1>2. CASE \E r \in RouterIds : ADD_ROUTER(r)
  BY <1>2, RouterAdded
<1>3. CASE \E s \in SwitchIds : ADD_SWITCH(s)
  BY <1>3, SwitchAdded
<1>4. CASE \E h \in HostIds : ADD_HOST(h) \/ HOST_DHCP(h)
  BY <1>4, HostAdded, RequestKept
<1>5. CASE \E c \in Cables : CONNECT_LINK(c) \/ REMOVE_LINK(c.id)
  BY <1>5, LinkConnected, LinkRemoved
<1>6. CASE \E d \in RouterIds \cup HostIds \cup SwitchIds : REMOVE_DEVICE(d)
  BY <1>6, DeviceRemoved DEF Devices
<1>7. CASE \E r, q \in RouterIds : r # q /\ (ADD_STATIC_ROUTE(r, q) \/ ConfigureTunnel(r, q))
  BY <1>7, StaticRouteKept, TunnelConfigured
<1>8. CASE \E r \in RouterIds, n \in Lans : CONFIG_DHCP_POOL(r, n) \/ PoolNetwork(r, n)
  BY <1>8, PoolConfigured, PoolNetworkKept
<1>9. CASE \E g \in negs :
             LookUp(g) \/ ActivateSource(g) \/ ActivateTarget(g) \/ InstallSource(g) \/ InstallTarget(g)
  BY <1>9, NegotiationKept
<1>10. CASE \E o \in offers : ConfigureHost(o)
  BY <1>10, HostConfigured
<1>11. CASE SAVE_TOPOLOGY \/ WriteFile \/ LOAD_TOPOLOGY \/ Crash
  BY <1>11, SaveKept, WriteKept, LoadKept, CrashKept
<1> QED BY <1>1, <1>2, <1>3, <1>4, <1>5, <1>6, <1>7, <1>8, <1>9, <1>10, <1>11 DEF LabNext

(* Every lab there can be satisfies the invariant, whatever is connected,  *)
(* removed, negotiated, leased, saved, loaded or lost in a crash.          *)
THEOREM LabInvariant == LabSpec => []LabInv
<1>1. LabInit => LabInv
  BY LabStarts
<1>2. LabInv /\ [LabNext]_labVars => LabInv'
  BY LabInvStep
<1> QED BY <1>1, <1>2, PTL DEF LabSpec

-----------------------------------------------------------------------------
(* What the invariant is for.                                              *)

LEMMA LeasesOfHosts == ASSUME LabInv PROVE HostsDistinct
<1> SUFFICES ASSUME NEW h \in DOMAIN lab.hosts, NEW k \in DOMAIN lab.hosts, h # k,
                    lab.hosts[h].ip = lab.hosts[k].ip, lab.hosts[h].from # Absent,
                    lab.hosts[h].from = lab.hosts[k].from
             PROVE  lab.hosts[h].ip[2] = 0
  BY DEF HostsDistinct
<1> DEFINE r == lab.hosts[h].from
           a == lab.hosts[h].ip
<1>1. Holds(lab.routers, r, h, a)
  BY DEF LabInv, LeasesHeld
<1>2. Holds(lab.routers, r, k, a)
  BY DEF LabInv, LeasesHeld
<1>3. PoolApart(lab.routers[r])
  BY <1>1, RouterAt DEF Holds
<1> QED BY <1>1, <1>2, <1>3 DEF Holds, PoolApart, Distinct

LEMMA LinksOfFresh == ASSUME LabInv PROVE FreshLinksSound
<1> SUFFICES ASSUME ~changed, NEW i \in DOMAIN lab.links, RouterLink(lab.links[i]), OwnPorts(i)
             PROVE  /\ \A m, n \in NetsOf(lab.links[i]) : m = n
                    /\ \A j \in DOMAIN lab.links \ {i} : RouterLink(lab.links[j]) =>
                          NetsOf(lab.links[i]) \cap NetsOf(lab.links[j]) = {}
  BY DEF FreshLinksSound
<1>1. LinkNumbered(lab.routers, lab.links) /\ Addressed(lab.routers) /\ commands \in 0..MaxCommands
  BY DEF LabInv, LinksFresh, LabTypes
<1>2. PICK f \in Files : Len(lab.links) <= Saved(f) + commands
  BY DEF LabInv, LinksFresh
<1>3. /\ DOMAIN lab.links = 1..Len(lab.links) /\ Len(lab.links) \in Nat
      /\ DOMAIN lab.routers \subseteq RouterIds
  <2>1. lab \in Labs
    BY DEF LabInv, LabTypes
  <2> QED BY <2>1, LabTyped
<1>4. i \in 1..(Saved(f) + MaxCommands)
  <2>1. f = Absent \/ f.links \in Seq(Cables)
    BY LabAssumption DEF CompleteFile, IsSnapshot
  <2>2. Saved(f) \in Nat
    BY <2>1 DEF Saved
  <2> QED BY <1>1, <1>2, <1>3, <2>2, AssumedOfConstants
<1>5. ASSUME NEW j \in DOMAIN lab.links, NEW n \in NetsOf(lab.links[j])
      PROVE  \E e \in Ends(lab.links[j]) :
                /\ e[1] \in DOMAIN lab.routers /\ e[2] \in DOMAIN lab.routers[e[1]].Interfaces
                /\ n = lab.routers[e[1]].Interfaces[e[2]][1] /\ e = <<e[1], e[2]>>
  BY DEF NetsOf, IsRouter, Ends
<1>6. ASSUME NEW r \in DOMAIN lab.routers,
             NEW p \in DOMAIN lab.routers[r].Interfaces, p \notin DOMAIN Iface0[r]
      PROVE  \E k \in DOMAIN lab.links :
                lab.routers[r].Interfaces[p][1] = k /\ <<r, p>> \in Ends(lab.links[k])
  BY <1>1, <1>6 DEF LinkNumbered
<1>7. ASSUME NEW n \in NetsOf(lab.links[i]) PROVE n = i
  <2>1. PICK e \in Ends(lab.links[i]) :
           /\ e[1] \in DOMAIN lab.routers /\ e[2] \in DOMAIN lab.routers[e[1]].Interfaces
           /\ n = lab.routers[e[1]].Interfaces[e[2]][1] /\ e = <<e[1], e[2]>>
    BY <1>5
  <2>2. e[2] \notin DOMAIN Iface0[e[1]]
    BY DEF OwnPorts
  <2>3. PICK k \in DOMAIN lab.links : n = k /\ <<e[1], e[2]>> \in Ends(lab.links[k])
    BY <1>6, <2>1, <2>2
  <2>4. k = i
    BY <2>1, <2>3 DEF OwnPorts
  <2> QED BY <2>3, <2>4
<1>8. ASSUME NEW j \in DOMAIN lab.links, j # i, NEW n \in NetsOf(lab.links[j]) PROVE n # i
  <2>1. PICK e \in Ends(lab.links[j]) :
           /\ e[1] \in DOMAIN lab.routers /\ e[2] \in DOMAIN lab.routers[e[1]].Interfaces
           /\ n = lab.routers[e[1]].Interfaces[e[2]][1] /\ e = <<e[1], e[2]>>
    BY <1>5
  <2>2. CASE e[2] \in DOMAIN Iface0[e[1]]
    <3>1. n = Iface0[e[1]][e[2]][1]
      BY <1>1, <2>1, <2>2 DEF Addressed
    <3> QED BY <1>3, <1>4, <2>1, <2>2, <3>1, NetworksAssumption
  <2>3. CASE e[2] \notin DOMAIN Iface0[e[1]]
    <3>1. PICK k \in DOMAIN lab.links : n = k /\ <<e[1], e[2]>> \in Ends(lab.links[k])
      BY <1>6, <2>1, <2>3
    <3>2. k # i
      BY <1>8, <2>1, <3>1 DEF OwnPorts
    <3> QED BY <3>1, <3>2
  <2> QED BY <2>2, <2>3
<1> QED BY <1>7, <1>8

LEMMA LabTypesOK == ASSUME LabInv PROVE LabTypeOK
<1>1. lab \in Labs /\ offers \subseteq Offers /\ commands \in 0..MaxCommands /\ crashes \in 0..MaxCrashes
  BY DEF LabInv, LabTypes
<1>2. /\ DOMAIN lab.routers \subseteq RouterIds /\ DOMAIN lab.hosts \subseteq HostIds
      /\ lab.hosts \in [DOMAIN lab.hosts -> LabHosts]
      /\ lab.links \in Seq(Cables) /\ lab.switches \subseteq SwitchIds
  BY <1>1, LabTyped
<1>3. Range(lab.links) \subseteq Cables
  BY <1>2 DEF Range
<1>4. ASSUME NEW r \in DOMAIN lab.routers
      PROVE  /\ lab.routers[r].IKEPeers \subseteq {Public[q] : q \in RouterIds}
             /\ lab.routers[r].pool # NoPool => DOMAIN lab.routers[r].pool.Assigned \subseteq HostIds
  <2>1. lab.routers[r] \in LabRouters
    BY RouterAt
  <2>2. lab.routers[r].IKEPeers \subseteq {Public[q] : q \in RouterIds} /\ lab.routers[r].pool \in Pools \cup {NoPool}
    BY <2>1 DEF LabRouters
  <2> QED BY <2>2, PoolTyped
<1>5. \A h \in DOMAIN lab.hosts : lab.hosts[h].from \in RouterIds \cup {Absent}
  BY <1>2 DEF LabHosts
<1>6. \A o \in offers : o.host \in HostIds /\ o.from \in RouterIds \cup {Absent}
  BY <1>1 DEF Offers
<1> QED BY <1>1, <1>2, <1>3, <1>4, <1>5, <1>6 DEF LabTypeOK

(* The first link with a port is the one it leads over.                    *)
LEMMA PeerOfFirst ==
    ASSUME NEW l, l.links \in Seq(Cables), NEW e, NEW f
    PROVE  /\ f \in ResolveLinkPeer(l, e) =>
                 \E m \in DOMAIN l.links : <<e, f>> \in EndsOf(l.links[m])
           /\ \A m \in DOMAIN l.links :
                 /\ <<e, f>> \in EndsOf(l.links[m])
                 /\ \A k \in DOMAIN l.links : e \in Ends(l.links[k]) => m <= k
                 => f \in ResolveLinkPeer(l, e)
<1> DEFINE hits == {i \in DOMAIN l.links : \E x \in EndsOf(l.links[i]) : x[1] = e}
           first == {i \in hits : \A j \in hits : i <= j}
           pairs == UNION {EndsOf(l.links[i]) : i \in first}
<1>1. ResolveLinkPeer(l, e) = {x[2] : x \in {x \in pairs : x[1] = e}}
  BY DEF ResolveLinkPeer
<1>2. ASSUME NEW i, NEW x \in EndsOf(l.links[i]) PROVE x = <<x[1], x[2]>> /\ x[1] \in Ends(l.links[i])
  BY DEF EndsOf, Ends
<1>3. ASSUME f \in ResolveLinkPeer(l, e) PROVE \E m \in DOMAIN l.links : <<e, f>> \in EndsOf(l.links[m])
  <2>1. PICK x \in pairs : x[1] = e /\ f = x[2]
    BY <1>1, <1>3
  <2>2. PICK i \in first : x \in EndsOf(l.links[i])
    BY <2>1
  <2> QED BY <1>2, <2>1, <2>2
<1>4. ASSUME NEW m \in DOMAIN l.links, <<e, f>> \in EndsOf(l.links[m]),
             \A k \in DOMAIN l.links : e \in Ends(l.links[k]) => m <= k
      PROVE  f \in ResolveLinkPeer(l, e)
  <2>1. m \in hits
    BY <1>4
  <2>2. \A j \in hits : m <= j
    BY <1>2, <1>4
  <2>3. <<e, f>> \in {x \in pairs : x[1] = e}
    BY <1>4, <2>1, <2>2
  <2> HIDE DEF pairs
  <2> QED BY <1>1, <2>3
<1> QED BY <1>3, <1>4

LEMMA PeersLeadBack == ASSUME LabInv PROVE PeerLeadsBack
<1>1. lab.links \in Seq(Cables)
  BY LabTyped DEF LabInv, LabTypes
<1> SUFFICES ASSUME NEW e, NEW f \in ResolveLinkPeer(lab, e), e \notin ResolveLinkPeer(lab, f)
             PROVE  \E j, k \in DOMAIN lab.links :
                       j # k /\ f \in Ends(lab.links[j]) \cap Ends(lab.links[k])
  BY DEF PeerLeadsBack
<1>2. PICK m \in DOMAIN lab.links : <<e, f>> \in EndsOf(lab.links[m])
  BY <1>1, PeerOfFirst
<1>3. <<f, e>> \in EndsOf(lab.links[m]) /\ f \in Ends(lab.links[m])
  BY <1>2 DEF EndsOf, Ends
<1> DEFINE T == {k \in DOMAIN lab.links : f \in Ends(lab.links[k])}
<1>4. PICK n \in T : \A k \in T : n <= k
  <2>1. T \in SUBSET Nat /\ T # {}
    BY <1>1, <1>3
  <2> HIDE DEF T
  <2> QED BY <2>1, LeastIndex
<1>5. n # m
  <2> SUFFICES ASSUME n = m PROVE FALSE
    OBVIOUS
  <2>1. \A k \in DOMAIN lab.links : f \in Ends(lab.links[k]) => m <= k
    BY <1>4
  <2> QED BY <1>1, <1>3, <2>1, PeerOfFirst
<1> QED BY <1>3, <1>4, <1>5

LEMMA PeersAreThere == ASSUME LabInv PROVE PeersExist
<1> SUFFICES ASSUME NEW r \in DOMAIN lab.routers,
                    NEW a \in lab.routers[r].IKEPeers \cup {q.hop : q \in lab.routers[r].routes},
                    a \notin late
             PROVE  Owned(lab, a)
  BY DEF PeersExist
<1>1. PICK x \in DOMAIN lab.routers : a = Public[x]
  BY RouterAt
<1>2. x \in RouterIds
  BY RouterAt
<1>3. PICK p \in DOMAIN Iface0[x] : Public[x] = Iface0[x][p]
  BY <1>2, InterfacesGiven DEF Range
<1>4. p \in DOMAIN lab.routers[x].Interfaces /\ lab.routers[x].Interfaces[p] = Iface0[x][p]
  BY <1>1, <1>3 DEF LabInv, Addressed
<1>5. a \in Range(lab.routers[x].Interfaces)
  BY <1>1, <1>3, <1>4 DEF Range
<1> QED BY <1>1, <1>5 DEF Owned

LEMMA LoadGivesBack ==
    ASSUME LabInv, LOAD_TOPOLOGY, file = ExportSnapshot(lab)
    PROVE  /\ lab'.links = lab.links /\ lab'.switches = lab.switches
           /\ DOMAIN lab'.hosts = DOMAIN lab.hosts /\ DOMAIN lab'.routers = DOMAIN lab.routers
           /\ \A h \in DOMAIN lab.hosts : lab'.hosts[h].ip = lab.hosts[h].ip
           /\ \A r \in DOMAIN lab.routers :
                 /\ \A p \in DOMAIN lab.routers[r].Interfaces :
                       /\ p \in DOMAIN lab'.routers[r].Interfaces
                       /\ lab'.routers[r].Interfaces[p] = lab.routers[r].Interfaces[p]
                 /\ lab'.routers[r].routes = lab.routers[r].routes
                 /\ lab'.routers[r].pool = NoPool /\ lab'.routers[r].crypto = {}
                 /\ lab'.routers[r].IKEPeers = {}
<1>1. lab \in Labs
  BY DEF LabInv, LabTypes
<1>2. PICK s : s = file
  OBVIOUS
<1>3. lab' = ImportSnapshot(s) /\ s = ExportSnapshot(lab)
  BY <1>2 DEF LOAD_TOPOLOGY
<1>4. /\ s \in Snapshots /\ s.links = lab.links /\ s.switches = lab.switches
      /\ DOMAIN s.hosts = DOMAIN lab.hosts /\ DOMAIN s.routers = DOMAIN lab.routers
      /\ \A h \in DOMAIN lab.hosts : s.hosts[h].ip = lab.hosts[h].ip
      /\ \A r \in DOMAIN lab.routers :
            s.routers[r].Interfaces = lab.routers[r].Interfaces /\ s.routers[r].routes = lab.routers[r].routes
  BY <1>1, <1>3, ExportTyped
<1>5. /\ lab'.links = s.links /\ lab'.switches = s.switches
      /\ DOMAIN lab'.hosts = DOMAIN s.hosts /\ DOMAIN lab'.routers = DOMAIN s.routers
      /\ \A h \in DOMAIN s.hosts : lab'.hosts[h].ip = s.hosts[h].ip
      /\ \A r \in DOMAIN s.routers :
            /\ lab'.routers[r].routes = s.routers[r].routes /\ lab'.routers[r].pool = NoPool
            /\ lab'.routers[r].crypto = {} /\ lab'.routers[r].IKEPeers = {}
            /\ \A p \in DOMAIN s.routers[r].Interfaces :
                  /\ p \in DOMAIN lab'.routers[r].Interfaces
                  /\ lab'.routers[r].Interfaces[p] = s.routers[r].Interfaces[p]
  BY <1>3, <1>4, ImportedLab
<1> QED BY <1>4, <1>5

(* No lease, host address or link network is given out twice, but for the  *)
(* exceptions that AddressesSound names.                                   *)
THEOREM AddressesStaySound == LabSpec => []AddressesSound
<1>1. LabInv => AddressesSound
  <2> SUFFICES ASSUME LabInv PROVE AddressesSound
    OBVIOUS
  <2>1. LeasesDistinct
    BY DEF LabInv
  <2> QED BY <2>1, LabTypesOK, LeasesOfHosts, LinksOfFresh DEF AddressesSound
<1> QED BY <1>1, LabInvariant, PTL

(* Cables lead back; tunnels and routes lead to routers that are there,    *)
(* unless a goroutine was late; a tunnel's route has its tunnel.           *)
THEOREM ReferencesStaySound == LabSpec => []ReferencesSound
<1>1. LabInv => ReferencesSound
  <2> SUFFICES ASSUME LabInv PROVE ReferencesSound
    OBVIOUS
  <2>1. RoutesHaveTunnels
    BY DEF LabInv
  <2> QED BY <2>1, PeersLeadBack, PeersAreThere DEF ReferencesSound
<1> QED BY <1>1, LabInvariant, PTL

(* A file that cannot be loaded is being written or was cut by a crash, and *)
(* one that was just saved gives the lab back, but for what is not saved.  *)
THEOREM SavesStaySound == LabSpec => SavesSound
<1>1. LabInv => FileUsable
  BY DEF LabInv
<1>2. LabInv /\ [LabNext]_labVars =>
         [LOAD_TOPOLOGY /\ file = ExportSnapshot(lab) =>
            /\ lab'.links = lab.links /\ lab'.switches = lab.switches
            /\ DOMAIN lab'.hosts = DOMAIN lab.hosts /\ DOMAIN lab'.routers = DOMAIN lab.routers
            /\ \A h \in DOMAIN lab.hosts : lab'.hosts[h].ip = lab.hosts[h].ip
            /\ \A r \in DOMAIN lab.routers :
                  /\ \A p \in DOMAIN lab.routers[r].Interfaces :
                        /\ p \in DOMAIN lab'.routers[r].Interfaces
                        /\ lab'.routers[r].Interfaces[p] = lab.routers[r].Interfaces[p]
                  /\ lab'.routers[r].routes = lab.routers[r].routes
                  /\ lab'.routers[r].pool = NoPool /\ lab'.routers[r].crypto = {}
                  /\ lab'.routers[r].IKEPeers = {}]_labVars
  BY LoadGivesBack
<1> QED BY <1>1, <1>2, LabInvariant, PTL DEF LabSpec, SavesSound, RoundTrip
=============================================================================
