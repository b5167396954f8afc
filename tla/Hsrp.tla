-------------------------------- MODULE Hsrp --------------------------------
(***************************************************************************)
(* HSRP groups and their election (engine/network/hsrp.go).                *)
(*                                                                         *)
(* RunHSRPElection runs in the simulation loop, for every TIMER_HSRP, and  *)
(* in a connection goroutine, after every ConfigureHSRP.  It collects      *)
(* pointers to the groups, router by router, each under that router's      *)
(* lock, and then tests and writes the states through those pointers with  *)
(* no lock: two elections interleave, between a test and the assignment it *)
(* leads to as well, and a group that was reconfigured meanwhile is a new  *)
(* object that the older election does not know.                           *)
(*                                                                         *)
(* Each router has one interface with one group of the same number.        *)
(***************************************************************************)
EXTENDS Integers, FiniteSets

CONSTANTS
    Routers, VIPs,
    Priorities,     \* priorities the user configures
    None,           \* no group, no router
    MaxConfigs      \* bound: calls of ConfigureHSRP

ASSUME HsrpAssumption ==
    Priorities \subseteq Nat /\ MaxConfigs \in Nat /\ None \notin Routers

Loop == "loop"          \* the simulation loop's election
Conn == "connection"    \* the connection goroutine's election
Electors == {Loop, Conn}
Objects == 1 .. MaxConfigs

VARIABLES
    routers,    \* routers that exist
    HSRPGroups, \* HSRPGroups[r]: the router's current group object, or None
    heap,       \* heap[o]: the group objects made so far
    made,       \* how many there are
    pc,         \* pc[e]: "idle", "collect" or "write"
    todo,       \* todo[e]: routers to collect from
    cands,      \* cands[e]: the groups collected (byVIP)
    best,       \* best[e]: the group elected for each virtual address, once decided
    tested,     \* tested[e]: the group e has found not Active and is to make Standby
    newer       \* history: groups made Active since an election tested them

vars == <<routers, HSRPGroups, heap, made, pc, todo, cands, best, tested, newer>>
electionVars == <<pc, todo, cands, best, tested, newer>>

-----------------------------------------------------------------------------
Init ==
    /\ routers = Routers
    /\ HSRPGroups = [r \in Routers |-> None]
    /\ heap = <<>>
    /\ made = 0
    /\ pc = [e \in Electors |-> "idle"]
    /\ todo = [e \in Electors |-> {}]
    /\ cands = [e \in Electors |-> {}]
    /\ best = [e \in Electors |-> {}]
    /\ tested = [e \in Electors |-> {}]
    /\ newer = {}

(* RunHSRPElection starts with the routers there are.                      *)
StartElection(e) ==
    /\ pc' = [pc EXCEPT ![e] = "collect"]
    /\ todo' = [todo EXCEPT ![e] = routers]
    /\ cands' = [cands EXCEPT ![e] = {}]
    /\ UNCHANGED <<best, tested, newer>>

(* ConfigureHSRPOnRouter: a new group in state Listen replaces the old one *)
(* under the router's lock; then the election runs.                        *)
ConfigureHSRP(r, vip, priority) ==
    /\ pc[Conn] = "idle" /\ r \in routers /\ made < MaxConfigs
    /\ made' = made + 1
    /\ heap' = [o \in 1 .. made + 1 |->
                  IF o <= made THEN heap[o]
                  ELSE [router |-> r, vip |-> vip, priority |-> priority,
                        state |-> "Listen"]]
    /\ HSRPGroups' = [HSRPGroups EXCEPT ![r] = made + 1]
    /\ StartElection(Conn)
    /\ UNCHANGED routers

(* TIMER_HSRP.                                                             *)
HSRPTimer ==
    /\ pc[Loop] = "idle"
    /\ StartElection(Loop)
    /\ UNCHANGED <<routers, HSRPGroups, heap, made>>

(* One router's groups are collected under its lock.                       *)
Collect(e, r) ==
    /\ pc[e] = "collect" /\ r \in todo[e]
    /\ todo' = [todo EXCEPT ![e] = @ \ {r}]
    /\ cands' = [cands EXCEPT ![e] = @ \cup ({HSRPGroups[r]} \ {None})]
    /\ UNCHANGED <<routers, HSRPGroups, heap, made, pc, best, tested, newer>>

Candidates(e, vip) == {o \in cands[e] : heap[o].vip = vip}

(* Mutant: the comparison is the wrong way round.                          *)
MutIsBest(e, o) ==
    /\ o \in cands[e]
    /\ \A c \in Candidates(e, heap[o].vip) : heap[o].priority <= heap[c].priority

(* A candidate no other outranks; among equals the first in map order,     *)
(* which is arbitrary.                                                     *)
IsBest(e, o) ==
    /\ o \in cands[e]
    /\ \A c \in Candidates(e, heap[o].vip) : heap[c].priority <= heap[o].priority

(* All candidates are in: the best of each virtual address is settled.     *)
Decide(e) ==
    /\ pc[e] = "collect" /\ todo[e] = {}
    /\ \E b \in SUBSET {o \in cands[e] : IsBest(e, o)} :
         /\ \A v \in {heap[o].vip : o \in cands[e]} :
              Cardinality({o \in b : heap[o].vip = v}) = 1
         /\ best' = [best EXCEPT ![e] = b]
    /\ pc' = [pc EXCEPT ![e] = "write"]
    /\ UNCHANGED <<routers, HSRPGroups, heap, made, todo, cands, tested, newer>>

SetState(o, state) == heap' = [heap EXCEPT ![o].state = state]

(* The elected group becomes Active, without its router's lock.            *)
WriteActive(e, o) ==
    /\ pc[e] = "write" /\ tested[e] = {} /\ o \in cands[e] \cap best[e]
    /\ SetState(o, "Active")
    /\ cands' = [cands EXCEPT ![e] = @ \ {o}]
    /\ newer' = newer \cup {q \in {o} : \E f \in Electors : q \in tested[f]}
    /\ UNCHANGED <<routers, HSRPGroups, made, pc, todo, best, tested>>

(* Mutant: a loser is demoted whatever its state.                          *)
MutTestOther(e, o) ==
    /\ pc[e] = "write" /\ tested[e] = {} /\ o \in cands[e] \ best[e]
    /\ tested' = [tested EXCEPT ![e] = {o}]
    /\ cands' = [cands EXCEPT ![e] = @ \ {o}]
    /\ UNCHANGED <<routers, HSRPGroups, heap, made, pc, todo, best, newer>>

(* Any other group is tested: it is to become Standby unless it is Active. *)
TestOther(e, o) ==
    /\ pc[e] = "write" /\ tested[e] = {} /\ o \in cands[e] \ best[e]
    /\ tested' = [tested EXCEPT ![e] = {q \in {o} : heap[q].state # "Active"}]
    /\ cands' = [cands EXCEPT ![e] = @ \ {o}]
    /\ UNCHANGED <<routers, HSRPGroups, heap, made, pc, todo, best, newer>>

(* Mutant: the losers are left as they are.                                *)
MutWriteStandby(e, o) ==
    /\ o \in tested[e]
    /\ tested' = [tested EXCEPT ![e] = {}]
    /\ UNCHANGED <<routers, HSRPGroups, heap, made, pc, todo, cands, best, newer>>

(* The assignment that follows the test.  Nothing keeps the other election *)
(* from writing Active in between; it may have ended since, or run again.  *)
WriteStandby(e, o) ==
    /\ o \in tested[e]
    /\ SetState(o, "Standby")
    /\ tested' = [tested EXCEPT ![e] = {}]
    /\ newer' = newer \ {o}
    /\ UNCHANGED <<routers, HSRPGroups, made, pc, todo, cands, best>>

EndElection(e) ==
    /\ pc[e] = "write" /\ cands[e] = {} /\ tested[e] = {}
    /\ pc' = [pc EXCEPT ![e] = "idle"]
    /\ best' = [best EXCEPT ![e] = {}]
    /\ UNCHANGED <<routers, HSRPGroups, heap, made, todo, cands, tested, newer>>

RunHSRPElection(e) ==
    \/ \E r \in todo[e] : Collect(e, r)
    \/ Decide(e)
    \/ \E o \in cands[e] : WriteActive(e, o) \/ TestOther(e, o)
    \/ \E o \in tested[e] : WriteStandby(e, o)
    \/ EndElection(e)

(* RemoveDevice takes the router; an election that listed it before still  *)
(* collects its group.                                                     *)
RemoveRouter(r) ==
    /\ pc[Conn] = "idle" /\ r \in routers
    /\ routers' = routers \ {r}
    /\ UNCHANGED <<HSRPGroups, heap, made, electionVars>>

Next ==
    \/ \E r \in Routers, v \in VIPs, p \in Priorities : ConfigureHSRP(r, v, p)
    \/ HSRPTimer
    \/ \E e \in Electors : RunHSRPElection(e)
    \/ \E r \in Routers : RemoveRouter(r)

Spec == Init /\ [][Next]_vars

(* The loop keeps starting elections, and elections keep running.          *)
FairSpec ==
    /\ Spec
    /\ WF_vars(HSRPTimer)
    /\ \A e \in Electors : WF_vars(RunHSRPElection(e))

-----------------------------------------------------------------------------
Group == [router : Routers, vip : VIPs, priority : Priorities,
          state : {"Listen", "Standby", "Active"}]

TypeOK ==
    /\ routers \subseteq Routers
    /\ made \in 0 .. MaxConfigs
    /\ DOMAIN heap = 1 .. made /\ \A o \in 1 .. made : heap[o] \in Group
    /\ \A r \in Routers : HSRPGroups[r] # None =>
         HSRPGroups[r] \in 1 .. made /\ heap[HSRPGroups[r]].router = r
    /\ pc \in [Electors -> {"idle", "collect", "write"}]
    /\ \A e \in Electors :
         /\ todo[e] \subseteq Routers
         /\ cands[e] \cup best[e] \cup tested[e] \cup newer \subseteq 1 .. made

Groups(vip) == {HSRPGroups[r] : r \in {q \in routers :
                    HSRPGroups[q] # None /\ heap[HSRPGroups[q]].vip = vip}}
Active(vip) == {o \in Groups(vip) : heap[o].state = "Active"}
TopPriority(vip) == {o \in Groups(vip) :
                        \A c \in Groups(vip) : heap[c].priority <= heap[o].priority}

(* Once the user is done, one of the routers with the highest priority is  *)
(* Active for good: overlapping elections, groups replaced between the two *)
(* halves of an election and the removal of the Active router delay that,  *)
(* and cannot prevent it.                                                  *)
BestBecomesActive ==
    \A v \in VIPs : <>[](Groups(v) # {} => TopPriority(v) \cap Active(v) # {})

(* A group that lost an election is not left in Listen: in the long run    *)
(* every configured group takes part.                                      *)
NobodyStaysInListen ==
    \A r \in Routers :
        (r \in routers /\ HSRPGroups[r] # None) ~>
            (r \in routers /\ HSRPGroups[r] # None => heap[HSRPGroups[r]].state # "Listen")

(* Elections come to their end.                                            *)
ElectionSettles == []TypeOK /\ BestBecomesActive /\ NobodyStaysInListen

(* RunHSRPElection takes Active away by one accident only: a router that   *)
(* is outranked by one configured later stays Active beside it, unless an  *)
(* election had tested the group before the other election made it Active, *)
(* and assigns Standby after.  Even then it gives way to a group of the    *)
(* same address which it does not outrank.                                 *)
OutrankedStaysActive ==
    [][\A o \in DOMAIN heap :
         heap[o].state = "Active" /\ heap'[o].state # "Active" =>
             /\ o \in newer
             /\ \E e \in Electors : \E b \in best[e] :
                  /\ o \in tested[e]
                  /\ heap[b].vip = heap[o].vip /\ heap[o].priority <= heap[b].priority]_vars
=============================================================================
