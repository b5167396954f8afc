-------------------------------- MODULE Qos --------------------------------
(* The policer of a router: class maps, policy maps, the policies of its   *)
(* ports and the token buckets (qos.go), with the commands that configure  *)
(* them (ios_extended.go, main.go).                                        *)
(*                                                                         *)
(* Of the actions of a class only the rates of its police lines are kept:  *)
(* the others mark the packet and leave the buckets alone.  A class map or *)
(* a policy map that is missing is one that matches or holds nothing.      *)
(* Tokens are counted in parts, Unit of them a token, so that a tick of    *)
(* 8/Unit seconds brings a whole number of them; the code's are floats.    *)
EXTENDS Integers, Sequences

CONSTANTS
    QoSPorts, QoSClasses, QoSPolicies,
    Traffic,         \* kinds of packets
    Matches,         \* what a class map may match: sets of kinds
    Rates,           \* rates of police lines
    Unit,            \* parts of a token
    NoPolicy, NoPacket,
    MaxNow, MaxPassed, MaxPolicyLines   \* bounds of the instance

Keys == QoSPorts \X QoSClasses
Classes == Seq([class : QoSClasses, rates : Seq(Rates)])
Handling == [key : Keys, rates : Seq(Rates), charged : BOOLEAN]

ASSUME QosAssumption ==
    /\ Rates \subseteq Nat /\ Unit \in Nat \ {0}
    /\ Matches \subseteq SUBSET Traffic
    /\ MaxNow \in Nat /\ MaxPassed \in Nat /\ MaxPolicyLines \in Nat
    /\ NoPacket \notin Handling

VARIABLES
    qosNow,          \* the clock, in ticks
    classMaps,       \* class -> the kinds of packets that its map matches
    policyMaps,      \* policy -> its classes, with the rates of their police lines
    ifaceQoS,        \* port -> its service policy
    qosPolice,       \* <<port, class>> -> bucket; with its history
    handled,         \* the packet that ApplyQoSToPacket is at, under the lock
    doubled,         \* history: buckets that one packet was charged to twice
    policyLines      \* count of policy lines typed

qosVars == <<qosNow, classMaps, policyMaps, ifaceQoS, qosPolice, handled, doubled, policyLines>>
qosConfig == <<classMaps, policyMaps, ifaceQoS, policyLines>>

(* seen is empty as long as there is no bucket.  History: born, the time   *)
(* it was made; taken, the tokens taken out; passed, the packets charged to it    *)
(* and let through; seen, the rates it was used with.                      *)
Bucket == [tokens : Nat, last : Nat, born : Nat, taken : Nat, passed : Nat, seen : SUBSET Rates]

QosTypeOK ==
    /\ qosNow \in Nat /\ policyLines \in Nat
    /\ classMaps \in [QoSClasses -> SUBSET Traffic]
    /\ policyMaps \in [QoSPolicies -> Classes]
    /\ ifaceQoS \in [QoSPorts -> QoSPolicies \cup {NoPolicy}]
    /\ qosPolice \in [Keys -> Bucket]
    /\ handled \in Handling \cup {NoPacket}
    /\ doubled \subseteq Keys

QosInit ==
    /\ qosNow = 0 /\ policyLines = 0
    /\ classMaps = [c \in QoSClasses |-> {}]
    /\ policyMaps = [p \in QoSPolicies |-> <<>>]
    /\ ifaceQoS = [port \in QoSPorts |-> NoPolicy]
    /\ qosPolice = [k \in Keys |->
           [tokens |-> 0, last |-> 0, born |-> 0, taken |-> 0, passed |-> 0, seen |-> {}]]
    /\ handled = NoPacket
    /\ doubled = {}

----------------------------------------------------------------------------
(* What is typed.  Each waits for the router's lock.                       *)

Typed == handled = NoPacket /\ UNCHANGED <<qosNow, qosPolice, handled, doubled>>

TypedPolicy ==
    /\ Typed
    /\ policyLines < MaxPolicyLines /\ policyLines' = policyLines + 1
    /\ UNCHANGED <<classMaps, ifaceQoS>>

(* AddClassMap and AppendClassMapMatch: the map is replaced, or its match. *)
AddClassMap(c, match) ==
    /\ Typed
    /\ classMaps' = [classMaps EXCEPT ![c] = match]
    /\ UNCHANGED <<policyMaps, ifaceQoS, policyLines>>

(* AddPolicyMap replaces a policy, with one class or none.                 *)
AddPolicyMap(p, classes) ==
    /\ TypedPolicy
    /\ policyMaps' = [policyMaps EXCEPT ![p] = classes]

(* A class that the policy has gets the actions in addition.               *)
Appended(classes, c, rates) ==
    IF \E i \in DOMAIN classes : classes[i].class = c
    THEN [i \in DOMAIN classes |->
              IF classes[i].class = c
              THEN [class |-> c, rates |-> classes[i].rates \o rates] ELSE classes[i]]
    ELSE Append(classes, [class |-> c, rates |-> rates])

AppendPolicyClass(p, c, rates) ==
    /\ TypedPolicy
    /\ policyMaps' = [policyMaps EXCEPT ![p] = Appended(@, c, rates)]

ApplyServicePolicy(port, p) ==
    /\ Typed
    /\ ifaceQoS' = [ifaceQoS EXCEPT ![port] = p]
    /\ UNCHANGED <<classMaps, policyMaps, policyLines>>

----------------------------------------------------------------------------
(* A packet.  The first class whose map matches has it, and its police     *)
(* lines are gone through one by one; the lock is held throughout.         *)

ApplyQoSToPacket(port, kind) ==
    /\ handled = NoPacket
    /\ ifaceQoS[port] \in QoSPolicies
    /\ LET classes == policyMaps[ifaceQoS[port]]
           Has(i) == kind \in classMaps[classes[i].class]
       IN \E i \in DOMAIN classes :
              /\ Has(i) /\ \A j \in 1..(i - 1) : ~Has(j)
              /\ qosPolice[<<port, classes[i].class>>].passed < MaxPassed
              /\ handled' = [key |-> <<port, classes[i].class>>, rates |-> classes[i].rates,
                              charged |-> FALSE]
              /\ doubled' = IF Len(classes[i].rates) > 1
                            THEN doubled \cup {<<port, classes[i].class>>} ELSE doubled
    /\ UNCHANGED <<qosNow, qosPolice, qosConfig>>

(* Mutant: a new bucket is empty.                                          *)
MutMade(b, rate) ==
    IF b.seen # {} THEN b ELSE [b EXCEPT !.last = qosNow, !.born = qosNow]
(* A bucket is made full, with as many tokens as the rate.                 *)
Made(b, rate) ==
    IF b.seen # {} THEN b
    ELSE [b EXCEPT !.tokens = rate * Unit, !.last = qosNow, !.born = qosNow]

(* Mutant: the time of the last refill is not kept.                        *)
MutRefilled(b, rate) ==
    LET full == b.tokens + rate * (qosNow - b.last)
    IN [b EXCEPT !.tokens = IF full > rate * Unit THEN rate * Unit ELSE full]
(* It fills with the time, to the rate of the line that uses it now.       *)
Refilled(b, rate) ==
    LET full == b.tokens + rate * (qosNow - b.last)
    IN IF qosNow > b.last
       THEN [b EXCEPT !.tokens = IF full > rate * Unit THEN rate * Unit ELSE full,
                      !.last = qosNow]
       ELSE b

Used(b, rate) == [Refilled(Made(b, rate), rate) EXCEPT !.seen = b.seen \cup {rate}]

shouldPoliceDrop(b) == b.tokens < Unit

Police ==
    /\ handled # NoPacket /\ handled.rates # <<>>
    /\ LET k == handled.key
           b == Used(qosPolice[k], Head(handled.rates))
       IN IF shouldPoliceDrop(b)
          THEN /\ qosPolice' = [qosPolice EXCEPT ![k] = b]
               /\ handled' = NoPacket
          ELSE /\ qosPolice' = [qosPolice EXCEPT
                      ![k] = [b EXCEPT !.tokens = b.tokens - Unit, !.taken = b.taken + 1]]
               /\ handled' = [key |-> k, rates |-> Tail(handled.rates), charged |-> TRUE]
    /\ UNCHANGED <<qosNow, doubled, qosConfig>>

(* All its lines let the packet pass.                                      *)
Pass ==
    /\ handled # NoPacket /\ handled.rates = <<>>
    /\ qosPolice' = IF handled.charged
                    THEN [qosPolice EXCEPT ![handled.key].passed = @ + 1] ELSE qosPolice
    /\ handled' = NoPacket
    /\ UNCHANGED <<qosNow, doubled, qosConfig>>

Later ==
    /\ handled = NoPacket /\ qosNow < MaxNow
    /\ qosNow' = qosNow + 1
    /\ UNCHANGED <<qosPolice, handled, doubled, qosConfig>>

QosNext ==
    \/ \E c \in QoSClasses, match \in Matches : AddClassMap(c, match)
    \/ \E p \in QoSPolicies, c \in QoSClasses, rate \in Rates :
           \/ AddPolicyMap(p, <<>>)
           \/ AddPolicyMap(p, <<[class |-> c, rates |-> <<rate>>]>>)
           \/ AppendPolicyClass(p, c, <<>>)
           \/ AppendPolicyClass(p, c, <<rate>>)
    \/ \E port \in QoSPorts, p \in QoSPolicies : ApplyServicePolicy(port, p)
    \/ \E port \in QoSPorts, kind \in Traffic : ApplyQoSToPacket(port, kind)
    \/ Police \/ Pass \/ Later

QosSpec == QosInit /\ [][QosNext]_qosVars

----------------------------------------------------------------------------
(* However the lines of a class are changed and whenever it is refilled, a *)
(* bucket lets no more through than the highest of its rates allows from   *)
(* the time it was made: the burst, and the rate for the time gone by.     *)
PolicedRate ==
    \A k \in Keys :
        LET b == qosPolice[k]
        IN b.seen # {} =>
               \E rate \in b.seen :
                   b.tokens + Unit * b.taken <= rate * (Unit + b.last - b.born)

(* The first burst gets through: where a packet is dropped, as many as one *)
(* of the rates have passed the bucket before.  Except where a class was   *)
(* given a second police line (AppendPolicyClass appends the line, where a *)
(* user changes the rate): then each packet is charged twice.              *)
Dropped(k) ==
    /\ handled # NoPacket /\ handled.rates # <<>>
    /\ handled.key = k /\ handled' = NoPacket

FirstBurst ==
    [][\A k \in Keys \ doubled :
           Dropped(k) => \E rate \in qosPolice'[k].seen : qosPolice'[k].passed >= rate]_qosVars

(* The policer keeps its promise in both directions.                       *)
PolicerFair == []QosTypeOK /\ []PolicedRate /\ FirstBurst
=============================================================================
