------------------------------- MODULE Switch -------------------------------
(***************************************************************************)
(* Switches (engine/network/switch.go): learning, VLANs, flooding, and the *)
(* spanning tree of RunSTP, on a LAN of several switches.                  *)
(*                                                                         *)
(* Frames and the STP timer are handled by the simulation loop, one after  *)
(* the other; the user configures ports from other goroutines, each call   *)
(* under the switch's lock.  A port is <<switch, number>>, in the order of *)
(* the names; a host stands for its MAC address and its only port.         *)
(***************************************************************************)
EXTENDS Integers, FiniteSets, FiniteSetsExt

CONSTANTS
    Networks,    \* the networks a behaviour may be about
    Hosts,
    Broadcast

Untagged == 0

(* --- Networks -------------------------------------------------------------- *)
EndsOf(n) == DOMAIN n.config \cup Hosts

(* Where a frame that enters at e may get: from port to port of a switch,  *)
(* and over the cables from there.                                         *)
Closed(n, ends) ==
    \A p \in ends \cap DOMAIN n.config : \A q \in DOMAIN n.config \ {p} : \A x \in EndsOf(n) :
        q[1] = p[1] /\ {q, x} \in n.cables => x \in ends
Reach(n, e) ==
    {h \in Hosts : \A ends \in SUBSET EndsOf(n) : e \in ends /\ Closed(n, ends) => h \in ends}

(* No host is reached from two ports of a switch, and none reaches itself. *)
LoopFree(n) ==
    /\ \A p, q \in DOMAIN n.config : \A x, y \in EndsOf(n) :
         p # q /\ p[1] = q[1] /\ {p, x} \in n.cables /\ {q, y} \in n.cables =>
            Reach(n, x) \cap Reach(n, y) = {}
    /\ \A h \in Hosts : \A x \in EndsOf(n) : {h, x} \in n.cables => h \notin Reach(n, x)

(* Both ends of a cable between switches stand for the same VLAN, hosts    *)
(* are on access ports, and no VLAN has the number that means untagged.    *)
VLANsAgree(n) ==
    /\ \A p \in DOMAIN n.config : n.config[p].vlan # Untagged
    /\ \A p, q \in DOMAIN n.config : {p, q} \in n.cables => n.config[p].vlan = n.config[q].vlan
    /\ \A h \in Hosts : \A x \in EndsOf(n) : {h, x} \in n.cables =>
         x \in DOMAIN n.config /\ n.config[x].mode = "access"

PortConfigs == [mode : {"access", "trunk"}, vlan : Nat, allowed : SUBSET Nat, up : BOOLEAN]

(* A port or a host has at most one cable, and changes are of its ports.   *)
ASSUME SwitchAssumption ==
    \A n \in Networks :
        /\ Hosts \cap DOMAIN n.config = {}
        /\ n.config \in [DOMAIN n.config -> PortConfigs]
        /\ \A p \in DOMAIN n.config : p[1] \in n.switches
        /\ \A c \in n.cables : \E x, y \in EndsOf(n) : x # y /\ c = {x, y}
        /\ \A c, d \in n.cables : c # d => c \cap d = {}
        /\ \A f \in n.frames : f.src \in Hosts
        /\ \A change \in n.changes : change[1] \in DOMAIN n.config /\ change[2] \in PortConfigs
        /\ ~n.ring => LoopFree(n)

VARIABLES
    net,         \* the network, one of Networks
    switches,    \* switches that exist
    cfg,         \* cfg[p]: mode, VLAN, allowed VLANs and whether it is up
    BlockedPorts,
    MacTable,    \* MacTable[s]: map from <<VLAN, host>> to a port
    unsent,      \* frames still to be sent
    wire,        \* [frame, tag, at]: a copy on its way to the endpoint at
    received,    \* <<frame, host>>: the host has received the frame
    touched      \* history: the user has changed something

switchVars == <<net, switches, cfg, BlockedPorts, MacTable, unsent, wire, received, touched>>

Switches == net.switches   \* bridge identifiers, numbers
Cables == net.cables       \* sets of two endpoints, ports or hosts
Ports == DOMAIN net.config
Frames == net.frames       \* frames the hosts send: [src, dst]
AllFrames == UNION {n.frames : n \in Networks}

-----------------------------------------------------------------------------
SwitchInit ==
    /\ net \in Networks
    /\ switches = Switches
    /\ cfg = net.config
    /\ BlockedPorts = {}
    /\ MacTable = [s \in Switches |-> [k \in {} |-> <<>>]]
    /\ unsent = Frames
    /\ wire = {}
    /\ received = {}
    /\ touched = FALSE

PortsOf(s) == {p \in Ports : p[1] = s}
(* ResolveLinkPeer: the other end of e's cable, if it has one.             *)
IsPeer(e, x) == x # e /\ {e, x} \in Cables
Plugged(e) == \E x \in EndsOf(net) : IsPeer(e, x)
LinkPeer(e) == CHOOSE x \in EndsOf(net) : IsPeer(e, x)
Put(map, key, value) ==
    [k \in DOMAIN map \cup {key} |-> IF k = key THEN value ELSE map[k]]

(* ingressVLAN: the tag, or what the port stands for.                      *)
IngressVLAN(p, tag) == IF tag # Untagged THEN tag ELSE cfg[p].vlan

(* Mutant: an access port lets every VLAN out.                             *)
MutCarries(p, v) ==
    cfg[p].mode = "trunk" => cfg[p].allowed = {} \/ v \in cfg[p].allowed

(* egressFrame: whether VLAN v leaves by p, and with which tag.            *)
Carries(p, v) ==
    IF cfg[p].mode = "trunk" THEN cfg[p].allowed = {} \/ v \in cfg[p].allowed
    ELSE v = cfg[p].vlan

(* Mutant: a tag is left on where the native VLAN should go untagged, and  *)
(* the other way round.                                                    *)
MutEgressTag(p, v) == IF cfg[p].mode = "trunk" /\ v = cfg[p].vlan THEN v ELSE Untagged

EgressTag(p, v) == IF cfg[p].mode = "trunk" /\ v # cfg[p].vlan THEN v ELSE Untagged

(* Mutant: the frame goes out by the port it came in by, too.              *)
MutFlood(in, v) == {p \in PortsOf(in[1]) : cfg[p].up /\ p \notin BlockedPorts /\ Carries(p, v)}

(* floodVLAN.                                                              *)
Flood(in, v) ==
    {p \in PortsOf(in[1]) \ {in} : cfg[p].up /\ p \notin BlockedPorts /\ Carries(p, v)}

(* The ports a frame leaves by: a known destination is not looked up in    *)
(* cfg or BlockedPorts.                                                    *)
Outbound(in, v, dst, table) ==
    IF dst = Broadcast \/ <<v, dst>> \notin DOMAIN table THEN Flood(in, v)
    ELSE {p \in {table[<<v, dst>>]} \ {in} : Carries(p, v)}

(* Mutant: the destination is learned instead of the source.               *)
MutLearn(s, v, frame, in) == Put(MacTable[s], <<v, frame.dst>>, in)

Learn(s, v, frame, in) == Put(MacTable[s], <<v, frame.src>>, in)

(* HandleIncomingFrame, and forwardFromDevice for what comes out.          *)
HandleIncomingFrame(c) ==
    /\ c \in wire /\ c.at \in Ports
    /\ LET in == c.at  s == in[1]  v == IngressVLAN(in, c.tag) IN
         IF s \in switches /\ cfg[in].up /\ in \notin BlockedPorts
         THEN LET table == Learn(s, v, c.frame, in) IN
                /\ MacTable' = [MacTable EXCEPT ![s] = table]
                /\ wire' = (wire \ {c}) \cup
                     {[frame |-> c.frame, tag |-> EgressTag(p, v), at |-> LinkPeer(p)] :
                          p \in {q \in Outbound(in, v, c.frame.dst, table) : Plugged(q)}}
         ELSE wire' = wire \ {c} /\ UNCHANGED MacTable
    /\ UNCHANGED <<net, switches, cfg, BlockedPorts, unsent, received, touched>>

HostReceive(c) ==
    /\ c \in wire /\ c.at \in Hosts
    /\ wire' = wire \ {c}
    /\ received' = received \cup {<<c.frame, c.at>>}
    /\ UNCHANGED <<net, switches, cfg, BlockedPorts, MacTable, unsent, touched>>

HostSend(f) ==
    /\ f \in unsent
    /\ unsent' = unsent \ {f}
    /\ wire' = wire \cup
         IF Plugged(f.src) THEN {[frame |-> f, tag |-> Untagged, at |-> LinkPeer(f.src)]} ELSE {}
    /\ UNCHANGED <<net, switches, cfg, BlockedPorts, MacTable, received, touched>>

(* Mutant: the first port is blocked instead of the last.                  *)
MutRunSTP(s) ==
    IF Cardinality(PortsOf(s)) > 2 /\ s > Min(switches)
    THEN {p \in PortsOf(s) : \A q \in PortsOf(s) : p[2] <= q[2]}
    ELSE BlockedPorts \cap PortsOf(s)

(* RunSTP: a switch that is not the root, with more than two ports, blocks *)
(* the port with the last name; any other switch is left as it is.         *)
RunSTP(s) ==
    IF Cardinality(PortsOf(s)) > 2 /\ s > Min(switches)
    THEN {p \in PortsOf(s) : \A q \in PortsOf(s) : q[2] <= p[2]}
    ELSE BlockedPorts \cap PortsOf(s)

(* TIMER_STP: RunSTPOnAllSwitches.                                         *)
STPTimer ==
    /\ BlockedPorts' = UNION {RunSTP(s) : s \in switches}
    /\ UNCHANGED <<net, switches, cfg, MacTable, unsent, wire, received, touched>>

(* SetPortAccessVLAN, SetPortTrunk, SetPortUp.                             *)
ConfigurePort(p, new) ==
    /\ cfg[p] # new
    /\ cfg' = [cfg EXCEPT ![p] = new]
    /\ touched' = TRUE
    /\ UNCHANGED <<net, switches, BlockedPorts, MacTable, unsent, wire, received>>

RemoveSwitch(s) ==
    /\ s \in switches
    /\ switches' = switches \ {s}
    /\ touched' = TRUE
    /\ UNCHANGED <<net, cfg, BlockedPorts, MacTable, unsent, wire, received>>

DeliverFrame == \E c \in wire : HandleIncomingFrame(c) \/ HostReceive(c)

SwitchNext ==
    \/ DeliverFrame
    \/ \E f \in unsent : HostSend(f)
    \/ STPTimer
    \/ \E change \in net.changes : ConfigurePort(change[1], change[2])
    \/ \E s \in net.removable : RemoveSwitch(s)

SwitchSpec == SwitchInit /\ [][SwitchNext]_switchVars

(* The scheduler delivers every frame, hosts send, the timer recurs.       *)
FairSwitchSpec ==
    /\ SwitchSpec
    /\ WF_switchVars(DeliverFrame) /\ WF_switchVars(STPTimer)
    /\ \A f \in AllFrames : WF_switchVars(HostSend(f))

-----------------------------------------------------------------------------
SwitchTypeOK ==
    /\ switches \subseteq Switches
    /\ \A p \in Ports : cfg[p].mode \in {"access", "trunk"} /\ cfg[p].vlan \in Nat
    /\ BlockedPorts \subseteq Ports
    /\ \A s \in Switches : \A k \in DOMAIN MacTable[s] :
         k[1] \in Nat /\ k[2] \in Hosts /\ MacTable[s][k] \in PortsOf(s)
    /\ unsent \subseteq Frames
    /\ \A c \in wire : c.frame \in Frames /\ c.tag \in Nat /\ c.at \in Ports \cup Hosts
    /\ received \subseteq Frames \X Hosts

(* Without loops no host gets a frame twice, or its own: flooding leaves   *)
(* out the port the frame came by at every switch, whatever is learned,    *)
(* configured or blocked meanwhile.                                        *)
NoSecondCopy ==
    ~net.ring => \A c \in wire : c.at \in Hosts =>
        /\ <<c.frame, c.at>> \notin received
        /\ c.at # c.frame.src

(* The VLAN of a host is that of its access port.                          *)
VLANOf(h) == cfg[LinkPeer(h)].vlan

(* Ports that are neither trunk nor access port of the VLAN see nothing of *)
(* it: over trunks with any native VLAN and allowed list, a frame reaches  *)
(* only hosts of its sender's VLAN, as long as cables join what agrees and *)
(* the user leaves ports as they are.                                      *)
StaysInVLAN == ~touched /\ VLANsAgree(net) => \A r \in received : VLANOf(r[2]) = VLANOf(r[1].src)

(* What a host receives: every frame once and of its own VLAN only.        *)
OnceAndInVLAN == SwitchTypeOK /\ NoSecondCopy /\ StaysInVLAN

(* Every frame reaches the host it is for, if that is in the same VLAN and *)
(* every port between them is up, trunk and not blocked: what is learned   *)
(* on the way never leads astray, unless the user changes something.       *)
EveryFrameArrives ==
    \A f \in AllFrames : f \in Frames /\ f.dst # Broadcast /\ VLANOf(f.src) = VLANOf(f.dst) =>
        <>(<<f, f.dst>> \in received \/ touched)

(* RunSTP blocks the port with the last name, whatever is behind it: where *)
(* three switches in a ring have a host there the ring stays closed, and a *)
(* broadcast that is on its way round never ends.                          *)
StormNeverEnds ==
    [][net.ring /\ (\E c \in wire : c.at \in Ports) => \E c \in wire' : c.at \in Ports]_switchVars
=============================================================================
