-------------------------------- MODULE Wan --------------------------------
(***************************************************************************)
(* PPP on a serial link: WANManager (engine/network/wan.go),               *)
(* handleRouterPPP and InitiatePPPHandshake (dataplane.go), and            *)
(* ConfigureWANSerial (final_features.go).                                 *)
(*                                                                         *)
(* A connection configures an end and then, without a lock, looks whether  *)
(* the other end waits; the handshake is a goroutine of its own.  The loop *)
(* answers a frame in two steps: its own end's state machine, and then the *)
(* peer's, which gets the answer directly and once more as a frame.        *)
(*                                                                         *)
(* Nothing in the program sends Frame Relay frames or reads the state of a *)
(* circuit, so circuits are left out.                                      *)
(***************************************************************************)
EXTENDS Integers, FiniteSets

CONSTANTS
    SerialEnds,         \* the two ends of the link
    Connections,        \* connection goroutines that configure
    MaxSerialConfigs    \* bound: calls of ConfigureWANSerial

ASSUME WanAssumption ==
    /\ \E e, f \in SerialEnds : e # f /\ SerialEnds = {e, f}
    /\ "none" \notin SerialEnds
    /\ MaxSerialConfigs \in Nat

Encaps == {"none", "hdlc", "ppp"}
Stages == {"LCP", "NCP", "DATA"}
Idle == [end |-> "none"]

VARIABLES
    cable,      \* the link exists
    portUp,     \* portUp[e]: the interface is not shut down
    serial,     \* SerialPorts: encapsulation and PPP state of each end
    configuring,\* configuring[c]: the end whose peer connection c looks at next
    starting,   \* starting[e]: goroutines about to run InitiatePPPHandshake at e
    pppWire,    \* pppWire[e][s]: frames of stage s on their way to e
    answering,  \* the loop's answer on its way to the peer's state machine
    addressed,  \* ends where AssignPPPSerialAddress ran
    configs,    \* calls of ConfigureWANSerial so far
    disturbed   \* history: more than the first "ppp" of each end has happened

wanVars == <<cable, portUp, serial, configuring, starting, pppWire, answering,
             addressed, configs, disturbed>>

Peer(e) == CHOOSE f \in SerialEnds : f # e

WanInit ==
    /\ cable = TRUE
    /\ portUp = [e \in SerialEnds |-> TRUE]
    /\ serial = [e \in SerialEnds |-> [encap |-> "none", state |-> "Dead"]]
    /\ configuring = [c \in Connections |-> Idle]
    /\ starting = [e \in SerialEnds |-> 0]
    /\ pppWire = [e \in SerialEnds |-> [s \in Stages |-> 0]]
    /\ answering = Idle
    /\ addressed = {}
    /\ configs = 0
    /\ disturbed = FALSE

(* ConfigureSerial: a new object, so the PPP state is lost.                *)
ConfigureSerial(c, e, encap) ==
    /\ configuring[c] = Idle /\ configs < MaxSerialConfigs
    /\ configs' = configs + 1
    /\ serial' = [serial EXCEPT ![e] = [encap |-> encap, state |-> "Dead"]]
    /\ configuring' =
         IF encap = "ppp" THEN [configuring EXCEPT ![c] = [end |-> e]] ELSE configuring
    /\ disturbed' = (disturbed \/ encap # "ppp" \/ serial[e].encap # "none")
    /\ UNCHANGED <<cable, portUp, starting, pppWire, answering, addressed>>

(* Mutant: the handshake starts when the peer has already heard one.       *)
MutCheckPeer(c) ==
    /\ configuring[c] # Idle
    /\ LET e == configuring[c].end IN
         starting' = IF cable /\ serial[Peer(e)] = [encap |-> "ppp", state |-> "LCP"]
                     THEN [starting EXCEPT ![e] = @ + 1] ELSE starting
    /\ configuring' = [configuring EXCEPT ![c] = Idle]
    /\ UNCHANGED <<cable, portUp, serial, pppWire, answering, addressed, configs, disturbed>>

(* The rest of ConfigureWANSerial: the handshake starts when the peer      *)
(* speaks PPP and has not heard anything.                                  *)
CheckPeer(c) ==
    /\ configuring[c] # Idle
    /\ LET e == configuring[c].end IN
         starting' = IF cable /\ serial[Peer(e)] = [encap |-> "ppp", state |-> "Dead"]
                     THEN [starting EXCEPT ![e] = @ + 1] ELSE starting
    /\ configuring' = [configuring EXCEPT ![c] = Idle]
    /\ UNCHANGED <<cable, portUp, serial, pppWire, answering, addressed, configs, disturbed>>

InitiatePPPHandshake(e) ==
    /\ starting[e] > 0
    /\ starting' = [starting EXCEPT ![e] = @ - 1]
    /\ pppWire' = IF portUp[e] /\ cable
                  THEN [pppWire EXCEPT ![Peer(e)]["LCP"] = @ + 1] ELSE pppWire
    /\ UNCHANGED <<cable, portUp, serial, configuring, answering, addressed, configs, disturbed>>

(* ProcessPPPFrame: the state each stage leads to, and the stage of the    *)
(* answer.                                                                 *)
StateFor(stage) == IF stage = "DATA" THEN "Up" ELSE stage
(* Mutant: LCP is answered with NCP.                                       *)
MutAnswerTo(stage) == IF stage = "DATA" THEN "none" ELSE "NCP"
AnswerTo(stage) == IF stage = "DATA" THEN "none" ELSE stage
ProcessPPPFrame(e, stage) ==
    IF serial[e].encap = "ppp" THEN [serial EXCEPT ![e].state = StateFor(stage)] ELSE serial

(* deliverToRouter and the first half of handleRouterPPP.                  *)
DeliverPPP(e, s) ==
    /\ answering = Idle /\ pppWire[e][s] > 0
    /\ pppWire' = [pppWire EXCEPT ![e][s] = @ - 1]
    /\ IF portUp[e]
       THEN /\ serial' = ProcessPPPFrame(e, s)
            /\ answering' = IF serial[e].encap = "ppp" /\ AnswerTo(s) # "none"
                            THEN [end |-> e, stage |-> AnswerTo(s)] ELSE Idle
            /\ addressed' = IF s = "DATA" THEN addressed \cup (IF cable THEN SerialEnds ELSE {e})
                            ELSE addressed
       ELSE UNCHANGED <<serial, answering, addressed>>
    /\ UNCHANGED <<cable, portUp, configuring, starting, configs, disturbed>>

(* Mutant: the answer reaches the peer's state machine only, not the wire. *)
MutAnswerPeer ==
    /\ answering # Idle
    /\ IF cable THEN serial' = ProcessPPPFrame(Peer(answering.end), answering.stage)
       ELSE UNCHANGED serial
    /\ answering' = Idle
    /\ UNCHANGED <<cable, portUp, configuring, starting, pppWire, addressed, configs, disturbed>>

(* The second half: the peer's state machine advances, and the answer is   *)
(* transmitted as well; its own interface is not looked at.                *)
AnswerPeer ==
    /\ answering # Idle
    /\ LET f == Peer(answering.end) IN
         IF cable
         THEN /\ serial' = ProcessPPPFrame(f, answering.stage)
              /\ pppWire' = [pppWire EXCEPT ![f][answering.stage] = @ + 1]
         ELSE UNCHANGED <<serial, pppWire>>
    /\ answering' = Idle
    /\ UNCHANGED <<cable, portUp, configuring, starting, addressed, configs, disturbed>>

(* Cables come and go, interfaces are shut and opened.                     *)
ChangeCable ==
    /\ cable' = ~cable /\ disturbed' = TRUE
    /\ UNCHANGED <<portUp, serial, configuring, starting, pppWire, answering, addressed, configs>>

ChangePort(e) ==
    /\ portUp' = [portUp EXCEPT ![e] = ~@] /\ disturbed' = TRUE
    /\ UNCHANGED <<cable, serial, configuring, starting, pppWire, answering, addressed, configs>>

WanNext ==
    \/ \E c \in Connections, e \in SerialEnds, x \in {"hdlc", "ppp"} : ConfigureSerial(c, e, x)
    \/ \E c \in Connections : CheckPeer(c)
    \/ \E e \in SerialEnds : InitiatePPPHandshake(e) \/ ChangePort(e)
    \/ \E e \in SerialEnds, s \in Stages : DeliverPPP(e, s)
    \/ AnswerPeer
    \/ ChangeCable

WanSpec == WanInit /\ [][WanNext]_wanVars

-----------------------------------------------------------------------------
WanTypeOK ==
    /\ serial \in [SerialEnds -> [encap : Encaps, state : {"Dead", "LCP", "NCP", "Up"}]]
    /\ configuring \in [Connections -> {Idle} \cup [end : SerialEnds]]
    /\ answering \in {Idle} \cup [end : SerialEnds, stage : Stages]
    /\ \A e \in SerialEnds : starting[e] \in 0..configs /\ \A s \in Stages : pppWire[e][s] \in 0..configs
    /\ addressed \subseteq SerialEnds

(* The exchange never leaves LCP: nobody opens NCP, no end comes up and    *)
(* none gets an address from PPP.                                          *)
PPPNeverUp ==
    addressed = {} /\ \A e \in SerialEnds : serial[e].state \in {"Dead", "LCP"}

WireFrames(e) == pppWire[e]["LCP"] + pppWire[e]["NCP"] + pppWire[e]["DATA"]
Circulating ==
    LET a == CHOOSE e \in SerialEnds : TRUE IN
    WireFrames(a) + WireFrames(Peer(a)) + (IF answering = Idle THEN 0 ELSE 1)
Connected == cable /\ \A e \in SerialEnds : portUp[e] /\ serial[e].encap = "ppp"

(* Each end answers LCP with LCP, so a frame that is on the link stays     *)
(* there: only a change of the link or of an end ends an exchange.         *)
LCPNeverEnds == [][Circulating' < Circulating => ~Connected]_wanVars

(* Where the cable is there first and each end is configured once, at      *)
(* the same time or one after the other, an exchange starts: one of the    *)
(* two sees the other.                                                     *)
FirstHandshakeStarts ==
    Connected /\ ~disturbed /\ (\A c \in Connections : configuring[c] = Idle) =>
        Circulating > 0 \/ \E e \in SerialEnds : starting[e] > 0

(* PPP in short: the exchange starts, never gets anywhere and never ends.  *)
PPPSound == WanTypeOK /\ PPPNeverUp /\ FirstHandshakeStarts
PPPStaysInLCP == []PPPSound /\ LCPNeverEnds
=============================================================================
