----------------------------- MODULE MCServices -----------------------------
(* The protocols that HandleExtendedTimer drives, with the serial links,   *)
(* the phones and the policer: HSRP, VTP, CDP and BGP run on timers of     *)
(* their own, the others on frames, and none shares a variable with        *)
(* another.  So one of them runs at a time, the one that active names.     *)
(*                                                                         *)
(* HSRP: two routers, two priorities, three calls of ConfigureHSRP.  PPP:  *)
(* two connections, three configurations.  CDP: one cable between two      *)
(* routers, and a row of three.  VTP: two switches, each a server or a     *)
(* client by turns.  BGP: two routers in one or two systems, which peer    *)
(* with each other, under a wrong number too, and one with itself.         *)
(* Phones: two of them.  Policing: two classes of one policy at one port.  *)
EXTENDS Hsrp, Wan, Cdp, Vtp, Bgp, Voip, Qos, TLC

CONSTANTS ra, rb, rc, sa, sb, qa, qb, icmp, udp

VARIABLE active

hsrpVars == vars
allVars == <<active, hsrpVars, wanVars, cdpVars, vtpVars, bgpVars, voipVars, qosVars>>

MCNetworks == {{{ra, rb}}, {{ra, rb}, {rb, rc}}}
MCVTPMenu == {sa, sb} \X {"lab"} \X {"server", "client"} \cup {<<sb, "", "server">>}
MCMatches == {{udp}, {icmp, udp}}
MCBGPMenu == {<<qa, 1, qb, 2>>, <<qa, 1, qa, 2>>, <<qa, 2, qb, 2>>,
              <<qb, 2, qa, 1>>, <<qb, 2, qa, 3>>}

ServicesInit ==
    /\ active \in {"hsrp", "wan", "cdp", "vtp", "bgp", "voip", "qos"}
    /\ Init /\ WanInit /\ CdpInit /\ VtpInit /\ BgpInit /\ VoipInit /\ QosInit
    /\ active # "cdp" => network = {{ra, rb}}

Only(name) ==
    /\ active = name /\ UNCHANGED active
    /\ name # "hsrp" => UNCHANGED hsrpVars
    /\ name # "wan" => UNCHANGED wanVars
    /\ name # "cdp" => UNCHANGED cdpVars
    /\ name # "vtp" => UNCHANGED vtpVars
    /\ name # "bgp" => UNCHANGED bgpVars
    /\ name # "voip" => UNCHANGED voipVars
    /\ name # "qos" => UNCHANGED qosVars

ServicesNext ==
    \/ Only("hsrp") /\ Next
    \/ Only("wan") /\ WanNext
    \/ Only("cdp") /\ CdpNext
    \/ Only("vtp") /\ VtpNext
    \/ Only("bgp") /\ BgpNext
    \/ Only("voip") /\ VoipNext
    \/ Only("qos") /\ QosNext

(* The loop handles every timer and every frame, and a connection ends the *)
(* command it has begun; what users do is never fair.                      *)
ServicesSpec ==
    /\ ServicesInit /\ [][ServicesNext]_allVars
    /\ WF_allVars(Only("hsrp") /\ HSRPTimer)
    /\ \A e \in Electors : WF_allVars(Only("hsrp") /\ RunHSRPElection(e))
    /\ WF_allVars(Only("cdp") /\ CDPLoop)
    /\ WF_allVars(Only("vtp") /\ VTPTimer)
    /\ \A p \in Propagators : WF_allVars(Only("vtp") /\ Propagation(p))
=============================================================================
