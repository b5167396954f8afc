-------------------------------- MODULE Voip --------------------------------
(***************************************************************************)
(* IP phones and call managers: voip.go, voip_signaling.go and             *)
(* voip_dataplane.go.                                                      *)
(*                                                                         *)
(* A command handles its message at the call manager directly and sends    *)
(* it over the wire as well, where the loop delivers it a second time.     *)
(* No command gives a phone an address, so all packets come from the empty *)
(* one, which every phone has, and no answer finds a way to a phone.       *)
(***************************************************************************)
EXTENDS Integers, FiniteSets

CONSTANT Phones

VARIABLES
    phones,         \* the phones that exist
    Registered,     \* those that are registered
    calls,          \* the state of each phone's last call
    phoneCmd,       \* the connection goroutine's command under way
    voipWire,       \* messages on their way to the call manager
    voipTimers,     \* TIMER_VOIP events: the calls whose ACK is to be sent
    crashed         \* the process has ended

voipVars == <<phones, Registered, calls, phoneCmd, voipWire, voipTimers, crashed>>

NoCmd == [op |-> "none"]

VoipInit ==
    /\ phones = Phones
    /\ Registered = {}
    /\ calls = <<>>
    /\ phoneCmd = NoCmd
    /\ voipWire = {}
    /\ voipTimers = {}
    /\ crashed = FALSE

SetCall(id, state) ==
    calls' = [i \in DOMAIN calls \cup {id} |-> IF i = id THEN state ELSE calls[i]]

(* SendSIPOnWire, SendSCCPOnWire: lost unless routes and cables lead to    *)
(* the call manager.                                                       *)
OnWire(msg) == voipWire' \in {voipWire, voipWire \cup {msg}}

(* SendSCCPRegister: first the wire, then the call manager directly.       *)
SCCP_REGISTER(p) ==
    /\ phoneCmd = NoCmd /\ p \in phones
    /\ OnWire([type |-> "REGISTER", phone |-> p])
    /\ phoneCmd' = [op |-> "register", phone |-> p]
    /\ UNCHANGED <<phones, Registered, calls, voipTimers, crashed>>

(* HandleSCCP, case SCCPRegister, with the phone that was looked up: the   *)
(* phone is dereferenced whether one was found or not.                     *)
HandleSCCP(found) ==
    IF found = {} THEN crashed' = TRUE /\ UNCHANGED Registered
    ELSE /\ \E p \in found : Registered' = Registered \cup ({p} \cap phones)
         /\ UNCHANGED crashed

FinishRegister ==
    /\ phoneCmd.op = "register"
    /\ HandleSCCP({phoneCmd.phone})
    /\ phoneCmd' = NoCmd
    /\ UNCHANGED <<phones, calls, voipWire, voipTimers>>

(* InitiateSIPCall: HandleSIP creates the call; an earlier one of the      *)
(* phone plays no part in it.                                              *)
SIP_CALL(p) ==
    /\ phoneCmd = NoCmd /\ p \in phones \cap Registered
    /\ SetCall(p, "ringing")
    /\ phoneCmd' = [op |-> "invite", call |-> p]
    /\ UNCHANGED <<phones, Registered, voipWire, voipTimers, crashed>>

FinishInvite ==
    /\ phoneCmd.op = "invite"
    /\ OnWire([type |-> "INVITE", call |-> phoneCmd.call])
    /\ phoneCmd' = NoCmd
    /\ UNCHANGED <<phones, Registered, calls, voipTimers, crashed>>

(* Mutant: a phone without an address is not found.                        *)
MutFindPhone == {}
(* findPhoneByIP for the empty address: the first phone in map order.      *)
FindPhone == phones

(* handleVoIPAtCallManager for an SCCP registration.                       *)
DeliverSCCP(msg) ==
    /\ msg \in voipWire /\ msg.type = "REGISTER"
    /\ voipWire' = voipWire \ {msg}
    /\ HandleSCCP(FindPhone)
    /\ UNCHANGED <<phones, calls, phoneCmd, voipTimers>>

(* For an INVITE: the call is created again, and its ACK scheduled.        *)
DeliverInvite(msg) ==
    /\ msg \in voipWire /\ msg.type = "INVITE"
    /\ voipWire' = voipWire \ {msg}
    /\ SetCall(msg.call, "ringing")
    /\ voipTimers' = voipTimers \cup {msg.call}
    /\ UNCHANGED <<phones, Registered, phoneCmd, crashed>>

(* HandleSimulationEvent and handleVoIPTimer, for an ACK.                  *)
HandleSimulationEvent(call) ==
    IF phones # {} THEN SetCall(call, "connected") ELSE UNCHANGED calls

(* Mutant: the loop hands every event to the data plane.                   *)
MutDispatch(call) == HandleSimulationEvent(call)
(* The loop's switch has no case for TIMER_VOIP: the event is dropped.     *)
Dispatch(call) == UNCHANGED calls

StepVoIPTimer(call) ==
    /\ call \in voipTimers
    /\ voipTimers' = voipTimers \ {call}
    /\ Dispatch(call)
    /\ UNCHANGED <<phones, Registered, phoneCmd, voipWire, crashed>>

(* A registration under way keeps a phone that is no longer in the map.    *)
Detach(p) ==
    phoneCmd' = IF phoneCmd = [op |-> "register", phone |-> p]
                THEN [op |-> "register", phone |-> "detached"] ELSE phoneCmd

(* RemoveDevice, and ADD_VOIP_PHONE, whose phone is a new one.             *)
RemovePhone(p) ==
    /\ p \in phones
    /\ phones' = phones \ {p} /\ Registered' = Registered \ {p}
    /\ Detach(p)
    /\ UNCHANGED <<calls, voipWire, voipTimers, crashed>>

ADD_VOIP_PHONE(p) ==
    /\ phones' = phones \cup {p} /\ Registered' = Registered \ {p}
    /\ Detach(p)
    /\ UNCHANGED <<calls, voipWire, voipTimers, crashed>>

(* The process has ended.                                                  *)
Ended == crashed /\ UNCHANGED voipVars

VoipNext ==
  \/ Ended
  \/ /\ ~crashed
     /\ \/ \E p \in Phones : SCCP_REGISTER(p) \/ SIP_CALL(p) \/ RemovePhone(p) \/ ADD_VOIP_PHONE(p)
        \/ FinishRegister
        \/ FinishInvite
        \/ \E msg \in voipWire : DeliverSCCP(msg) \/ DeliverInvite(msg)
        \/ \E call \in voipTimers : StepVoIPTimer(call)

VoipSpec == VoipInit /\ [][VoipNext]_voipVars

-----------------------------------------------------------------------------
(* No call is ever answered: what would connect it is a timer event that   *)
(* the loop drops, and an answer that has no address to go to.             *)
CallsOnlyRing == \A id \in DOMAIN calls : calls[id] = "ringing"

(* A registration that arrives over the wire ends the process when, and    *)
(* only when, the last phone was removed while it was on its way.          *)
CrashesWithoutPhones == crashed => phones = {}

(* Calls in short: no answer, and one way only to end the process.         *)
CallsSound == CallsOnlyRing /\ CrashesWithoutPhones
=============================================================================
