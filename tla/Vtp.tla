-------------------------------- MODULE Vtp --------------------------------
(***************************************************************************)
(* The VLAN Trunking Protocol: vtp.go, and the commands that change what   *)
(* it distributes (cli/commands.go, lab_manager.go).                       *)
(*                                                                         *)
(* PropagateVTP runs in the loop, by TIMER_VTP, and in the connection      *)
(* goroutine that configures.  It picks a server of the domain, the last   *)
(* in map order; for each client it then copies the server's database      *)
(* under the server's lock and merges it under the client's.               *)
(***************************************************************************)
EXTENDS Integers, FiniteSets

CONSTANTS
    VTPSwitches, VLANIDs,
    VTPMenu,        \* the <<switch, domain, mode>> that users configure
    NoDomain,       \* the empty domain
    MaxNames        \* bound: calls of SetVLANName

Modes == {"off", "server", "client", "transparent"}

ASSUME VtpAssumption ==
    /\ MaxNames \in Nat
    /\ \A m \in VTPMenu : m[1] \in VTPSwitches /\ m[3] \in Modes

Propagators == {"loop", "connection"}
Resting == [step |-> "idle"]

VARIABLES
    VTP,        \* VTP[s]: domain, mode and revision of switch s
    VLANs,      \* VLANs[s]: the VLANs in its database
    VLANNames,  \* VLANNames[s]: those it has a name for
    prop,       \* prop[p]: where propagation p is
    names,      \* calls of SetVLANName so far
    authors,    \* history: switches that raised their own revision
    published   \* history: VLANs named by a server, with its revision then

vtpVars == <<VTP, VLANs, VLANNames, prop, names, authors, published>>

VtpInit ==
    /\ VTP = [s \in VTPSwitches |-> [domain |-> NoDomain, mode |-> "off", revision |-> 0]]
    /\ VLANs = [s \in VTPSwitches |-> {}]
    /\ VLANNames = [s \in VTPSwitches |-> {}]
    /\ prop = [p \in Propagators |-> Resting]
    /\ names = 0 /\ authors = {} /\ published = {}

IsServer(s) == VTP[s].mode = "server" /\ VTP[s].domain # NoDomain
IsClientOf(c, s) == VTP[c].mode = "client" /\ VTP[c].domain = VTP[s].domain

(* The list of switches and the servers map: the domain's server is any    *)
(* of its servers.                                                         *)
Begin(p) ==
    prop' \in {[prop EXCEPT ![p] = [step |-> "read", server |-> s, todo |-> VTPSwitches]] :
                   s \in {t \in VTPSwitches : IsServer(t)}}
NoServer == \A s \in VTPSwitches : ~IsServer(s)
PropagateVTP(p) == IF NoServer THEN UNCHANGED prop ELSE Begin(p)

VTPTimer ==
    /\ prop["loop"] = Resting /\ PropagateVTP("loop")
    /\ UNCHANGED <<VTP, VLANs, VLANNames, names, authors, published>>

ConfigureVTP(s, domain, mode) ==
    /\ prop["connection"] = Resting
    /\ VTP' = [VTP EXCEPT ![s] = [domain |-> domain, mode |-> mode, revision |-> @.revision]]
    /\ prop' = [prop EXCEPT !["connection"] = [step |-> "start"]]
    /\ UNCHANGED <<VLANs, VLANNames, names, authors, published>>

CreateVLAN(s, v) ==
    /\ prop["connection"] = Resting
    /\ VLANs' = [VLANs EXCEPT ![s] = @ \cup {v}]
    /\ UNCHANGED <<VTP, VLANNames, prop, names, authors, published>>

(* Mutant: the revision is raised first, the name follows without it.      *)
MutSetVLANName(s, v) ==
    /\ prop["connection"] = Resting /\ names < MaxNames
    /\ names' = names + 1
    /\ VLANs' = [VLANs EXCEPT ![s] = @ \cup {v}]
    /\ VLANNames' = [VLANNames EXCEPT ![s] = @ \cup {v}]
    /\ published' = IF VTP[s].mode = "server"
                    THEN published \cup {<<v, VTP[s].revision>>} ELSE published
    /\ authors' = IF VTP[s].mode = "server" THEN authors \cup {s} ELSE authors
    /\ prop' = [prop EXCEPT !["connection"] = [step |-> "start"]]
    /\ UNCHANGED VTP

(* SetVLANName: a server's revision is raised with the name.               *)
SetVLANName(s, v) ==
    /\ prop["connection"] = Resting /\ names < MaxNames
    /\ names' = names + 1
    /\ VLANs' = [VLANs EXCEPT ![s] = @ \cup {v}]
    /\ VLANNames' = [VLANNames EXCEPT ![s] = @ \cup {v}]
    /\ IF VTP[s].mode = "server"
       THEN /\ VTP' = [VTP EXCEPT ![s].revision = @ + 1]
            /\ authors' = authors \cup {s}
            /\ published' = published \cup {<<v, VTP[s].revision + 1>>}
       ELSE UNCHANGED <<VTP, authors, published>>
    /\ prop' = [prop EXCEPT !["connection"] = [step |-> "start"]]

StartPropagation ==
    /\ prop["connection"].step = "start"
    /\ IF NoServer THEN prop' = [prop EXCEPT !["connection"] = Resting] ELSE Begin("connection")
    /\ UNCHANGED <<VTP, VLANs, VLANNames, names, authors, published>>

(* Mutant: the propagation ends with the first switch.                     *)
MutDone(p, c) == Resting
(* The propagation is through with switch c.                               *)
Done(p, c) ==
    LET rest == prop[p].todo \ {c} IN
    IF rest = {} THEN Resting
    ELSE [step |-> "read", server |-> prop[p].server, todo |-> rest]

(* A switch's turn; a client's copy of the server is taken under the       *)
(* server's lock.                                                          *)
ReadServer(p, c) ==
    /\ prop[p].step = "read" /\ c \in prop[p].todo
    /\ LET s == prop[p].server IN
         prop' = [prop EXCEPT ![p] =
            IF IsClientOf(c, s)
            THEN [step |-> "write", server |-> s, todo |-> prop[p].todo, client |-> c,
                  vlans |-> VLANs[s], names |-> VLANNames[s], revision |-> VTP[s].revision]
            ELSE Done(p, c)]
    /\ UNCHANGED <<VTP, VLANs, VLANNames, names, authors, published>>

(* Mutant: the revisions are not compared again under the lock.            *)
MutIsNewer(p) == TRUE
IsNewer(p) == prop[p].revision > VTP[prop[p].client].revision

(* syncVTPFromServer under the client's lock, whatever it has become.      *)
WriteClient(p) ==
    /\ prop[p].step = "write"
    /\ LET c == prop[p].client IN
         /\ IF IsNewer(p)
            THEN /\ VLANs' = [VLANs EXCEPT ![c] = @ \cup prop[p].vlans]
                 /\ VLANNames' = [VLANNames EXCEPT ![c] = @ \cup prop[p].names]
                 /\ VTP' = [VTP EXCEPT ![c].revision = prop[p].revision]
            ELSE UNCHANGED <<VTP, VLANs, VLANNames>>
         /\ prop' = [prop EXCEPT ![p] = Done(p, c)]
    /\ UNCHANGED <<names, authors, published>>

Propagation(p) ==
    \/ \E c \in VTPSwitches : ReadServer(p, c)
    \/ WriteClient(p)

VtpNext ==
    \/ VTPTimer
    \/ StartPropagation
    \/ \E p \in Propagators : Propagation(p)
    \/ \E m \in VTPMenu : ConfigureVTP(m[1], m[2], m[3])
    \/ \E s \in VTPSwitches, v \in VLANIDs : CreateVLAN(s, v) \/ SetVLANName(s, v)

VtpSpec == VtpInit /\ [][VtpNext]_vtpVars

-----------------------------------------------------------------------------
VtpTypeOK ==
    /\ \A s \in VTPSwitches :
         /\ VTP[s].revision \in 0..names /\ VTP[s].mode \in Modes
         /\ VLANNames[s] \subseteq VLANs[s] /\ VLANs[s] \subseteq VLANIDs
    /\ \A p \in Propagators : prop[p].step \in {"idle", "start", "read", "write"}

(* A switch never goes back to an older database, also when two            *)
(* propagations overlap or it becomes a server between the copy of its     *)
(* server and the merge.                                                   *)
RevisionsGrow == [][\A s \in VTPSwitches : VTP'[s].revision >= VTP[s].revision]_vtpVars

(* With one author, a revision says what is in the database: a switch has  *)
(* every name that was given up to the revision it has.                    *)
RevisionTellsNames ==
    Cardinality(authors) <= 1 =>
        \A s \in VTPSwitches, n \in published :
            n[2] <= VTP[s].revision => n[1] \in VLANNames[s]

(* What databases say, and how they change.                                *)
DatabasesTruthful == VtpTypeOK /\ RevisionTellsNames
DatabasesGrow == []DatabasesTruthful /\ RevisionsGrow

OnlyServer(s) == {t \in VTPSwitches : IsServer(t)} = {s}

(* A client of the one server of its domain gets at least its revision,    *)
(* whatever it was before.                                                 *)
ClientsCatchUp ==
    \A s \in VTPSwitches : \A c \in VTPSwitches \ {s} :
        (OnlyServer(s) /\ IsClientOf(c, s)) ~>
            (VTP[c].revision >= VTP[s].revision \/ ~(OnlyServer(s) /\ IsClientOf(c, s)))
=============================================================================
