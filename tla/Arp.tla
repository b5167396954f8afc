-------------------------------- MODULE Arp --------------------------------
(***************************************************************************)
(* Address resolution of hosts and routers on one LAN (dataplane.go,       *)
(* host.go, router_forward.go).                                            *)
(*                                                                         *)
(* A packet is sent by a connection goroutine (a ping), or by the          *)
(* simulation loop (the answer to it): the cache is looked up; on a miss   *)
(* the packet is queued and then the address is asked for.  Each of the    *)
(* three takes the device's lock anew.  The loop delivers frames one by    *)
(* one; on a host an ARP reply fills the cache and then, under another     *)
(* lock, empties the queue; on a router both happen under one.             *)
(*                                                                         *)
(* A node stands for its address.  Time is left out: an entry may expire   *)
(* at any moment, and frames arrive in any order.                          *)
(***************************************************************************)
EXTENDS Naturals, FiniteSets

CONSTANTS
    Stations, Routers,  \* the nodes of the LAN
    Packets,
    Src, Dst,        \* Src[p], Dst[p]: sender and next hop of packet p
    Answer,          \* Answer[p]: the packet the loop sends when p arrives, or None
    Detachable,      \* nodes whose link the user removes and adds again
    None

Nodes == Stations \cup Routers

ASSUME ArpAssumption ==
    /\ Stations \cap Routers = {}
    /\ Src \in [Packets -> Nodes] /\ Dst \in [Packets -> Nodes]
    /\ \A p \in Packets : Src[p] # Dst[p]
    /\ Answer \in [Packets -> Packets \cup {None}]
    /\ None \notin Packets
    /\ Detachable \subseteq Nodes
    /\ \A p, q \in Packets : Answer[p] = Answer[q] /\ Answer[p] # None => p = q

Answers == {Answer[p] : p \in Packets} \ {None}

VARIABLES
    attached,   \* nodes whose link is in place
    ArpCache,   \* ArpCache[n]: addresses n has an entry for that is not expired
    PacketQueue,\* PacketQueue[n]: packets waiting at n, by next hop Dst[p]
    pc,         \* pc[p]: how far the call that sends p has come
    loop,       \* what the loop is at: idle, sending an answer, or emptying a queue
    lan,       \* frames on their way
    lost        \* history: packets that a frame about was dropped of

vars == <<attached, ArpCache, PacketQueue, pc, loop, lan, lost>>

LoopIdle == [at |-> "idle"]
Sending(p) == [at |-> "send", packet |-> p]
Draining(n, a) == [at |-> "drain", node |-> n, address |-> a]

(* The three kinds of frame; cause is the packet a question was asked for, *)
(* and to the node this copy goes to.                                      *)
Request(p, to) == [op |-> "request", cause |-> p, to |-> to]
Reply(p) == [op |-> "reply", cause |-> p, to |-> Src[p]]
Data(p) == [op |-> "data", cause |-> p, to |-> Dst[p]]

-----------------------------------------------------------------------------
Init ==
    /\ attached = Nodes
    /\ ArpCache = [n \in Nodes |-> {}]
    /\ PacketQueue = [n \in Nodes |-> {}]
    /\ pc = [p \in Packets |-> IF p \in Answers THEN "new" ELSE "lookup"]
    /\ loop = LoopIdle
    /\ lan = {}
    /\ lost = {}

(* forwardFromDevice: without a link the frame is dropped.                 *)
Forward(n, frames) == lan \cup (IF n \in attached THEN frames ELSE {})
Lose(n, packets) == lost' = lost \cup (IF n \in attached THEN {} ELSE packets)

(* The call that sends p takes its last step.                              *)
Return(p) ==
    /\ pc' = [pc EXCEPT ![p] = "done"]
    /\ loop' = IF loop = Sending(p) THEN LoopIdle ELSE loop

(* LookupARP, and the frame goes out or the packet must wait.              *)
Lookup(p) ==
    /\ pc[p] = "lookup"
    /\ IF Dst[p] \in ArpCache[Src[p]]
       THEN lan' = Forward(Src[p], {Data(p)}) /\ Lose(Src[p], {p}) /\ Return(p)
       ELSE pc' = [pc EXCEPT ![p] = "queue"] /\ UNCHANGED <<lan, lost, loop>>
    /\ UNCHANGED <<attached, ArpCache, PacketQueue>>

QueuePacket(p) ==
    /\ pc[p] = "queue"
    /\ PacketQueue' = [PacketQueue EXCEPT ![Src[p]] = @ \cup {p}]
    /\ pc' = [pc EXCEPT ![p] = "ask"]
    /\ UNCHANGED <<attached, ArpCache, loop, lan, lost>>

(* Mutant: no question when the address has become known meanwhile.        *)
MutAsk(p) ==
    /\ pc[p] = "ask"
    /\ lan' = IF Dst[p] \in ArpCache[Src[p]] THEN lan
               ELSE Forward(Src[p], {Request(p, n) : n \in Nodes \ {Src[p]}})
    /\ Lose(Src[p], {p})
    /\ Return(p)
    /\ UNCHANGED <<attached, ArpCache, PacketQueue>>

(* BuildARPRequest: a broadcast to all other nodes.                        *)
Ask(p) ==
    /\ pc[p] = "ask"
    /\ lan' = Forward(Src[p], {Request(p, n) : n \in Nodes \ {Src[p]}})
    /\ Lose(Src[p], {p})
    /\ Return(p)
    /\ UNCHANGED <<attached, ArpCache, PacketQueue>>

SendIP(p) == Lookup(p) \/ QueuePacket(p) \/ Ask(p)

LearnARP(n, a) == ArpCache' = [ArpCache EXCEPT ![n] = @ \cup {a}]

(* A question: everybody learns the sender, its target answers.            *)
HandleRequest(f) ==
    /\ loop = LoopIdle /\ f \in lan /\ f.op = "request"
    /\ LearnARP(f.to, Src[f.cause])
    /\ IF f.to = Dst[f.cause]
       THEN /\ lan' = (lan \ {f}) \cup (IF f.to \in attached THEN {Reply(f.cause)} ELSE {})
            /\ Lose(f.to, {f.cause})
       ELSE lan' = lan \ {f} /\ UNCHANGED lost
    /\ UNCHANGED <<attached, PacketQueue, pc, loop>>

Waiting(n, a) == {p \in PacketQueue[n] : Dst[p] = a}

(* Mutant: a released packet is not taken out of the queue.                *)
MutRelease(n, a, frames) ==
    /\ UNCHANGED PacketQueue
    /\ lan' = frames \cup (IF n \in attached THEN {Data(p) : p \in Waiting(n, a)} ELSE {})
    /\ Lose(n, Waiting(n, a))

(* The packets that waited for a leave n.                                  *)
Release(n, a, frames) ==
    /\ PacketQueue' = [PacketQueue EXCEPT ![n] = @ \ Waiting(n, a)]
    /\ lan' = frames \cup (IF n \in attached THEN {Data(p) : p \in Waiting(n, a)} ELSE {})
    /\ Lose(n, Waiting(n, a))

(* An answer reaches a host: LearnARP, then DequeuePackets by Drain.       *)
HandleReplyOnHost(f) ==
    /\ loop = LoopIdle /\ f \in lan /\ f.op = "reply" /\ f.to \in Stations
    /\ LearnARP(f.to, Dst[f.cause])
    /\ loop' = Draining(f.to, Dst[f.cause])
    /\ lan' = lan \ {f}
    /\ UNCHANGED <<attached, PacketQueue, pc, lost>>

(* DequeuePackets; every packet finds the entry by the same simTime.       *)
Drain ==
    /\ loop.at = "drain"
    /\ Release(loop.node, loop.address, lan)
    /\ loop' = LoopIdle
    /\ UNCHANGED <<attached, ArpCache, pc>>

(* An answer reaches a router: HandleIncomingArp does both under one lock. *)
HandleReplyOnRouter(f) ==
    /\ loop = LoopIdle /\ f \in lan /\ f.op = "reply" /\ f.to \in Routers
    /\ LearnARP(f.to, Dst[f.cause])
    /\ Release(f.to, Dst[f.cause], lan \ {f})
    /\ UNCHANGED <<attached, pc, loop>>

(* A packet arrives.  Sending the answer to it is the loop's next task.    *)
HandleData(f) ==
    /\ loop = LoopIdle /\ f \in lan /\ f.op = "data"
    /\ lan' = lan \ {f}
    /\ IF Answer[f.cause] # None
       THEN /\ loop' = Sending(Answer[f.cause])
            /\ pc' = [pc EXCEPT ![Answer[f.cause]] = "lookup"]
       ELSE UNCHANGED <<loop, pc>>
    /\ UNCHANGED <<attached, ArpCache, PacketQueue, lost>>

DeliverARP ==
    \E f \in lan : HandleRequest(f) \/ HandleReplyOnHost(f)
                    \/ HandleReplyOnRouter(f) \/ HandleData(f)

(* An entry is 20 minutes old.                                             *)
Expire(n, a) ==
    /\ a \in ArpCache[n]
    /\ ArpCache' = [ArpCache EXCEPT ![n] = @ \ {a}]
    /\ UNCHANGED <<attached, PacketQueue, pc, loop, lan, lost>>

(* RemoveLink and AddLink.  A frame already on its way to the node arrives *)
(* or is dropped at the switch.                                            *)
RemoveLink(n) ==
    /\ n \in attached
    /\ attached' = attached \ {n}
    /\ \E gone \in SUBSET {f \in lan : f.to = n} :
         /\ lan' = lan \ gone
         /\ lost' = lost \cup {f.cause : f \in {g \in gone : n \in {Src[g.cause], Dst[g.cause]}}}
    /\ UNCHANGED <<ArpCache, PacketQueue, pc, loop>>
AddLink(n) ==
    /\ n \notin attached
    /\ attached' = attached \cup {n}
    /\ UNCHANGED <<ArpCache, PacketQueue, pc, loop, lan, lost>>

Next ==
    \/ \E p \in Packets : SendIP(p)
    \/ DeliverARP \/ Drain
    \/ \E n, a \in Nodes : Expire(n, a)
    \/ \E n \in Detachable : RemoveLink(n) \/ AddLink(n)

Spec == Init /\ [][Next]_vars

(* The loop and the goroutines keep running, the scheduler serves every    *)
(* frame, and links that are removed come back.                            *)
FairSpec ==
    /\ Spec
    /\ \A p \in Packets : WF_vars(SendIP(p))
    /\ WF_vars(DeliverARP) /\ WF_vars(Drain)
    /\ \A n \in Detachable : WF_vars(AddLink(n))

-----------------------------------------------------------------------------
Frame == [op : {"request", "reply", "data"}, cause : Packets, to : Nodes]

TypeOK ==
    /\ attached \subseteq Nodes
    /\ ArpCache \in [Nodes -> SUBSET Nodes]
    /\ PacketQueue \in [Nodes -> SUBSET Packets]
    /\ \A n \in Nodes : \A p \in PacketQueue[n] : Src[p] = n
    /\ pc \in [Packets -> {"new", "lookup", "queue", "ask", "done"}]
    /\ loop \in {LoopIdle} \cup {Sending(p) : p \in Packets}
                \cup {Draining(n, a) : n, a \in Nodes}
    /\ lan \subseteq Frame
    /\ lost \subseteq Packets

(* Wherever the goroutines and the loop meet, a packet that waits has its  *)
(* question still to be asked, asked, or answered with the queue about to  *)
(* be emptied; a reply that comes between the lookup and QueuePacket       *)
(* strands nothing.  Only a frame dropped at a missing link does.          *)
Pending(p) ==
    \/ pc[p] = "ask"
    \/ Request(p, Dst[p]) \in lan
    \/ Reply(p) \in lan
    \/ loop = Draining(Src[p], Dst[p])
WaitingIsAsked == \A n \in Nodes : \A p \in PacketQueue[n] : Pending(p) \/ p \in lost

(* No packet is sent twice: it is with its sender, in a queue, or on the   *)
(* wire, and once it has arrived nowhere.                                *)
SentOnce ==
    \A p \in Packets :
        /\ p \in PacketQueue[Src[p]] => Data(p) \notin lan /\ pc[p] \in {"ask", "done"}
        /\ Data(p) \in lan => pc[p] \in {"ask", "done"}
        /\ Answer[p] # None /\ pc[Answer[p]] # "new" =>
             p \notin PacketQueue[Src[p]] /\ Data(p) \notin lan

(* The queues in short.                                                    *)
QueuesSound == TypeOK /\ WaitingIsAsked /\ SentOnce

(* Every packet gets out in the end, and with it every answer, unless the  *)
(* user's work on the cables made the network drop a frame.                *)
EveryPacketLeaves ==
    \A p \in Packets :
        <>(\/ pc[p] = "done" /\ p \notin PacketQueue[Src[p]] /\ Data(p) \notin lan
           \/ lost # {})
=============================================================================
