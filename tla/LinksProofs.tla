---------------------------- MODULE LinksProofs ----------------------------
(* Proofs about what runs at one link or port: the ARP of the nodes of a   *)
(* LAN, switches, the PPP of a serial link, the calls of phones, and the   *)
(* policer of an interface, in this order.                                 *)
EXTENDS Arp, Switch, Wan, Voip, Qos, FiniteSetTheorems, SequenceTheorems, TLAPS

-----------------------------------------------------------------------------
(* ARP: types, that no packet is sent twice, and that none waits without   *)
(* its question pending unless a frame about it was dropped, for any       *)
(* nodes, packets and answers. The latter needs that frames are what       *)
(* TypeOK says, and that the loop finishes one answer before it handles    *)
(* the next frame; the former that data is addressed to its next hop, and  *)
(* that a packet whose answer was begun had left its sender.               *)

(* A frame is determined by its operation, its cause and its target.       *)
LEMMA FrameFields ==
    ASSUME NEW f \in Frame, NEW p \in Packets, NEW n \in Nodes
    PROVE  /\ f = Request(p, n) <=> f.op = "request" /\ f.cause = p /\ f.to = n
           /\ f = Reply(p) <=> f.op = "reply" /\ f.cause = p /\ f.to = Src[p]
           /\ f = Data(p) <=> f.op = "data" /\ f.cause = p /\ f.to = Dst[p]
  BY DEF Frame, Request, Reply, Data

LEMMA FrameTypes ==
    ASSUME NEW p \in Packets, NEW n \in Nodes
    PROVE  Request(p, n) \in Frame /\ Reply(p) \in Frame /\ Data(p) \in Frame
  BY ArpAssumption DEF Frame, Request, Reply, Data

(* What the loop does is one of three things, told apart by at.            *)
LEMMA LoopKinds ==
    ASSUME TypeOK
    PROVE  /\ loop = LoopIdle \/ (\E p \in Packets : loop = Sending(p))
                          \/ (\E n, a \in Nodes : loop = Draining(n, a))
           /\ \A p \in Packets, n, a \in Nodes :
                LoopIdle # Sending(p) /\ LoopIdle # Draining(n, a) /\ Sending(p) # Draining(n, a)
           /\ loop.at = "drain" =>
                loop.node \in Nodes /\ loop.address \in Nodes
                /\ loop = Draining(loop.node, loop.address)
  BY DEF TypeOK, LoopIdle, Sending, Draining

(* The steps of the simulation loop and of the goroutines keep the types.  *)
LEMMA TypesKept ==
    ASSUME TypeOK, [Next]_vars
    PROVE  TypeOK'
<1> USE ArpAssumption
<1>1. ASSUME NEW p \in Packets, Lookup(p) PROVE TypeOK'
  BY <1>1, FrameTypes DEF Lookup, Forward, Lose, Return, TypeOK
<1>2. ASSUME NEW p \in Packets, QueuePacket(p) PROVE TypeOK'
  BY <1>2 DEF QueuePacket, TypeOK
<1>3. ASSUME NEW p \in Packets, Ask(p) PROVE TypeOK'
  <2>1. lan' \subseteq Frame
    BY <1>3, FrameTypes DEF Ask, Forward, TypeOK
  <2> QED BY <1>3, <2>1 DEF Ask, Lose, Return, TypeOK
<1>4. ASSUME NEW f \in lan, HandleRequest(f) PROVE TypeOK'
  <2>1. f \in Frame /\ f.cause \in Packets /\ f.to \in Nodes
    BY DEF TypeOK, Frame
  <2>2. lan' \subseteq Frame
    BY <1>4, <2>1, FrameTypes DEF HandleRequest, TypeOK
  <2>3. ArpCache' \in [Nodes -> SUBSET Nodes]
    BY <1>4, <2>1 DEF HandleRequest, LearnARP, TypeOK
  <2> QED BY <1>4, <2>1, <2>2, <2>3 DEF HandleRequest, Lose, TypeOK
<1>5. ASSUME NEW f \in lan, HandleReplyOnHost(f) PROVE TypeOK'
  BY <1>5 DEF HandleReplyOnHost, LearnARP, TypeOK, Frame
<1>6. ASSUME NEW f \in lan, HandleReplyOnRouter(f) PROVE TypeOK'
  <2>1. f \in Frame /\ f.cause \in Packets /\ f.to \in Nodes
    BY DEF TypeOK, Frame
  <2>2. lan' \subseteq Frame
    BY <1>6, <2>1, FrameTypes DEF HandleReplyOnRouter, Release, Waiting, TypeOK
  <2>3. ArpCache' \in [Nodes -> SUBSET Nodes]
    BY <1>6, <2>1 DEF HandleReplyOnRouter, LearnARP, TypeOK
  <2>4. /\ PacketQueue' \in [Nodes -> SUBSET Packets]
        /\ \A n \in Nodes : \A p \in PacketQueue'[n] : Src[p] = n
    BY <1>6, <2>1 DEF HandleReplyOnRouter, Release, Waiting, TypeOK
  <2>5. lost' \subseteq Packets
    BY <1>6, <2>1 DEF HandleReplyOnRouter, Release, Waiting, Lose, TypeOK
  <2> QED BY <1>6, <2>2, <2>3, <2>4, <2>5 DEF HandleReplyOnRouter, TypeOK
<1>7. ASSUME NEW f \in lan, HandleData(f) PROVE TypeOK'
  BY <1>7 DEF HandleData, TypeOK, Frame
<1>8. ASSUME Drain PROVE TypeOK'
  BY <1>8, LoopKinds, FrameTypes DEF Drain, Release, Waiting, Lose, TypeOK
<1>9. ASSUME NEW n \in Nodes, NEW a \in Nodes, Expire(n, a) PROVE TypeOK'
  BY <1>9 DEF Expire, TypeOK
<1>10. ASSUME NEW n \in Detachable, RemoveLink(n) \/ AddLink(n) PROVE TypeOK'
  BY <1>10 DEF RemoveLink, AddLink, TypeOK, Frame
<1>11. CASE UNCHANGED vars
  BY <1>11 DEF vars, TypeOK
<1> QED
  BY <1>1, <1>2, <1>3, <1>4, <1>5, <1>6, <1>7, <1>8, <1>9, <1>10, <1>11
     DEF Next, SendIP, DeliverARP

(* While an answer is being sent the loop is busy with it, so an arriving  *)
(* packet never restarts a call that is under way.                         *)
LoopBusy == \A p \in Answers : pc[p] \in {"lookup", "queue", "ask"} => loop = Sending(p)

LEMMA LoopBusyKept ==
    ASSUME TypeOK, LoopBusy, [Next]_vars
    PROVE  LoopBusy'
<1> USE ArpAssumption
<1> SUFFICES ASSUME NEW p \in Answers, pc'[p] \in {"lookup", "queue", "ask"}
             PROVE  loop' = Sending(p)
  BY DEF LoopBusy
<1>0. p \in Packets /\ \A q \in Packets : Sending(q) = Sending(p) => q = p
  BY DEF Answers, Sending
<1>1. pc[p] \in {"lookup", "queue", "ask"} => loop = Sending(p)
  BY DEF LoopBusy
<1>2. ASSUME NEW q \in Packets, SendIP(q) PROVE loop' = Sending(p)
  BY <1>0, <1>1, <1>2 DEF SendIP, Lookup, QueuePacket, Ask, Return, TypeOK
<1>3. ASSUME NEW f \in lan, HandleData(f) PROVE loop' = Sending(p)
  <2>1. loop # Sending(p)
    BY <1>0, <1>3, LoopKinds DEF HandleData, LoopIdle, Sending
  <2> QED BY <1>0, <1>1, <1>3, <2>1 DEF HandleData, TypeOK
<1>4. ASSUME NEW f \in lan, HandleReplyOnHost(f) PROVE loop' = Sending(p)
  BY <1>0, <1>1, <1>4 DEF HandleReplyOnHost, LoopIdle, Sending
<1>5. ASSUME Drain PROVE loop' = Sending(p)
  BY <1>0, <1>1, <1>5 DEF Drain, Sending
<1>6. CASE UNCHANGED <<pc, loop>>
  BY <1>1, <1>6
<1>7. ASSUME NEW f \in lan, HandleRequest(f) \/ HandleReplyOnRouter(f)
      PROVE  UNCHANGED <<pc, loop>>
  BY <1>7 DEF HandleRequest, HandleReplyOnRouter
<1>8. ASSUME NEW n \in Nodes, NEW a \in Nodes, Expire(n, a) PROVE UNCHANGED <<pc, loop>>
  BY <1>8 DEF Expire
<1>9. ASSUME NEW n \in Detachable, RemoveLink(n) \/ AddLink(n) PROVE UNCHANGED <<pc, loop>>
  BY <1>9 DEF RemoveLink, AddLink
<1>10. UNCHANGED vars => UNCHANGED <<pc, loop>>
  BY DEF vars
<1> QED
  BY <1>2, <1>3, <1>4, <1>5, <1>6, <1>7, <1>8, <1>9, <1>10 DEF Next, DeliverARP

(* The inductive invariant of NothingStranded.                             *)
IInv == TypeOK /\ LoopBusy /\ WaitingIsAsked

(* A dropped frame is never forgotten.                                     *)
LEMMA LostGrows == [Next]_vars => lost \subseteq lost'
  BY DEF Next, SendIP, DeliverARP, Lookup, QueuePacket, Ask, HandleRequest,
         HandleReplyOnHost, HandleReplyOnRouter, HandleData, Drain, Release,
         Lose, Expire, RemoveLink, AddLink, vars

(* A packet that was waiting and pending, and still waits, is still        *)
(* pending, or a frame about it is dropped in this step; a new one is      *)
(* about to be asked for.                                                  *)
LEMMA PendingKept ==
    ASSUME IInv, Next
    PROVE  WaitingIsAsked'
<1> USE ArpAssumption
<1> SUFFICES ASSUME NEW n \in Nodes, NEW p \in PacketQueue'[n], p \notin lost'
             PROVE  Pending(p)'
  BY DEF WaitingIsAsked
<1>0. TypeOK'
  BY TypesKept DEF IInv
<1>1. p \in Packets /\ n = Src[p]
  BY <1>0 DEF TypeOK
<1>2. p \in PacketQueue[n] => Pending(p)
  BY LostGrows DEF IInv, WaitingIsAsked
<1>3. ASSUME NEW q \in Packets, Lookup(q) PROVE Pending(p)'
  <2>1. p \in PacketQueue[n] /\ lan \subseteq lan' /\ (loop' = loop \/ loop = Sending(q))
        /\ (pc[p] = "ask" => pc'[p] = "ask")
    BY <1>1, <1>3 DEF Lookup, Forward, Return, IInv, TypeOK
  <2> QED BY <1>1, <1>2, <2>1, LoopKinds DEF Pending, IInv
<1>4. ASSUME NEW q \in Packets, QueuePacket(q) PROVE Pending(p)'
  <2>1. p = q \/ p \in PacketQueue[n]
    BY <1>1, <1>4 DEF QueuePacket, IInv, TypeOK
  <2>2. CASE p = q
    BY <1>4, <2>2 DEF QueuePacket, Pending, IInv, TypeOK
  <2>3. CASE p \in PacketQueue[n]
    BY <1>1, <1>2, <1>4, <2>3 DEF QueuePacket, Pending, IInv, TypeOK
  <2> QED BY <2>1, <2>2, <2>3
<1>5. ASSUME NEW q \in Packets, Ask(q) PROVE Pending(p)'
  <2>1. p \in PacketQueue[n] /\ lan \subseteq lan' /\ (loop' = loop \/ loop = Sending(q))
        /\ (p # q /\ pc[p] = "ask" => pc'[p] = "ask")
    BY <1>1, <1>5 DEF Ask, Forward, Return, IInv, TypeOK
  <2>2. CASE p = q
    <3>1. Request(p, Dst[p]) \in lan'
      BY <1>1, <1>5, <2>2 DEF Ask, Forward, Lose, IInv
    <3> QED BY <3>1 DEF Pending
  <2>3. CASE p # q
    BY <1>1, <1>2, <2>1, <2>3, LoopKinds DEF Pending, IInv
  <2> QED BY <2>2, <2>3
<1>6. ASSUME NEW f \in lan, HandleRequest(f) PROVE Pending(p)'
  <2>1. f \in Frame /\ f.cause \in Packets /\ f.op = "request" /\ f.to \in Nodes
    BY <1>6 DEF HandleRequest, IInv, TypeOK, Frame
  <2>2. p \in PacketQueue[n] /\ pc' = pc /\ loop' = loop /\ lan \ {f} \subseteq lan'
    BY <1>6 DEF HandleRequest
  <2>3. Reply(p) # f /\ Dst[p] \in Nodes
    BY <1>1, <2>1, FrameFields
  <2>4. CASE f = Request(p, Dst[p])
    <3>1. f.cause = p /\ f.to = Dst[p]
      BY <1>1, <2>1, <2>3, <2>4, FrameFields
    <3>2. Reply(p) \in lan'
      BY <1>6, <2>3, <3>1 DEF HandleRequest, Lose, IInv
    <3> QED BY <3>2 DEF Pending
  <2>5. CASE f # Request(p, Dst[p])
    BY <1>2, <2>2, <2>3, <2>5 DEF Pending
  <2> QED BY <2>4, <2>5
<1>7. ASSUME NEW f \in lan, HandleReplyOnHost(f) PROVE Pending(p)'
  <2>1. f \in Frame /\ f.cause \in Packets /\ f.op = "reply" /\ loop = LoopIdle
    BY <1>7 DEF HandleReplyOnHost, IInv, TypeOK, Frame
  <2>2. /\ p \in PacketQueue[n] /\ pc' = pc /\ lan' = lan \ {f}
        /\ loop' = Draining(f.to, Dst[f.cause])
    BY <1>7 DEF HandleReplyOnHost
  <2>3. Request(p, Dst[p]) # f /\ Dst[p] \in Nodes /\ Src[p] \in Nodes
    BY <1>1, <2>1, FrameFields
  <2>4. CASE f = Reply(p)
    <3>1. f.to = Src[p] /\ f.cause = p
      BY <1>1, <2>1, <2>3, <2>4, FrameFields
    <3> QED BY <2>2, <3>1 DEF Pending
  <2>5. CASE f # Reply(p)
    BY <1>2, <2>1, <2>2, <2>3, <2>5, LoopKinds DEF Pending, IInv
  <2> QED BY <2>4, <2>5
<1>8. ASSUME NEW f \in lan, HandleReplyOnRouter(f) PROVE Pending(p)'
  <2>1. f \in Frame /\ f.cause \in Packets /\ f.op = "reply" /\ f.to \in Nodes
    BY <1>8 DEF HandleReplyOnRouter, IInv, TypeOK, Frame
  <2>2. /\ p \in PacketQueue[n] /\ pc' = pc /\ loop' = loop /\ lan \ {f} \subseteq lan'
        /\ n = f.to => Dst[p] # Dst[f.cause]
    BY <1>8, <2>1 DEF HandleReplyOnRouter, Release, Waiting, IInv, TypeOK
  <2>3. Request(p, Dst[p]) # f
    BY <1>1, <2>1, FrameFields
  <2>4. f # Reply(p)
    BY <1>1, <2>1, <2>2, FrameFields
  <2> QED BY <1>2, <2>2, <2>3, <2>4 DEF Pending
<1>9. ASSUME NEW f \in lan, HandleData(f) PROVE Pending(p)'
  <2>1. f \in Frame /\ f.cause \in Packets /\ f.op = "data" /\ loop = LoopIdle
    BY <1>9 DEF HandleData, IInv, TypeOK, Frame
  <2>2. Request(p, Dst[p]) # f /\ Reply(p) # f /\ Dst[p] \in Nodes /\ Src[p] \in Nodes
    BY <1>1, <2>1, FrameFields
  <2>3. p \in PacketQueue[n] /\ lan' = lan \ {f}
    BY <1>9 DEF HandleData
  <2>4. loop # Draining(Src[p], Dst[p])
    BY <2>1, <2>2, <1>1, LoopKinds DEF IInv
  <2>5. pc[p] = "ask" => pc'[p] = "ask"
    <3>1. CASE p \in Answers
      BY <1>1, <2>1, <3>1, LoopKinds DEF IInv, LoopBusy
    <3>2. CASE p \notin Answers
      BY <1>1, <1>9, <2>1, <3>2 DEF HandleData, Answers, IInv, TypeOK
    <3> QED BY <3>1, <3>2
  <2> QED BY <1>2, <2>2, <2>3, <2>4, <2>5 DEF Pending
<1>10. ASSUME Drain PROVE Pending(p)'
  <2>1. /\ p \in PacketQueue[n] /\ pc' = pc /\ lan \subseteq lan'
        /\ n = loop.node => Dst[p] # loop.address
    BY <1>10, LoopKinds DEF Drain, Release, Waiting, IInv, TypeOK
  <2>2. loop # Draining(Src[p], Dst[p])
    BY <1>1, <2>1 DEF Draining
  <2> QED BY <1>2, <2>1, <2>2 DEF Pending
<1>11. ASSUME NEW m \in Nodes, NEW a \in Nodes, Expire(m, a) PROVE Pending(p)'
  BY <1>2, <1>11 DEF Expire, Pending
<1>12. ASSUME NEW m \in Detachable, RemoveLink(m) PROVE Pending(p)'
  <2>1. PICK gone \in SUBSET {f \in lan : f.to = m} :
          /\ lan' = lan \ gone
          /\ lost' = lost \cup {f.cause : f \in {g \in gone : m \in {Src[g.cause], Dst[g.cause]}}}
    BY <1>12 DEF RemoveLink
  <2>2. p \in PacketQueue[n] /\ pc' = pc /\ loop' = loop
    BY <1>12 DEF RemoveLink
  <2>3. Request(p, Dst[p]) \notin gone
    BY <1>1, <2>1 DEF Request
  <2>4. Reply(p) \notin gone
    BY <1>1, <2>1 DEF Reply
  <2> QED BY <1>2, <2>1, <2>2, <2>3, <2>4 DEF Pending
<1>13. ASSUME NEW m \in Detachable, AddLink(m) PROVE Pending(p)'
  BY <1>2, <1>13 DEF AddLink, Pending
<1> QED
  BY <1>3, <1>4, <1>5, <1>6, <1>7, <1>8, <1>9, <1>10, <1>11, <1>12, <1>13
     DEF Next, SendIP, DeliverARP

(* Type correctness: caches, queues and frames are of the nodes and        *)
(* packets there are, and a packet waits only at its own sender.           *)
THEOREM TypeCorrect == Spec => []TypeOK
<1>1. Init => TypeOK
  BY ArpAssumption DEF Init, TypeOK, Nodes
<1> QED BY <1>1, TypesKept, PTL DEF Spec

(* Every packet that waits for an address has its question pending, for    *)
(* any interleaving of lookups, replies, expiring entries and work on the  *)
(* cables, on any number of hosts and routers, unless a frame about it was *)
(* dropped at a missing link.                                              *)
THEOREM NothingStranded == Spec => []WaitingIsAsked
<1>1. Init => IInv
  <2> SUFFICES ASSUME Init PROVE IInv
    OBVIOUS
  <2>1. TypeOK
    BY ArpAssumption DEF Init, TypeOK, Nodes
  <2>2. LoopBusy
    BY ArpAssumption DEF Init, LoopBusy, Answers
  <2>3. WaitingIsAsked
    BY DEF Init, WaitingIsAsked
  <2> QED BY <2>1, <2>2, <2>3 DEF IInv
<1>2. IInv /\ [Next]_vars => IInv'
  <2> SUFFICES ASSUME IInv, [Next]_vars PROVE IInv'
    OBVIOUS
  <2>1. TypeOK' /\ LoopBusy'
    BY TypesKept, LoopBusyKept DEF IInv
  <2>2. CASE Next
    BY <2>1, <2>2, PendingKept DEF IInv
  <2>3. CASE UNCHANGED vars
    BY <2>1, <2>3 DEF vars, IInv, WaitingIsAsked, Pending
  <2> QED BY <2>2, <2>3
<1>3. IInv => WaitingIsAsked
  BY DEF IInv
<1> QED BY <1>1, <1>2, <1>3, PTL DEF Spec

(* --- No packet is sent twice ------------------------------------------------ *)
(* A packet whose answer was begun had left its sender.                    *)
Once(p) ==
    /\ p \in PacketQueue[Src[p]] => Data(p) \notin lan /\ pc[p] \in {"ask", "done"}
    /\ Data(p) \in lan => pc[p] \in {"ask", "done"}
    /\ Answer[p] # None /\ pc[Answer[p]] # "new" =>
         p \notin PacketQueue[Src[p]] /\ Data(p) \notin lan /\ pc[p] \in {"ask", "done"}
AllOnce == \A p \in Packets : Once(p)

(* Data is on its way to its next hop.                                     *)
DataAddressed == \A f \in lan : f.op = "data" => f = Data(f.cause)

(* Frames of data that a step adds are those of packets it releases.       *)
LEMMA DataFields ==
    ASSUME NEW p \in Packets, NEW q \in Packets, NEW n
    PROVE  /\ Data(p) = Data(q) <=> p = q
           /\ Data(p) # Request(q, n) /\ Data(p) # Reply(q)
  BY DEF Data, Request, Reply

(* Where neither the queues nor the frames of data grow, and no call       *)
(* starts, nothing changes.                                                *)
LEMMA OnceStays ==
    ASSUME AllOnce, NEW p \in Packets, Answer[p] \in Packets \cup {None}, 
           p \in PacketQueue'[Src[p]] => p \in PacketQueue[Src[p]],
           Data(p) \in lan' => Data(p) \in lan,
           pc[p] \in {"ask", "done"} => pc'[p] \in {"ask", "done"},
           Answer[p] # None /\ pc[Answer[p]] = "new" => pc'[Answer[p]] = "new"
    PROVE  Once(p)'
  BY DEF AllOnce, Once

(* Emptying a queue moves packets from it to the lan.                     *)
LEMMA OnceReleased ==
    ASSUME TypeOK, AllOnce, NEW n \in Nodes, NEW a \in Nodes, NEW frames,
           frames \subseteq lan, Release(n, a, frames), pc' = pc, NEW p \in Packets
    PROVE  Once(p)'
<1>1. /\ p \in PacketQueue'[Src[p]] => p \in PacketQueue[Src[p]] /\ p \notin Waiting(n, a)
  BY ArpAssumption DEF Release, Waiting, TypeOK
<1>2. Data(p) \in lan' => Data(p) \in lan \/ p \in Waiting(n, a)
  <2>1. \A q \in Waiting(n, a) : q \in Packets
    BY DEF Waiting, TypeOK
  <2> QED BY <2>1, DataFields DEF Release
<1>3. p \in Waiting(n, a) => p \in PacketQueue[Src[p]] /\ p \notin PacketQueue'[Src[p]]
  BY ArpAssumption DEF Waiting, Release, TypeOK
<1> QED BY <1>1, <1>2, <1>3 DEF AllOnce, Once

LEMMA DataAddressedKept ==
    ASSUME TypeOK, DataAddressed, Next
    PROVE  DataAddressed'
<1>1. \A p \in Packets : /\ \A n \in Nodes : Request(p, n).op = "request"
                         /\ Reply(p).op = "reply" /\ Data(p).cause = p
  BY DEF Request, Reply, Data
<1>2. SUFFICES \A f \in lan' \ lan : f.op = "data" => f = Data(f.cause)
  BY DEF DataAddressed, Data
<1>3. ASSUME NEW q \in Packets, SendIP(q) PROVE \A f \in lan' \ lan : f.op = "data" => f = Data(f.cause)
  <2>1. lan' \subseteq lan \cup {Data(q)} \cup {Request(q, n) : n \in Nodes}
    BY <1>3 DEF SendIP, Lookup, QueuePacket, Ask, Forward
  <2>2. ASSUME NEW f \in lan' \ lan, f.op = "data" PROVE f = Data(f.cause)
    <3>1. \A n \in Nodes : f # Request(q, n)
      BY <1>1, <2>2
    <3>2. f = Data(q)
      BY <2>1, <3>1
    <3> QED BY <1>1, <3>2
  <2> QED BY <2>2
<1>4. ASSUME NEW g \in lan, HandleRequest(g) PROVE \A f \in lan' \ lan : f.op = "data" => f = Data(f.cause)
  BY <1>1, <1>4 DEF HandleRequest, TypeOK, Frame
<1>5. ASSUME NEW n, NEW a, NEW frames \in SUBSET lan, Release(n, a, frames), n \in Nodes
      PROVE  \A f \in lan' \ lan : f.op = "data" => f = Data(f.cause)
  BY <1>1, <1>5 DEF Release, Waiting, TypeOK
<1>6. ASSUME NEW g \in lan, HandleReplyOnRouter(g) PROVE \A f \in lan' \ lan : f.op = "data" => f = Data(f.cause)
  BY <1>5, <1>6 DEF HandleReplyOnRouter, TypeOK, Frame
<1>7. Drain => \A f \in lan' \ lan : f.op = "data" => f = Data(f.cause)
  BY <1>5, LoopKinds DEF Drain
<1> QED
  BY <1>3, <1>4, <1>6, <1>7
     DEF Next, DeliverARP, HandleReplyOnHost, HandleData, Expire, RemoveLink, AddLink

LEMMA OnceStep ==
    ASSUME TypeOK, AllOnce, DataAddressed, Next, NEW p \in Packets
    PROVE  Once(p)'
<1> USE ArpAssumption
<1>0. /\ Src[p] \in Nodes /\ Answer[p] \in Packets \cup {None} /\ Data(p) \in Frame
      /\ pc \in [Packets -> {"new", "lookup", "queue", "ask", "done"}]
      /\ \A q \in Packets : Once(q)
  BY FrameTypes DEF TypeOK, AllOnce
<1>1. ASSUME NEW q \in Packets, Lookup(q) PROVE Once(p)'
  <2>1. /\ PacketQueue' = PacketQueue /\ pc[q] = "lookup"
        /\ \/ pc' = [pc EXCEPT ![q] = "done"] /\ lan' \subseteq lan \cup {Data(q)}
           \/ pc' = [pc EXCEPT ![q] = "queue"] /\ lan' = lan
    BY <1>1 DEF Lookup, Forward, Return
  <2>2. /\ Data(p) \in lan' => Data(p) \in lan \/ (p = q /\ pc'[q] = "done")
        /\ \A r \in Packets \ {q} : pc'[r] = pc[r]
        /\ pc'[q] \in {"done", "queue"}
    <3>1. pc'[q] \in {"done", "queue"} /\ \A r \in Packets \ {q} : pc'[r] = pc[r]
      BY <1>0, <2>1
    <3>2. Data(p) = Data(q) => p = q
      BY DataFields
    <3>3. Data(p) \in lan' => Data(p) \in lan \/ (Data(p) = Data(q) /\ pc'[q] = "done")
      BY <1>0, <2>1
    <3> QED BY <3>1, <3>2, <3>3
  <2> QED BY <1>0, <2>1, <2>2 DEF Once
<1>2. ASSUME NEW q \in Packets, QueuePacket(q) PROVE Once(p)'
  <2>1. /\ lan' = lan /\ pc[q] = "queue" /\ pc'[q] = "ask"
        /\ p \in PacketQueue'[Src[p]] => p \in PacketQueue[Src[p]] \/ p = q
        /\ \A r \in Packets \ {q} : pc'[r] = pc[r]
    BY <1>0, <1>2 DEF QueuePacket, TypeOK
  <2> QED BY <1>0, <2>1 DEF Once
<1>3. ASSUME NEW q \in Packets, Ask(q) PROVE Once(p)'
  <2>1. /\ PacketQueue' = PacketQueue /\ pc[q] = "ask" /\ pc'[q] = "done"
        /\ Data(p) \in lan' => Data(p) \in lan
        /\ \A r \in Packets \ {q} : pc'[r] = pc[r]
    BY <1>0, <1>3, DataFields DEF Ask, Forward, Return
  <2> QED BY <1>0, <2>1 DEF Once
<1>4. ASSUME NEW f \in lan, HandleRequest(f) PROVE Once(p)'
  <2>1. f.cause \in Packets
    BY DEF TypeOK, Frame
  <2>2. Data(p) \in lan' => Data(p) \in lan
    <3>1. Data(p) # Reply(f.cause)
      BY <2>1, DataFields
    <3>2. lan' \subseteq lan \cup {Reply(f.cause)}
      BY <1>4 DEF HandleRequest
    <3> QED BY <3>1, <3>2
  <2> QED BY <1>0, <1>4, <2>2, OnceStays DEF HandleRequest
<1>5. ASSUME NEW f \in lan, HandleReplyOnHost(f) PROVE Once(p)'
  BY <1>0, <1>5, OnceStays DEF HandleReplyOnHost
<1>6. ASSUME NEW f \in lan, HandleReplyOnRouter(f) PROVE Once(p)'
  <2>1. f.to \in Nodes /\ Dst[f.cause] \in Nodes
    BY DEF TypeOK, Frame
  <2>2. Release(f.to, Dst[f.cause], lan \ {f}) /\ pc' = pc
    BY <1>6 DEF HandleReplyOnRouter
  <2> QED BY <2>1, <2>2, OnceReleased
<1>7. ASSUME NEW f \in lan, HandleData(f) PROVE Once(p)'
  <2>1. f.cause \in Packets /\ f = Data(f.cause) /\ f.op = "data"
    BY <1>7 DEF HandleData, TypeOK, Frame, DataAddressed
  <2> DEFINE q == f.cause
  <2>2. lan' = lan \ {Data(q)} /\ PacketQueue' = PacketQueue
    BY <1>7, <2>1 DEF HandleData
  <2>3. Once(q) /\ Data(q) \in lan
    BY <1>0, <2>1
  <2>4. q \notin PacketQueue[Src[q]] /\ pc[q] \in {"ask", "done"}
        /\ (Answer[q] # None => pc[Answer[q]] = "new")
    BY <2>3 DEF Once
  <2>5. CASE Answer[q] = None
    BY <1>0, <1>7, <2>2, <2>5, OnceStays DEF HandleData
  <2>6. CASE Answer[q] # None
    <3>1. /\ pc' = [pc EXCEPT ![Answer[q]] = "lookup"] /\ pc[Answer[q]] = "new"
          /\ Answer[q] \in Packets
      BY <1>7, <2>1, <2>4, <2>6 DEF HandleData
    <3>2. CASE p = q
      <4>1. pc'[p] \in {"ask", "done"}
        BY <1>0, <2>1, <2>4, <3>1, <3>2
      <4> QED BY <2>2, <2>4, <3>2, <4>1 DEF Once
    <3>3. CASE p # q
      <4>1. Answer[p] # None => Answer[p] # Answer[q]
        BY <2>1, <3>3
      <4>2. /\ Answer[p] # None => pc'[Answer[p]] = pc[Answer[p]]
            /\ pc[p] \in {"ask", "done"} => pc'[p] \in {"ask", "done"}
        BY <1>0, <3>1, <4>1
      <4> QED BY <1>0, <2>2, <4>2, OnceStays
    <3> QED BY <3>2, <3>3
  <2> QED BY <2>5, <2>6
<1>8. ASSUME Drain PROVE Once(p)'
  <2>1. loop.node \in Nodes /\ loop.address \in Nodes
    BY <1>8, LoopKinds DEF Drain
  <2>2. Release(loop.node, loop.address, lan) /\ pc' = pc
    BY <1>8 DEF Drain
  <2> QED BY <2>1, <2>2, OnceReleased
<1>9. ASSUME NEW n \in Nodes, NEW a \in Nodes, Expire(n, a) PROVE Once(p)'
  BY <1>0, <1>9, OnceStays DEF Expire
<1>10. ASSUME NEW n \in Detachable, RemoveLink(n) \/ AddLink(n) PROVE Once(p)'
  <2>1. lan' \subseteq lan /\ UNCHANGED <<PacketQueue, pc>>
    BY <1>10 DEF RemoveLink, AddLink
  <2> QED BY <1>0, <2>1, OnceStays
<1> QED
  BY <1>1, <1>2, <1>3, <1>4, <1>5, <1>6, <1>7, <1>8, <1>9, <1>10
     DEF Next, SendIP, DeliverARP

(* A packet is at its sender, in the queue or on the wire, never at two of *)
(* them, and at none once its answer was begun.                            *)
THEOREM NothingTwice == Spec => []SentOnce
<1> DEFINE OInv == TypeOK /\ DataAddressed /\ AllOnce
<1>1. Init => OInv
  <2>1. Init => TypeOK
    BY ArpAssumption DEF Init, TypeOK, Nodes
  <2>2. Init => AllOnce /\ DataAddressed
    BY ArpAssumption DEF Init, AllOnce, Once, Answers, DataAddressed
  <2> QED BY <2>1, <2>2
<1>2. OInv /\ [Next]_vars => OInv'
  <2> SUFFICES ASSUME OInv, [Next]_vars PROVE OInv'
    OBVIOUS
  <2>1. CASE Next
    BY <2>1, TypesKept, OnceStep, DataAddressedKept DEF AllOnce
  <2>2. CASE UNCHANGED vars
    BY <2>2, TypesKept DEF vars, AllOnce, Once, DataAddressed
  <2> QED BY <2>1, <2>2
<1>3. OInv => SentOnce
  BY DEF AllOnce, Once, SentOnce
<1> QED BY <1>1, <1>2, <1>3, PTL DEF Spec

(* Types and queues together, as the model checker checks them.            *)
THEOREM QueuesStaySound == Spec => []QueuesSound
<1>1. TypeOK /\ WaitingIsAsked /\ SentOnce => QueuesSound
  BY DEF QueuesSound
<1> QED BY <1>1, TypeCorrect, NothingStranded, NothingTwice, PTL

-----------------------------------------------------------------------------
(* Switches: where a frame may still get, and which VLAN it is in.         *)

(* --- Cables and what can be reached over them ------------------------------- *)
LEMMA PeerIs ==
    ASSUME NEW e, Plugged(e)
    PROVE  LinkPeer(e) \in Ports \cup Hosts /\ IsPeer(e, LinkPeer(e))
  BY DEF Plugged, LinkPeer, EndsOf, Ports

LEMMA PeerBack ==
    ASSUME net \in Networks, NEW e, NEW x, e \in EndsOf(net), IsPeer(e, x)
    PROVE  Plugged(x) /\ LinkPeer(x) = e
<1>1. {e, x} \in net.cables /\ x # e /\ {e, x} = {x, e}
  BY DEF IsPeer, Cables
<1>2. Plugged(x)
  BY <1>1 DEF Plugged, IsPeer, Cables
<1>3. {x, LinkPeer(x)} \in net.cables /\ LinkPeer(x) # x
  BY <1>2, PeerIs DEF IsPeer, Cables
<1>4. {x, LinkPeer(x)} = {x, e}
  BY <1>1, <1>3, SwitchAssumption
<1> QED BY <1>1, <1>2, <1>3, <1>4

LEMMA ReachSelf == \A n : \A h \in Hosts : h \in Reach(n, h)
  BY DEF Reach

(* What is behind one port of a switch is reached from the others.         *)
LEMMA ReachOn ==
    ASSUME NEW n, NEW p \in DOMAIN n.config, NEW q \in DOMAIN n.config, p # q, q[1] = p[1],
           NEW x \in EndsOf(n), {q, x} \in n.cables
    PROVE  Reach(n, x) \subseteq Reach(n, p)
<1> SUFFICES ASSUME NEW h \in Reach(n, x), NEW ends \in SUBSET EndsOf(n), p \in ends, Closed(n, ends)
             PROVE  h \in ends
  BY DEF Reach
<1>1. x \in ends
  BY DEF Closed
<1> QED BY <1>1 DEF Reach

(* --- Types ------------------------------------------------------------------- *)
SwitchTypes ==
    /\ net \in Networks
    /\ switches \subseteq Switches
    /\ cfg \in [Ports -> PortConfigs]
    /\ BlockedPorts \subseteq Ports
    /\ MacTable = [s \in Switches |-> MacTable[s]]
    /\ \A s \in Switches : \A k \in DOMAIN MacTable[s] :
         k[1] \in Nat /\ k[2] \in Hosts /\ MacTable[s][k] \in PortsOf(s)
    /\ unsent \subseteq Frames
    /\ \A c \in wire : c.frame \in Frames /\ c.tag \in Nat /\ c.at \in Ports \cup Hosts
    /\ received \subseteq Frames \X Hosts

LEMMA IngressTyped ==
    ASSUME SwitchTypes, NEW p \in Ports, NEW tag \in Nat
    PROVE  IngressVLAN(p, tag) \in Nat
  BY DEF IngressVLAN, SwitchTypes, PortConfigs

LEMMA LearnTyped ==
    ASSUME SwitchTypes, NEW c \in wire, c.at \in Ports, NEW v \in Nat
    PROVE  \A k \in DOMAIN Learn(c.at[1], v, c.frame, c.at) :
             /\ k[1] \in Nat /\ k[2] \in Hosts
             /\ Learn(c.at[1], v, c.frame, c.at)[k] \in PortsOf(c.at[1])
<1>1. c.at \in PortsOf(c.at[1]) /\ c.at[1] \in Switches /\ c.frame.src \in Hosts
  BY SwitchAssumption DEF SwitchTypes, Ports, PortsOf, Switches, Frames
<1> QED BY <1>1 DEF Learn, Put, SwitchTypes

(* What leaves a switch leaves by other ports of it, which carry the VLAN. *)
LEMMA OutboundPorts ==
    ASSUME SwitchTypes, NEW c \in wire, c.at \in Ports, NEW v \in Nat,
           NEW q \in Outbound(c.at, v, c.frame.dst, Learn(c.at[1], v, c.frame, c.at))
    PROVE  q \in Ports /\ q # c.at /\ q[1] = c.at[1] /\ Carries(q, v)
<1>1. CASE c.frame.dst = Broadcast \/ <<v, c.frame.dst>> \notin DOMAIN Learn(c.at[1], v, c.frame, c.at)
  BY <1>1 DEF Outbound, Flood, PortsOf
<1>2. CASE ~(c.frame.dst = Broadcast \/ <<v, c.frame.dst>> \notin DOMAIN Learn(c.at[1], v, c.frame, c.at))
  BY <1>2, LearnTyped DEF Outbound, PortsOf
<1> QED BY <1>1, <1>2

Copy(c, q) ==
    [frame |-> c.frame, tag |-> EgressTag(q, IngressVLAN(c.at, c.tag)), at |-> LinkPeer(q)]
NextPorts(c) ==
    {q \in Ports : /\ q # c.at /\ q[1] = c.at[1] /\ Plugged(q)
                   /\ Carries(q, IngressVLAN(c.at, c.tag))}

LEMMA HandledCopies ==
    ASSUME SwitchTypes, NEW c \in wire, HandleIncomingFrame(c)
    PROVE  \A d \in wire' : d \in wire \ {c} \/ \E q \in NextPorts(c) : d = Copy(c, q)
<1> DEFINE v == IngressVLAN(c.at, c.tag)
           table == Learn(c.at[1], v, c.frame, c.at)
<1>1. c.at \in Ports /\ v \in Nat
  BY IngressTyped DEF HandleIncomingFrame, SwitchTypes
<1>2. CASE wire' = wire \ {c}
  BY <1>2
<1>3. CASE wire' = (wire \ {c}) \cup {Copy(c, q) : q \in {r \in Outbound(c.at, v, c.frame.dst, table) : Plugged(r)}}
  <2>1. \A q \in Outbound(c.at, v, c.frame.dst, table) : Plugged(q) => q \in NextPorts(c)
    BY <1>1, OutboundPorts DEF NextPorts
  <2> QED BY <1>3, <2>1
<1> QED BY <1>1, <1>2, <1>3 DEF HandleIncomingFrame, Copy

LEMMA SwitchTypesStep ==
    ASSUME SwitchTypes, [SwitchNext]_switchVars
    PROVE  SwitchTypes'
<1>0. net \in Networks /\ Untagged \in Nat
  BY DEF SwitchTypes, Untagged
<1>1. ASSUME NEW c \in wire, HandleIncomingFrame(c) PROVE SwitchTypes'
  <2>1. c.at \in Ports /\ c.frame \in Frames /\ IngressVLAN(c.at, c.tag) \in Nat
    BY <1>1, IngressTyped DEF HandleIncomingFrame, SwitchTypes
  <2>2. \A q \in NextPorts(c) : /\ Copy(c, q).frame = c.frame /\ Copy(c, q).tag \in Nat
                                /\ Copy(c, q).at \in Ports \cup Hosts
    BY <2>1, PeerIs DEF Copy, NextPorts, EgressTag, Untagged
  <2>3. \A d \in wire' : d.frame \in Frames /\ d.tag \in Nat /\ d.at \in Ports \cup Hosts
    BY <1>1, <2>1, <2>2, HandledCopies DEF SwitchTypes
  <2>4. /\ UNCHANGED <<net, switches, cfg, BlockedPorts, unsent, received>>
        /\ \/ MacTable' = MacTable
           \/ MacTable' = [MacTable EXCEPT ![c.at[1]] =
                             Learn(c.at[1], IngressVLAN(c.at, c.tag), c.frame, c.at)]
    BY <1>1 DEF HandleIncomingFrame
  <2>5. MacTable' = [s \in Switches |-> MacTable'[s]]
    BY <2>4 DEF SwitchTypes
  <2>6. \A s \in Switches : \A k \in DOMAIN MacTable'[s] :
          k[1] \in Nat /\ k[2] \in Hosts /\ MacTable'[s][k] \in PortsOf(s)
    <3> SUFFICES ASSUME NEW s \in Switches
                 PROVE  \A k \in DOMAIN MacTable'[s] :
                          k[1] \in Nat /\ k[2] \in Hosts /\ MacTable'[s][k] \in PortsOf(s)
      OBVIOUS
    <3>1. CASE MacTable'[s] = MacTable[s]
      BY <3>1 DEF SwitchTypes
    <3>2. CASE s = c.at[1] /\ MacTable'[s] = Learn(c.at[1], IngressVLAN(c.at, c.tag), c.frame, c.at)
      BY <2>1, <3>2, LearnTyped
    <3> QED BY <2>4, <3>1, <3>2 DEF SwitchTypes
  <2>7. \A s : PortsOf(s)' = PortsOf(s)
    BY <2>4 DEF PortsOf, Ports
  <2> QED BY <2>3, <2>4, <2>5, <2>6, <2>7 DEF SwitchTypes, Ports, Switches, Frames
<1>2. ASSUME NEW c \in wire, HostReceive(c) PROVE SwitchTypes'
  <2>1. \A s : PortsOf(s)' = PortsOf(s)
    BY <1>2 DEF HostReceive, PortsOf, Ports
  <2>2. received' \subseteq Frames \X Hosts
    BY <1>2 DEF HostReceive, SwitchTypes
  <2> QED BY <1>2, <2>1, <2>2 DEF HostReceive, SwitchTypes, Ports, Switches, Frames
<1>3. ASSUME NEW f \in unsent, HostSend(f) PROVE SwitchTypes'
  <2>1. \A s : PortsOf(s)' = PortsOf(s)
    BY <1>3 DEF HostSend, PortsOf, Ports
  <2>2. \A d \in wire' : d.frame \in Frames /\ d.tag \in Nat /\ d.at \in Ports \cup Hosts
    BY <1>3, <1>0, PeerIs DEF HostSend, SwitchTypes
  <2> QED BY <1>3, <2>1, <2>2 DEF HostSend, SwitchTypes, Ports, Switches, Frames
<1>4. ASSUME STPTimer PROVE SwitchTypes'
  <2>1. \A s : PortsOf(s)' = PortsOf(s)
    BY <1>4 DEF STPTimer, PortsOf, Ports
  <2>2. BlockedPorts' \subseteq Ports
    BY <1>4 DEF STPTimer, RunSTP, PortsOf
  <2> QED BY <1>4, <2>1, <2>2 DEF STPTimer, SwitchTypes, Ports, Switches, Frames
<1>5. ASSUME NEW change \in net.changes, ConfigurePort(change[1], change[2]) PROVE SwitchTypes'
  <2>1. \A s : PortsOf(s)' = PortsOf(s)
    BY <1>5 DEF ConfigurePort, PortsOf, Ports
  <2>2. change[1] \in Ports /\ change[2] \in PortConfigs
    BY <1>0, SwitchAssumption DEF Ports
  <2>3. cfg' \in [Ports -> PortConfigs]
    BY <1>5, <2>2 DEF ConfigurePort, SwitchTypes
  <2> QED BY <1>5, <2>1, <2>3 DEF ConfigurePort, SwitchTypes, Ports, Switches, Frames
<1>6. ASSUME NEW s \in net.removable, RemoveSwitch(s) PROVE SwitchTypes'
  <2>1. \A t : PortsOf(t)' = PortsOf(t)
    BY <1>6 DEF RemoveSwitch, PortsOf, Ports
  <2> QED BY <1>6, <2>1 DEF RemoveSwitch, SwitchTypes, Ports, Switches, Frames
<1>7. CASE UNCHANGED switchVars
  <2>1. \A s : PortsOf(s)' = PortsOf(s)
    BY <1>7 DEF switchVars, PortsOf, Ports
  <2> QED BY <1>7, <2>1 DEF switchVars, SwitchTypes, Ports, Switches, Frames
<1> QED BY <1>1, <1>2, <1>3, <1>4, <1>5, <1>6, <1>7 DEF SwitchNext, DeliverFrame

(* --- One copy ------------------------------------------------------------------ *)
Ahead(c) == Reach(net, c.at)

(* No two copies of a frame are ahead of the same host, and none is ahead  *)
(* of one that has the frame, or of its sender.                            *)
Apart ==
    ~net.ring =>
        /\ \A c \in wire : c.frame \notin unsent /\ c.frame.src \notin Ahead(c)
        /\ \A r \in received : r[1] \notin unsent
        /\ \A c, d \in wire : c # d /\ c.frame = d.frame => Ahead(c) \cap Ahead(d) = {}
        /\ \A c \in wire : \A r \in received : r[1] = c.frame => r[2] \notin Ahead(c)

(* The copies that leave a switch are ahead of less than the one that came,*)
(* each of its own part.                                                   *)
LEMMA CopiesApart ==
    ASSUME SwitchTypes, ~net.ring, NEW c \in wire, c.at \in Ports
    PROVE  /\ \A q \in NextPorts(c) : Ahead(Copy(c, q)) \subseteq Ahead(c)
           /\ \A q, r \in NextPorts(c) : q # r => Ahead(Copy(c, q)) \cap Ahead(Copy(c, r)) = {}
<1>1. net \in Networks /\ LoopFree(net) /\ Ports = DOMAIN net.config
  BY SwitchAssumption DEF SwitchTypes, Ports
<1>2. \A q \in NextPorts(c) :
        /\ q \in Ports /\ q # c.at /\ q[1] = c.at[1]
        /\ LinkPeer(q) \in EndsOf(net) /\ {q, LinkPeer(q)} \in net.cables
  BY PeerIs DEF NextPorts, IsPeer, EndsOf, Ports, Cables
<1>3. \A q \in NextPorts(c) : Ahead(Copy(c, q)) = Reach(net, LinkPeer(q))
  BY DEF Ahead, Copy
<1>4. ASSUME NEW q \in NextPorts(c) PROVE Reach(net, LinkPeer(q)) \subseteq Reach(net, c.at)
  BY <1>1, <1>2, ReachOn
<1>5. ASSUME NEW q \in NextPorts(c), NEW r \in NextPorts(c), q # r
      PROVE  Reach(net, LinkPeer(q)) \cap Reach(net, LinkPeer(r)) = {}
  <2>1. q[1] = r[1]
    BY <1>5 DEF NextPorts
  <2> QED BY <1>1, <1>2, <1>5, <2>1 DEF LoopFree
<1> QED BY <1>3, <1>4, <1>5 DEF Ahead

LEMMA ApartHandled ==
    ASSUME SwitchTypes, Apart, ~net.ring, NEW c \in wire, HandleIncomingFrame(c)
    PROVE  Apart'
<1>1. c.at \in Ports /\ UNCHANGED <<net, unsent, received>>
  BY DEF HandleIncomingFrame
<1>2. \A d : Ahead(d)' = Ahead(d)
  BY <1>1 DEF Ahead
<1>3. \A q \in NextPorts(c) : Copy(c, q).frame = c.frame
  BY DEF Copy
<1> DEFINE Old(d) == d \in wire \ {c}
           New(d) == \E q \in NextPorts(c) : d = Copy(c, q)
<1>4. \A d \in wire' : Old(d) \/ New(d)
  BY HandledCopies
<1>5. \A d : New(d) => d.frame = c.frame /\ Ahead(d) \subseteq Ahead(c)
  BY <1>1, <1>3, CopiesApart
<1>6. \A d, e : New(d) /\ New(e) /\ d # e => Ahead(d) \cap Ahead(e) = {}
  BY <1>1, CopiesApart
<1> HIDE DEF Old, New
<1>7. \A d \in wire' : d.frame \notin unsent /\ d.frame.src \notin Ahead(d)
  BY <1>4, <1>5 DEF Apart, Old
<1>8. ASSUME NEW d \in wire', NEW e \in wire', d # e, d.frame = e.frame
      PROVE  Ahead(d) \cap Ahead(e) = {}
  <2>1. CASE Old(d) /\ Old(e)
    BY <1>8, <2>1 DEF Apart, Old
  <2>2. CASE Old(d) /\ New(e)
    <3>1. Ahead(d) \cap Ahead(c) = {}
      BY <1>5, <1>8, <2>2 DEF Apart, Old
    <3> QED BY <1>5, <2>2, <3>1
  <2>3. CASE New(d) /\ Old(e)
    <3>1. Ahead(c) \cap Ahead(e) = {}
      BY <1>5, <1>8, <2>3 DEF Apart, Old
    <3> QED BY <1>5, <2>3, <3>1
  <2>4. CASE New(d) /\ New(e)
    BY <1>6, <1>8, <2>4
  <2> QED BY <1>4, <2>1, <2>2, <2>3, <2>4
<1>9. \A d \in wire' : \A r \in received : r[1] = d.frame => r[2] \notin Ahead(d)
  BY <1>4, <1>5 DEF Apart, Old
<1>10. \A r \in received : r[1] \notin unsent
  BY DEF Apart
<1> QED BY <1>1, <1>2, <1>7, <1>8, <1>9, <1>10 DEF Apart

LEMMA ApartReceived ==
    ASSUME SwitchTypes, Apart, ~net.ring, NEW c \in wire, HostReceive(c)
    PROVE  Apart'
<1>1. /\ c.at \in Hosts /\ UNCHANGED <<net, unsent>> /\ wire' = wire \ {c}
      /\ received' = received \cup {<<c.frame, c.at>>}
  BY DEF HostReceive
<1>2. \A d : Ahead(d)' = Ahead(d)
  BY <1>1 DEF Ahead
<1>3. c.at \in Ahead(c)
  BY <1>1, ReachSelf DEF Ahead
<1>4. \A d \in wire' : d.frame = c.frame => c.at \notin Ahead(d)
  BY <1>1, <1>3 DEF Apart
<1>5. \A d \in wire' : \A r \in received' : r[1] = d.frame => r[2] \notin Ahead(d)
  BY <1>1, <1>4 DEF Apart
<1>6. \A r \in received' : r[1] \notin unsent
  BY <1>1 DEF Apart
<1>7. /\ \A d \in wire' : d.frame \notin unsent /\ d.frame.src \notin Ahead(d)
      /\ \A d, e \in wire' : d # e /\ d.frame = e.frame => Ahead(d) \cap Ahead(e) = {}
  BY <1>1 DEF Apart
<1> QED BY <1>1, <1>2, <1>5, <1>6, <1>7 DEF Apart

LEMMA ApartSent ==
    ASSUME SwitchTypes, Apart, ~net.ring, NEW f \in unsent, HostSend(f)
    PROVE  Apart'
<1> DEFINE c == [frame |-> f, tag |-> Untagged, at |-> LinkPeer(f.src)]
<1>1. UNCHANGED <<net, received>> /\ unsent' = unsent \ {f}
  BY DEF HostSend
<1>2. \A d : Ahead(d)' = Ahead(d)
  BY <1>1 DEF Ahead
<1>3. CASE wire' = wire
  <2>1. /\ \A d \in wire' : d.frame \notin unsent' /\ d.frame.src \notin Ahead(d)
        /\ \A r \in received' : r[1] \notin unsent'
        /\ \A d, e \in wire' : d # e /\ d.frame = e.frame => Ahead(d) \cap Ahead(e) = {}
        /\ \A d \in wire' : \A r \in received' : r[1] = d.frame => r[2] \notin Ahead(d)
    BY <1>1, <1>3 DEF Apart
  <2> QED BY <1>2, <2>1 DEF Apart
<1>4. CASE Plugged(f.src) /\ wire' = wire \cup {c}
  <2>1. f.src \notin Ahead(c) /\ c.frame = f
    <3>1. LinkPeer(f.src) \in EndsOf(net) /\ {f.src, LinkPeer(f.src)} \in net.cables
      BY <1>4, PeerIs DEF IsPeer, EndsOf, Ports, Cables
    <3>2. net \in Networks /\ LoopFree(net) /\ f.src \in Hosts
      BY SwitchAssumption DEF SwitchTypes, Frames
    <3>3. f.src \notin Reach(net, LinkPeer(f.src))
      BY <3>1, <3>2 DEF LoopFree
    <3> QED BY <3>3 DEF Ahead
  <2> HIDE DEF c
  <2>2. \A d \in wire : d.frame # f
    BY DEF Apart
  <2>3. \A r \in received : r[1] # f
    BY DEF Apart
  <2>4. \A d \in wire' : d.frame \notin unsent' /\ d.frame.src \notin Ahead(d)
    BY <1>1, <1>4, <2>1 DEF Apart
  <2>5. \A d, e \in wire' : d # e /\ d.frame = e.frame => Ahead(d) \cap Ahead(e) = {}
    BY <1>4, <2>1, <2>2 DEF Apart
  <2>6. \A d \in wire' : \A r \in received' : r[1] = d.frame => r[2] \notin Ahead(d)
    BY <1>1, <1>4, <2>1, <2>3 DEF Apart
  <2>7. \A r \in received' : r[1] \notin unsent'
    BY <1>1 DEF Apart
  <2> QED BY <1>2, <2>4, <2>5, <2>6, <2>7 DEF Apart
<1> QED BY <1>3, <1>4 DEF HostSend

LEMMA ApartStep ==
    ASSUME SwitchTypes, Apart, [SwitchNext]_switchVars
    PROVE  Apart'
<1>1. CASE net.ring
  <2>1. net' = net
    BY DEF SwitchNext, DeliverFrame, HandleIncomingFrame, HostReceive, HostSend, STPTimer,
           ConfigurePort, RemoveSwitch, switchVars
  <2> QED BY <1>1, <2>1 DEF Apart
<1>2. CASE ~net.ring /\ UNCHANGED <<net, wire, received, unsent>>
  <2>1. \A d : Ahead(d)' = Ahead(d)
    BY <1>2 DEF Ahead
  <2> QED BY <1>2, <2>1 DEF Apart
<1>3. STPTimer \/ (\E change \in net.changes : ConfigurePort(change[1], change[2]))
      \/ (\E s \in net.removable : RemoveSwitch(s)) \/ UNCHANGED switchVars
      => UNCHANGED <<net, wire, received, unsent>>
  BY DEF STPTimer, ConfigurePort, RemoveSwitch, switchVars
<1> QED BY <1>1, <1>2, <1>3, ApartHandled, ApartReceived, ApartSent DEF SwitchNext, DeliverFrame

(* --- One VLAN ------------------------------------------------------------------ *)
(* The VLAN of a copy, on its way to a port or to a host, is its sender's. *)
Told(c) == IF c.at \in Ports THEN IngressVLAN(c.at, c.tag) ELSE VLANOf(c.at)
InVLAN ==
    ~touched /\ VLANsAgree(net) =>
        /\ cfg = net.config
        /\ \A c \in wire : Told(c) = VLANOf(c.frame.src)
        /\ \A r \in received : VLANOf(r[2]) = VLANOf(r[1].src)

LEMMA CopyTold ==
    ASSUME SwitchTypes, InVLAN, ~touched, VLANsAgree(net), NEW c \in wire, c.at \in Ports,
           NEW q \in NextPorts(c)
    PROVE  Told(Copy(c, q)) = Told(c)
<1> DEFINE v == IngressVLAN(c.at, c.tag)
           x == LinkPeer(q)
<1>0. net \in Networks /\ cfg = net.config /\ Ports = DOMAIN net.config /\ Told(c) = v
  BY DEF SwitchTypes, InVLAN, Ports, Told
<1>1. v # Untagged
  BY <1>0 DEF IngressVLAN, VLANsAgree
<1>2. q \in Ports /\ Carries(q, v) /\ x \in EndsOf(net) /\ IsPeer(q, x) /\ {q, x} \in net.cables
  BY PeerIs DEF NextPorts, IsPeer, EndsOf, Ports, Cables
<1>3. Copy(c, q).at = x /\ Copy(c, q).tag = EgressTag(q, v)
  BY DEF Copy
<1>4. CASE x \in Ports
  <2>1. cfg[q].vlan = cfg[x].vlan
    BY <1>0, <1>2, <1>4 DEF VLANsAgree
  <2>2. IngressVLAN(x, EgressTag(q, v)) = v
    BY <1>1, <1>2, <2>1 DEF EgressTag, IngressVLAN, Carries
  <2> QED BY <1>0, <1>3, <1>4, <2>2 DEF Told
<1>5. CASE x \notin Ports
  <2>1. x \in Hosts /\ {x, q} \in net.cables
    <3>1. {x, q} = {q, x}
      OBVIOUS
    <3> QED BY <1>0, <1>2, <1>5, <3>1 DEF EndsOf
  <2>2. cfg[q].mode = "access"
    BY <1>0, <1>2, <2>1 DEF VLANsAgree, EndsOf
  <2>3. LinkPeer(x) = q
    BY <1>0, <1>2, PeerBack DEF EndsOf
  <2>4. VLANOf(x) = v
    BY <1>2, <2>2, <2>3 DEF VLANOf, Carries
  <2> QED BY <1>0, <1>3, <1>5, <2>4 DEF Told
<1> QED BY <1>4, <1>5

LEMMA SentTold ==
    ASSUME SwitchTypes, InVLAN, ~touched, VLANsAgree(net), NEW f \in Frames, Plugged(f.src),
           NEW c, c = [frame |-> f, tag |-> Untagged, at |-> LinkPeer(f.src)]
    PROVE  Told(c) = VLANOf(f.src)
<1>1. LinkPeer(f.src) \in Ports
  <2>1. LinkPeer(f.src) \in EndsOf(net) /\ {f.src, LinkPeer(f.src)} \in net.cables
    BY PeerIs DEF IsPeer, EndsOf, Ports, Cables
  <2>2. f.src \in Hosts
    BY SwitchAssumption DEF SwitchTypes, Frames
  <2> QED BY <2>1, <2>2 DEF VLANsAgree, Ports
<1>2. c.at = LinkPeer(f.src) /\ c.tag = Untagged
  OBVIOUS
<1> QED BY <1>1, <1>2 DEF Told, IngressVLAN, VLANOf

LEMMA InVLANStep ==
    ASSUME SwitchTypes, InVLAN, [SwitchNext]_switchVars
    PROVE  InVLAN'
<1> SUFFICES ASSUME ~touched', VLANsAgree(net')
             PROVE  /\ cfg' = net'.config
                    /\ \A c \in wire' : Told(c)' = VLANOf(c.frame.src)'
                    /\ \A r \in received' : VLANOf(r[2])' = VLANOf(r[1].src)'
  BY DEF InVLAN, VLANsAgree, EndsOf
<1>1. UNCHANGED <<net, cfg, touched>>
  BY DEF SwitchNext, DeliverFrame, HandleIncomingFrame, HostReceive, HostSend, STPTimer,
         ConfigurePort, RemoveSwitch, switchVars
<1>2. /\ cfg = net.config
      /\ \A c \in wire : Told(c) = VLANOf(c.frame.src)
      /\ \A r \in received : VLANOf(r[2]) = VLANOf(r[1].src)
  BY <1>1 DEF InVLAN
<1>3. /\ \A c : Told(c)' = Told(c)
      /\ \A h : VLANOf(h)' = VLANOf(h)
  <2>1. \A e : LinkPeer(e)' = LinkPeer(e)
    BY <1>1 DEF LinkPeer, IsPeer, EndsOf, Cables
  <2>2. \A h : VLANOf(h)' = VLANOf(h)
    BY <1>1, <2>1 DEF VLANOf
  <2> QED BY <1>1, <2>2 DEF Told, IngressVLAN, Ports
<1>4. ASSUME NEW c \in wire, HandleIncomingFrame(c)
      PROVE  (\A d \in wire' : Told(d) = VLANOf(d.frame.src)) /\ received' = received
  <2>1. c.at \in Ports /\ received' = received
    BY <1>4 DEF HandleIncomingFrame
  <2>2. \A q \in NextPorts(c) : Told(Copy(c, q)) = Told(c) /\ Copy(c, q).frame = c.frame
    BY <1>1, <2>1, CopyTold DEF Copy
  <2> QED BY <1>2, <1>4, <2>1, <2>2, HandledCopies
<1>5. ASSUME NEW c \in wire, HostReceive(c)
      PROVE  /\ \A d \in wire' : Told(d) = VLANOf(d.frame.src)
             /\ \A r \in received' : VLANOf(r[2]) = VLANOf(r[1].src)
  <2>1. c.at \notin Ports
    BY <1>5, SwitchAssumption DEF HostReceive, SwitchTypes, Ports
  <2> QED BY <1>2, <1>5, <2>1 DEF HostReceive, Told
<1>6. ASSUME NEW f \in unsent, HostSend(f)
      PROVE  (\A d \in wire' : Told(d) = VLANOf(d.frame.src)) /\ received' = received
  <2>1. f \in Frames
    BY DEF SwitchTypes
  <2>2. CASE wire' = wire /\ received' = received
    BY <1>2, <2>2
  <2>3. CASE ~(wire' = wire /\ received' = received)
    <3>1. PICK c : c = [frame |-> f, tag |-> Untagged, at |-> LinkPeer(f.src)]
      OBVIOUS
    <3>2. Plugged(f.src) /\ wire' = wire \cup {c} /\ received' = received
      BY <1>6, <2>3, <3>1 DEF HostSend
    <3>3. Told(c) = VLANOf(c.frame.src)
      BY <1>1, <2>1, <3>1, <3>2, SentTold
    <3> QED BY <1>2, <3>2, <3>3
  <2> QED BY <2>2, <2>3
<1>7. STPTimer \/ (\E change \in net.changes : ConfigurePort(change[1], change[2]))
      \/ (\E s \in net.removable : RemoveSwitch(s)) \/ UNCHANGED switchVars
      => UNCHANGED <<wire, received>>
  BY DEF STPTimer, ConfigurePort, RemoveSwitch, switchVars
<1> QED BY <1>1, <1>2, <1>3, <1>4, <1>5, <1>6, <1>7 DEF SwitchNext, DeliverFrame

(* --- The theorem ------------------------------------------------------------- *)
SwitchIInv == SwitchTypes /\ Apart /\ InVLAN

LEMMA SwitchInitially == SwitchInit => SwitchIInv
<1> SUFFICES ASSUME SwitchInit PROVE SwitchIInv
  OBVIOUS
<1>1. SwitchTypes
  BY SwitchAssumption DEF SwitchInit, SwitchTypes, Ports, Switches, Frames
<1>2. Apart /\ InVLAN
  BY DEF SwitchInit, Apart, InVLAN
<1> QED BY <1>1, <1>2 DEF SwitchIInv

(* On any network and for any traffic: where there is no loop, no host     *)
(* gets a frame twice or its own, whatever is learned, blocked, configured *)
(* and removed meanwhile; and a frame stays in its sender's VLAN wherever  *)
(* cables join what agrees and nothing is reconfigured.                    *)
THEOREM OnceInItsVLAN == SwitchSpec => []OnceAndInVLAN
<1>1. SwitchIInv /\ [SwitchNext]_switchVars => SwitchIInv'
  BY SwitchTypesStep, ApartStep, InVLANStep DEF SwitchIInv
<1>2. ASSUME SwitchIInv PROVE OnceAndInVLAN
  <2>1. SwitchTypeOK
    BY <1>2 DEF SwitchIInv, SwitchTypes, SwitchTypeOK, PortConfigs
  <2>2. NoSecondCopy
    <3> SUFFICES ASSUME ~net.ring, NEW c \in wire, c.at \in Hosts
                 PROVE  <<c.frame, c.at>> \notin received /\ c.at # c.frame.src
      BY DEF NoSecondCopy
    <3>1. c.at \in Ahead(c)
      BY ReachSelf DEF Ahead
    <3> QED BY <1>2, <3>1 DEF SwitchIInv, Apart
  <2>3. StaysInVLAN
    BY <1>2 DEF SwitchIInv, InVLAN, StaysInVLAN
  <2> QED BY <2>1, <2>2, <2>3 DEF OnceAndInVLAN
<1> QED BY <1>1, <1>2, SwitchInitially, PTL DEF SwitchSpec

-----------------------------------------------------------------------------
(* PPP: frames and answers under way, and why they get nowhere.             *)

(* --- The two ends ----------------------------------------------------------- *)
OneEnd == CHOOSE e \in SerialEnds : TRUE

LEMMA Ends ==
    /\ OneEnd \in SerialEnds
    /\ \A e \in SerialEnds : Peer(e) \in SerialEnds /\ Peer(e) # e
    /\ \A e \in SerialEnds : e = OneEnd \/ e = Peer(OneEnd)
    /\ "none" \notin SerialEnds
<1>1. PICK e, f : e # f /\ SerialEnds = {e, f} /\ "none" \notin SerialEnds
  BY WanAssumption
<1>2. \A x \in SerialEnds : \E y \in SerialEnds : y # x
  BY <1>1
<1>3. \A x \in SerialEnds : Peer(x) \in SerialEnds /\ Peer(x) # x
  BY <1>2 DEF Peer
<1>4. OneEnd \in SerialEnds
  BY <1>1 DEF OneEnd
<1> QED BY <1>1, <1>3, <1>4

(* --- Types and counts ------------------------------------------------------- *)
(* What is on its way is LCP, and no end is beyond it.                     *)
WanTypes ==
    /\ serial \in [SerialEnds -> [encap : Encaps, state : {"Dead", "LCP"}]]
    /\ portUp \in [SerialEnds -> BOOLEAN] /\ cable \in BOOLEAN
    /\ configuring \in [Connections -> {Idle} \cup [end : SerialEnds]]
    /\ answering \in {Idle} \cup [end : SerialEnds, stage : {"LCP"}]
    /\ starting \in [SerialEnds -> Nat]
    /\ pppWire \in [SerialEnds -> [Stages -> Nat]]
    /\ \A e \in SerialEnds : pppWire[e]["NCP"] = 0 /\ pppWire[e]["DATA"] = 0
    /\ addressed = {} /\ configs \in Nat

Busy == {c \in Connections : configuring[c] # Idle}
Started == starting[OneEnd] + starting[Peer(OneEnd)]
OnLink == pppWire[OneEnd]["LCP"] + pppWire[Peer(OneEnd)]["LCP"]
Answering == IF answering = Idle THEN 0 ELSE 1

LEMMA Counts ==
    ASSUME WanTypes
    PROVE  /\ Started \in Nat /\ OnLink \in Nat /\ Answering \in 0..1
           /\ Circulating = OnLink + Answering
           /\ \A e \in SerialEnds : starting[e] <= Started /\ pppWire[e]["LCP"] <= OnLink
           /\ Started > 0 <=> \E e \in SerialEnds : starting[e] > 0
<1>1. /\ OneEnd \in SerialEnds /\ Peer(OneEnd) \in SerialEnds /\ Peer(OneEnd) # OneEnd
      /\ \A e \in SerialEnds : e = OneEnd \/ e = Peer(OneEnd)
  BY Ends
<1> DEFINE b == Peer(OneEnd)
<1>2. /\ starting[OneEnd] \in Nat /\ starting[b] \in Nat
      /\ pppWire[OneEnd]["LCP"] \in Nat /\ pppWire[b]["LCP"] \in Nat
      /\ WireFrames(OneEnd) = pppWire[OneEnd]["LCP"] /\ WireFrames(b) = pppWire[b]["LCP"]
  BY <1>1 DEF WanTypes, Stages, WireFrames
<1>3. Circulating = WireFrames(OneEnd) + WireFrames(b) + Answering
  BY DEF Circulating, OneEnd, Answering
<1>4. Answering \in 0..1
  BY DEF Answering
<1>5. Started \in Nat /\ OnLink \in Nat
  BY <1>2 DEF Started, OnLink
<1> HIDE DEF b
<1>6. Circulating = OnLink + Answering
  BY <1>2, <1>3, <1>4 DEF OnLink, b
<1>7. \A e \in SerialEnds : starting[e] <= Started /\ pppWire[e]["LCP"] <= OnLink
  BY <1>1, <1>2 DEF Started, OnLink, b
<1>8. Started > 0 <=> \E e \in SerialEnds : starting[e] > 0
  BY <1>1, <1>2 DEF Started, b
<1> QED BY <1>4, <1>5, <1>6, <1>7, <1>8

(* Frames and answers, before and after a step.                            *)
LEMMA CirculatingNow == WanTypes => Circulating = OnLink + Answering
  BY Counts
LEMMA CirculatingThen == (WanTypes => Circulating = OnLink + Answering)'
  BY CirculatingNow, PTL
LEMMA CirculatingTyped == WanTypes => Circulating \in Nat
  BY Counts
LEMMA CirculatingIsNat == (WanTypes => Circulating \in Nat)'
  BY CirculatingTyped, PTL

(* One frame, or one handshake to start, more or less.                     *)
LEMMA LinkChanges ==
    ASSUME WanTypes, NEW e \in SerialEnds, NEW d \in {-1, 1}, pppWire[e]["LCP"] + d >= 0,
           pppWire' = [pppWire EXCEPT ![e]["LCP"] = pppWire[e]["LCP"] + d]
    PROVE  /\ OnLink' = OnLink + d
           /\ pppWire' \in [SerialEnds -> [Stages -> Nat]]
           /\ \A f \in SerialEnds : pppWire'[f]["NCP"] = 0 /\ pppWire'[f]["DATA"] = 0
<1>1. /\ OneEnd \in SerialEnds /\ Peer(OneEnd) \in SerialEnds /\ Peer(OneEnd) # OneEnd
      /\ e = OneEnd \/ e = Peer(OneEnd)
  BY Ends
<1>2. \A f \in SerialEnds : pppWire[f]["LCP"] \in Nat /\ pppWire[f] \in [Stages -> Nat]
  BY DEF WanTypes, Stages
<1>3. \A f \in SerialEnds : pppWire'[f]["LCP"] = IF f = e THEN pppWire[f]["LCP"] + d ELSE pppWire[f]["LCP"]
  BY DEF WanTypes, Stages
<1>4. pppWire[e]["LCP"] + d \in Nat
  BY <1>2
<1>5. pppWire' \in [SerialEnds -> [Stages -> Nat]]
  BY <1>2, <1>4 DEF WanTypes, Stages
<1>6. \A f \in SerialEnds : pppWire'[f]["NCP"] = 0 /\ pppWire'[f]["DATA"] = 0
  BY DEF WanTypes, Stages
<1>7. OnLink' = OnLink + d
  BY <1>1, <1>2, <1>3 DEF OnLink
<1> QED BY <1>5, <1>6, <1>7

LEMMA StartChanges ==
    ASSUME WanTypes, NEW e \in SerialEnds, NEW d \in {-1, 1}, starting[e] + d >= 0,
           starting' = [starting EXCEPT ![e] = starting[e] + d]
    PROVE  Started' = Started + d /\ starting' \in [SerialEnds -> Nat]
<1>1. /\ OneEnd \in SerialEnds /\ Peer(OneEnd) \in SerialEnds /\ Peer(OneEnd) # OneEnd
      /\ e = OneEnd \/ e = Peer(OneEnd)
  BY Ends
<1>2. \A f \in SerialEnds : starting[f] \in Nat
  BY DEF WanTypes
<1>3. \A f \in SerialEnds : starting'[f] = IF f = e THEN starting[f] + d ELSE starting[f]
  BY DEF WanTypes
<1>4. starting' \in [SerialEnds -> Nat]
  BY <1>2 DEF WanTypes
<1> QED BY <1>1, <1>2, <1>3, <1>4 DEF Started

(* A state machine that hears LCP is in LCP or unchanged.                  *)
LEMMA HearsLCP ==
    ASSUME WanTypes, NEW f \in SerialEnds
    PROVE  /\ ProcessPPPFrame(f, "LCP") \in [SerialEnds -> [encap : Encaps, state : {"Dead", "LCP"}]]
           /\ \A e \in SerialEnds : ProcessPPPFrame(f, "LCP")[e].encap = serial[e].encap
  BY DEF WanTypes, ProcessPPPFrame, StateFor

(* --- The invariant ---------------------------------------------------------- *)
(* Each configuration leads to one frame at most.                          *)
Budget ==
    /\ IsFiniteSet(Busy)
    /\ Cardinality(Busy) + Started + OnLink + Answering <= configs

(* Until something else happens than the first configuration of each end,  *)
(* either both ends speak PPP and an exchange is on, or all are dead and,  *)
(* once both speak PPP, a connection is still to look.                     *)
Exchange == Started + OnLink + Answering > 0
BothPPP == \A e \in SerialEnds : serial[e].encap = "ppp"

FirstOnes ==
    ~disturbed =>
        /\ cable /\ \A e \in SerialEnds : portUp[e]
        /\ \A e \in SerialEnds : serial[e].encap \in {"none", "ppp"}
        /\ \A c \in Busy : serial[configuring[c].end].encap = "ppp"
        /\ Exchange => BothPPP
        /\ ~Exchange => \A e \in SerialEnds : serial[e].state = "Dead"
        /\ ~Exchange /\ BothPPP => Busy # {}

WanIInv == WanTypes /\ Budget /\ FirstOnes

(* A connection that becomes busy or free.                                 *)
LEMMA BusyChanges ==
    ASSUME WanTypes, IsFiniteSet(Busy), NEW c \in Connections, NEW x,
           configuring' = [configuring EXCEPT ![c] = x]
    PROVE  /\ IsFiniteSet(Busy') /\ Cardinality(Busy) \in Nat
           /\ c \notin Busy /\ x # Idle => Busy' = Busy \cup {c} /\ Cardinality(Busy') = Cardinality(Busy) + 1
           /\ c \in Busy /\ x = Idle => Busy' = Busy \ {c} /\ Cardinality(Busy') = Cardinality(Busy) - 1
<1>1. x # Idle => Busy' = Busy \cup {c}
  BY DEF Busy, WanTypes
<1>2. x = Idle => Busy' = Busy \ {c}
  BY DEF Busy, WanTypes
<1>3. IsFiniteSet(Busy \cup {c}) /\ IsFiniteSet(Busy \ {c}) /\ Cardinality(Busy) \in Nat
  BY FS_AddElement, FS_RemoveElement, FS_CardinalityType
<1>4. c \notin Busy => Cardinality(Busy \cup {c}) = Cardinality(Busy) + 1
  BY FS_AddElement
<1>5. c \in Busy => Cardinality(Busy \ {c}) = Cardinality(Busy) - 1
  BY FS_RemoveElement
<1> QED BY <1>1, <1>2, <1>3, <1>4, <1>5

(* Configuring and looking at the peer do not touch what is on the link.   *)
LEMMA ConfigureStep ==
    ASSUME WanIInv, NEW c \in Connections, NEW e \in SerialEnds, NEW x \in {"hdlc", "ppp"},
           ConfigureSerial(c, e, x)
    PROVE  WanIInv' /\ Circulating' = Circulating
<1> USE WanAssumption
<1>0. WanTypes
  BY DEF WanIInv
<1>1. UNCHANGED <<cable, portUp, starting, pppWire, answering, addressed>> /\ configs' = configs + 1
  BY DEF ConfigureSerial
<1>2. [end |-> e] # Idle
  BY Ends DEF Idle
<1>3. serial' = [serial EXCEPT ![e] = [encap |-> x, state |-> "Dead"]]
  BY DEF ConfigureSerial
<1>4. WanTypes'
  <2>1. serial' \in [SerialEnds -> [encap : Encaps, state : {"Dead", "LCP"}]]
    BY <1>0, <1>3 DEF WanTypes, Encaps
  <2>2. configuring' \in [Connections -> {Idle} \cup [end : SerialEnds]]
    BY <1>0 DEF ConfigureSerial, WanTypes
  <2> QED BY <1>0, <1>1, <2>1, <2>2 DEF WanTypes
<1>5. UNCHANGED <<Started, OnLink, Answering, Circulating>>
  BY <1>1 DEF Started, OnLink, Answering, Circulating, WireFrames
<1>6. CASE x = "ppp"
  <2>1. configuring' = [configuring EXCEPT ![c] = [end |-> e]] /\ c \notin Busy
    BY <1>6 DEF ConfigureSerial, Busy
  <2>2. /\ IsFiniteSet(Busy') /\ Cardinality(Busy) \in Nat
        /\ Busy' = Busy \cup {c} /\ Cardinality(Busy') = Cardinality(Busy) + 1
    <3>1. PICK y : configuring' = [configuring EXCEPT ![c] = y] /\ y # Idle
      BY <1>2, <2>1
    <3>2. IsFiniteSet(Busy)
      BY DEF WanIInv, Budget
    <3>3. c \notin Busy /\ y # Idle
      BY <2>1, <3>1
    <3>4. /\ IsFiniteSet(Busy') /\ Cardinality(Busy) \in Nat
          /\ c \notin Busy /\ y # Idle => Busy' = Busy \cup {c} /\ Cardinality(Busy') = Cardinality(Busy) + 1
      BY <1>0, <3>1, <3>2, BusyChanges
    <3> QED BY <3>3, <3>4
  <2>3. Budget'
    BY <1>0, <1>1, <1>5, <2>2, Counts DEF WanIInv, Budget, WanTypes
  <2>4. FirstOnes'
    <3> SUFFICES ASSUME ~disturbed' PROVE FirstOnes'
      BY DEF FirstOnes
    <3>1. ~disturbed /\ serial[e].encap = "none"
      BY DEF ConfigureSerial
    <3>2. ~Exchange /\ ~Exchange'
      BY <1>5, <3>1 DEF WanIInv, FirstOnes, Exchange, BothPPP
    <3>3. /\ serial'[e] = [encap |-> "ppp", state |-> "Dead"]
          /\ \A f \in SerialEnds \ {e} : serial'[f] = serial[f]
      BY <1>0, <1>3, <1>6 DEF WanTypes
    <3>4. \A f \in SerialEnds : serial'[f].encap \in {"none", "ppp"} /\ serial'[f].state = "Dead"
      BY <3>1, <3>2, <3>3 DEF WanIInv, FirstOnes
    <3>5. ASSUME NEW d \in Busy' PROVE serial'[configuring'[d].end].encap = "ppp"
      <4>1. CASE d = c
        BY <1>0, <2>1, <3>3, <4>1 DEF WanTypes
      <4>2. CASE d # c
        <5>1. d \in Busy /\ configuring'[d] = configuring[d] /\ configuring[d].end \in SerialEnds
          BY <1>0, <2>1, <2>2, <3>5, <4>2 DEF WanTypes, Busy
        <5> QED BY <3>1, <3>3, <5>1 DEF WanIInv, FirstOnes
      <4> QED BY <4>1, <4>2
    <3>6. Busy' # {}
      BY <2>2
    <3>7. cable' /\ \A f \in SerialEnds : portUp'[f]
      BY <1>1, <3>1 DEF WanIInv, FirstOnes
    <3> QED BY <3>2, <3>4, <3>5, <3>6, <3>7 DEF FirstOnes
  <2> QED BY <1>4, <1>5, <2>3, <2>4 DEF WanIInv
<1>7. CASE x # "ppp"
  <2>1. configuring' = configuring /\ disturbed'
    BY <1>7 DEF ConfigureSerial
  <2>2. Busy' = Busy
    BY <2>1 DEF Busy
  <2>3. Budget'
    <3>1. Cardinality(Busy) \in Nat
      BY FS_CardinalityType DEF WanIInv, Budget
    <3> QED BY <1>0, <1>1, <1>5, <2>2, <3>1, Counts DEF WanIInv, Budget, WanTypes
  <2>4. FirstOnes'
    BY <2>1 DEF FirstOnes
  <2> QED BY <1>4, <1>5, <2>3, <2>4 DEF WanIInv
<1> QED BY <1>6, <1>7

LEMMA CheckStep ==
    ASSUME WanIInv, NEW c \in Connections, CheckPeer(c)
    PROVE  WanIInv' /\ Circulating' = Circulating
<1> DEFINE e == configuring[c].end
           starts == cable /\ serial[Peer(e)] = [encap |-> "ppp", state |-> "Dead"]
<1>0. WanTypes /\ c \in Busy
  BY DEF WanIInv, CheckPeer, Busy
<1>1. /\ UNCHANGED <<cable, portUp, serial, pppWire, answering, addressed, configs, disturbed>>
      /\ configuring' = [configuring EXCEPT ![c] = Idle]
  BY DEF CheckPeer
<1>2. e \in SerialEnds /\ Peer(e) \in SerialEnds
  BY <1>0, Ends DEF WanTypes, Busy
<1>3. /\ IsFiniteSet(Busy') /\ Cardinality(Busy) \in Nat
      /\ Busy' = Busy \ {c} /\ Cardinality(Busy') = Cardinality(Busy) - 1
  BY <1>0, <1>1, BusyChanges DEF WanIInv, Budget
<1>4. UNCHANGED <<OnLink, Answering, Circulating>>
  BY <1>1 DEF OnLink, Answering, Circulating, WireFrames
<1>5. /\ starting' \in [SerialEnds -> Nat]
      /\ starts => Started' = Started + 1
      /\ ~starts => Started' = Started
  <2>1. CASE starts
    <3>1. starting' = [starting EXCEPT ![e] = starting[e] + 1]
      BY <2>1 DEF CheckPeer
    <3>2. starting[e] + 1 >= 0
      BY <1>0, <1>2 DEF WanTypes
    <3> HIDE DEF e
    <3> QED BY <1>0, <1>2, <2>1, <3>1, <3>2, StartChanges
  <2>2. CASE ~starts
    <3>1. starting' = starting
      BY <2>2 DEF CheckPeer
    <3> QED BY <1>0, <2>2, <3>1 DEF Started, WanTypes
  <2> QED BY <2>1, <2>2
<1>6. WanTypes'
  <2>1. configuring' \in [Connections -> {Idle} \cup [end : SerialEnds]]
    BY <1>0, <1>1 DEF WanTypes
  <2> QED BY <1>0, <1>1, <1>5, <2>1 DEF WanTypes
<1>7. Budget'
  <2> HIDE DEF starts
  <2> QED BY <1>0, <1>1, <1>3, <1>4, <1>5, Counts DEF WanIInv, Budget, WanTypes
<1>8. FirstOnes'
  <2> SUFFICES ASSUME ~disturbed' PROVE FirstOnes'
    BY DEF FirstOnes
  <2>0. ~disturbed
    BY <1>1
  <2>1. Exchange' <=> Exchange \/ starts
    <3> HIDE DEF starts
    <3> QED BY <1>0, <1>4, <1>5, Counts DEF Exchange
  <2>2. serial[e].encap = "ppp"
    BY <1>0, <2>0 DEF WanIInv, FirstOnes
  <2>3. starts => BothPPP
    BY <1>2, <2>2, Ends DEF BothPPP
  <2>4. ~Exchange /\ BothPPP => starts
    <3> SUFFICES ASSUME ~Exchange, BothPPP PROVE starts
      OBVIOUS
    <3>1. serial[Peer(e)].state = "Dead" /\ serial[Peer(e)].encap = "ppp" /\ cable
      BY <1>2, <2>0 DEF WanIInv, FirstOnes, BothPPP
    <3> QED BY <1>0, <1>2, <3>1 DEF WanTypes
  <2>5. BothPPP' <=> BothPPP
    BY <1>1 DEF BothPPP
  <2>6. ASSUME NEW d \in Busy' PROVE serial'[configuring'[d].end].encap = "ppp"
    <3>1. d \in Busy /\ configuring'[d] = configuring[d]
      BY <1>0, <1>1, <1>3, <2>6 DEF WanTypes, Busy
    <3> QED BY <1>1, <2>0, <3>1 DEF WanIInv, FirstOnes
  <2> HIDE DEF starts
  <2> QED BY <1>1, <2>0, <2>1, <2>3, <2>4, <2>5, <2>6 DEF WanIInv, FirstOnes
<1> QED BY <1>4, <1>6, <1>7, <1>8 DEF WanIInv

(* The steps of the exchange itself: they keep the budget, and, while the  *)
(* ends are connected, hand on what they take.                             *)
LEMMA ExchangeStep ==
    ASSUME WanIInv, WanTypes', Started' \in Nat, OnLink' \in Nat, Answering' \in 0..1,
           UNCHANGED <<cable, portUp, configuring, configs, disturbed>>,
           \A e \in SerialEnds : serial'[e].encap = serial[e].encap,
           Started' + OnLink' + Answering' <= Started + OnLink + Answering,
           Started + OnLink + Answering > 0,
           cable /\ (\A e \in SerialEnds : portUp[e]) /\ BothPPP => 
               Started' + OnLink' + Answering' = Started + OnLink + Answering
    PROVE  WanIInv'
<1>1. Busy' = Busy
  BY DEF Busy
<1>2. Budget'
  <2>1. Cardinality(Busy) \in Nat
    BY FS_CardinalityType DEF WanIInv, Budget
  <2>2. Started \in Nat /\ OnLink \in Nat /\ Answering \in 0..1 /\ configs \in Nat
    BY Counts DEF WanIInv, WanTypes
  <2>3. IsFiniteSet(Busy) /\ Cardinality(Busy) + Started + OnLink + Answering <= configs
    BY DEF WanIInv, Budget
  <2>4. /\ Started \in Int /\ OnLink \in Int /\ Answering \in Int /\ configs \in Int
        /\ Started' \in Int /\ OnLink' \in Int /\ Answering' \in Int
    BY <2>2
  <2>5. PICK s1 \in Int, o1 \in Int, a1 \in Int : s1 = Started' /\ o1 = OnLink' /\ a1 = Answering'
    BY <2>4
  <2>6. s1 + o1 + a1 <= Started + OnLink + Answering
    BY <2>5, Zenon
  <2>7. Cardinality(Busy) + s1 + o1 + a1 <= configs
    BY <2>1, <2>3, <2>4, <2>6
  <2>8. Cardinality(Busy) + Started' + OnLink' + Answering' <= configs
    BY <2>5, <2>7, Zenon
  <2> QED BY <1>1, <2>3, <2>8 DEF Budget
<1>3. FirstOnes'
  <2> SUFFICES ASSUME ~disturbed' PROVE FirstOnes'
    BY DEF FirstOnes
  <2>1. ~disturbed /\ Exchange
    BY DEF Exchange
  <2>2. BothPPP /\ cable /\ \A e \in SerialEnds : portUp[e]
    BY <2>1 DEF WanIInv, FirstOnes
  <2>3. Exchange'
    BY <2>1, <2>2 DEF Exchange
  <2>5. BothPPP'
    BY <2>2 DEF BothPPP
  <2>6. \A e \in SerialEnds : serial'[e].encap \in {"none", "ppp"}
    BY <2>5 DEF BothPPP
  <2>7. \A c \in Busy' : serial'[configuring'[c].end].encap = "ppp"
    <3>1. \A c \in Busy : configuring[c].end \in SerialEnds
      BY DEF WanIInv, WanTypes, Busy
    <3> QED BY <1>1, <3>1, <2>5 DEF BothPPP
  <2> QED BY <2>2, <2>3, <2>5, <2>6, <2>7 DEF FirstOnes
<1> QED BY <1>2, <1>3 DEF WanIInv

Flow == Started + OnLink + Answering

LEMMA InitiateStep ==
    ASSUME WanIInv, NEW e \in SerialEnds, InitiatePPPHandshake(e)
    PROVE  WanIInv' /\ Circulating' >= Circulating
<1>0. WanTypes /\ Peer(e) \in SerialEnds
  BY Ends DEF WanIInv
<1>1. UNCHANGED <<cable, portUp, serial, configuring, answering, addressed, configs, disturbed>>
  BY DEF InitiatePPPHandshake
<1>2. /\ starting[e] \in Nat /\ starting[e] > 0
      /\ starting' = [starting EXCEPT ![e] = starting[e] + (-1)]
  BY <1>0 DEF InitiatePPPHandshake, WanTypes
<1>3. Started' = Started + (-1) /\ starting' \in [SerialEnds -> Nat]
  <2>1. starting[e] + (-1) >= 0
    BY <1>2
  <2> QED BY <1>0, <1>2, <2>1, StartChanges
<1>4. Answering' = Answering
  BY <1>1 DEF Answering
<1>5. /\ Started \in Nat /\ OnLink \in Nat /\ Answering \in 0..1
      /\ starting[e] <= Started
  BY <1>0, Counts
<1>6. CASE portUp[e] /\ cable
  <2>1. pppWire' = [pppWire EXCEPT ![Peer(e)]["LCP"] = pppWire[Peer(e)]["LCP"] + 1]
    BY <1>6 DEF InitiatePPPHandshake
  <2>2. pppWire[Peer(e)]["LCP"] + 1 >= 0
    BY <1>0 DEF WanTypes, Stages
  <2>3. /\ OnLink' = OnLink + 1 /\ pppWire' \in [SerialEnds -> [Stages -> Nat]]
        /\ \A f \in SerialEnds : pppWire'[f]["NCP"] = 0 /\ pppWire'[f]["DATA"] = 0
    BY <1>0, <2>1, <2>2, LinkChanges
  <2>4. WanTypes'
    BY <1>0, <1>1, <1>3, <2>3 DEF WanTypes
  <2>5. WanIInv'
    <3>1. /\ Started' \in Nat /\ OnLink' \in Nat /\ Answering' \in 0..1
          /\ Started' + OnLink' + Answering' = Started + OnLink + Answering
          /\ Started + OnLink + Answering > 0
      <4>1. Started > 0
        BY <1>2, <1>5
      <4>2. Started' = Started - 1 /\ OnLink' = OnLink + 1
        BY <1>3, <1>5, <2>3
      <4> QED BY <1>4, <1>5, <4>1, <4>2
    <3>2. \A f \in SerialEnds : serial'[f].encap = serial[f].encap
      BY <1>1
    <3>3. Started' + OnLink' + Answering' <= Started + OnLink + Answering
      <4>1. Started + OnLink + Answering <= Started + OnLink + Answering
        BY <1>5
      <4> QED BY <3>1, <4>1
    <3> QED BY <1>1, <2>4, <3>1, <3>2, <3>3, ExchangeStep
  <2>6. Circulating = OnLink + Answering /\ Circulating' = OnLink' + Answering'
    BY <1>0, <2>4, CirculatingNow, CirculatingThen
  <2> QED BY <1>4, <1>5, <2>3, <2>5, <2>6
<1>7. CASE ~(portUp[e] /\ cable)
  <2>1. pppWire' = pppWire
    BY <1>7 DEF InitiatePPPHandshake
  <2>2. OnLink' = OnLink /\ Circulating' = Circulating
    BY <1>1, <2>1 DEF OnLink, Circulating, WireFrames
  <2>3. WanTypes'
    BY <1>0, <1>1, <1>3, <2>1 DEF WanTypes
  <2>4. Circulating \in Nat
    BY <1>0, <1>5, Counts
  <2>5. WanIInv'
    <3>1. /\ Started' \in Nat /\ OnLink' \in Nat /\ Answering' \in 0..1
          /\ Started' + OnLink' + Answering' <= Started + OnLink + Answering
          /\ Started + OnLink + Answering > 0
      BY <1>2, <1>3, <1>4, <1>5, <2>2
    <3>2. \A f \in SerialEnds : serial'[f].encap = serial[f].encap
      BY <1>1
    <3> QED BY <1>1, <1>7, <2>3, <3>1, <3>2, ExchangeStep
  <2> QED BY <2>2, <2>4, <2>5
<1> QED BY <1>6, <1>7

LEMMA DeliverStep ==
    ASSUME WanIInv, NEW e \in SerialEnds, NEW s \in Stages, DeliverPPP(e, s)
    PROVE  WanIInv' /\ (Circulating' < Circulating => ~Connected)
<1>0. WanTypes
  BY DEF WanIInv
<1>1. s = "LCP"
  BY <1>0 DEF DeliverPPP, WanTypes, Stages
<1>2. AnswerTo("LCP") = "LCP" /\ "LCP" # "none" /\ "LCP" # "DATA"
  BY DEF AnswerTo
<1>3. UNCHANGED <<cable, portUp, configuring, starting, configs, disturbed>> /\ addressed' = {}
  BY <1>0, <1>1, <1>2 DEF DeliverPPP, WanTypes
<1>4. /\ pppWire[e]["LCP"] \in Nat /\ pppWire[e]["LCP"] > 0
      /\ pppWire' = [pppWire EXCEPT ![e]["LCP"] = pppWire[e]["LCP"] + (-1)]
  <2>1. pppWire[e]["LCP"] \in Nat
    BY <1>0 DEF WanTypes, Stages
  <2>2. /\ pppWire[e]["LCP"] > 0
        /\ pppWire' = [pppWire EXCEPT ![e]["LCP"] = pppWire[e]["LCP"] - 1]
    BY <1>1 DEF DeliverPPP
  <2>3. pppWire[e]["LCP"] - 1 = pppWire[e]["LCP"] + (-1)
    BY <2>1
  <2> QED
    BY <2>1, <2>2, <2>3
<1>5. /\ OnLink' = OnLink + (-1) /\ pppWire' \in [SerialEnds -> [Stages -> Nat]]
      /\ \A f \in SerialEnds : pppWire'[f]["NCP"] = 0 /\ pppWire'[f]["DATA"] = 0
  <2>1. pppWire[e]["LCP"] + (-1) >= 0
    BY <1>4
  <2> QED BY <1>0, <1>4, <2>1, LinkChanges
<1>6. /\ Started \in Nat /\ OnLink \in Nat /\ pppWire[e]["LCP"] <= OnLink
      /\ Started' = Started /\ Answering = 0
  <2>1. Answering = 0
    BY DEF DeliverPPP, Answering
  <2> QED BY <1>0, <1>3, <2>1, Counts DEF Started
<1>7. /\ serial' \in [SerialEnds -> [encap : Encaps, state : {"Dead", "LCP"}]]
      /\ \A f \in SerialEnds : serial'[f].encap = serial[f].encap
      /\ answering' \in {Idle, [end |-> e, stage |-> "LCP"]}
      /\ portUp[e] /\ serial[e].encap = "ppp" => answering' = [end |-> e, stage |-> "LCP"]
  <2>1. CASE portUp[e]
    BY <1>1, <1>2, <2>1, HearsLCP, <1>0 DEF DeliverPPP
  <2>2. CASE ~portUp[e]
    BY <1>0, <2>2 DEF DeliverPPP, WanTypes
  <2> QED BY <2>1, <2>2
<1>8. [end |-> e, stage |-> "LCP"] # Idle
  <2>1. [end |-> e, stage |-> "LCP"].end # "none" /\ Idle.end = "none"
    BY Ends DEF Idle
  <2> QED BY <2>1
<1>9. /\ Answering' \in 0..1
      /\ portUp[e] /\ serial[e].encap = "ppp" => Answering' = 1
  BY <1>7, <1>8 DEF Answering
<1>10. WanTypes'
  <2>1. answering' \in {Idle} \cup [end : SerialEnds, stage : {"LCP"}]
    BY <1>7
  <2> QED BY <1>0, <1>3, <1>5, <1>7, <2>1 DEF WanTypes
<1>11. WanIInv'
  <2>1. OnLink' \in Nat /\ Started + OnLink + Answering > 0
    BY <1>4, <1>5, <1>6
  <2>2. Started' + OnLink' + Answering' <= Started + OnLink + Answering
    <3>1. Answering' \in Int /\ Answering' <= 1 /\ Answering = 0
      BY <1>6, <1>9
    <3>2. Started \in Int /\ OnLink \in Int /\ Started' = Started /\ OnLink' = OnLink + (-1)
      BY <1>5, <1>6
    <3>3. PICK s1 \in Int, o1 \in Int, a1 \in Int : s1 = Started' /\ o1 = OnLink' /\ a1 = Answering'
      BY <3>1, <3>2
    <3>4. a1 <= 1 /\ s1 = Started /\ o1 + 1 = OnLink
      BY <3>1, <3>2, <3>3
    <3>5. Started \in Int /\ OnLink \in Int /\ Answering = 0
      BY <3>1, <3>2
    <3>6. s1 + o1 + a1 <= Started + OnLink + Answering
      BY <3>4, <3>5
    <3> QED BY <3>3, <3>6, Zenon
  <2>3. portUp[e] /\ BothPPP => Started' + OnLink' + Answering' = Started + OnLink + Answering
    <3>1. portUp[e] /\ BothPPP => Answering' = 1
      BY <1>9 DEF BothPPP
    <3>2. OnLink' + 1 = OnLink
      BY <1>5, <1>6
    <3>3. Started + OnLink' + 1 = Started + OnLink + 0
      BY <1>5, <1>6, <3>2
    <3>4. Answering' = 1 => Started' + OnLink' + Answering' = Started + OnLink + Answering
      BY <1>6, <3>3, Zenon
    <3> QED BY <3>1, <3>4
  <2>4. Started' \in Nat /\ Answering' \in 0..1 /\ \A f \in SerialEnds : serial'[f].encap = serial[f].encap
    BY <1>6, <1>7, <1>9
  <2> QED BY <1>3, <1>10, <2>1, <2>2, <2>3, <2>4, ExchangeStep
<1>12. Circulating' < Circulating => ~Connected
  <2>1. Circulating = OnLink + Answering /\ Circulating' = OnLink' + Answering'
    BY <1>0, <1>10, CirculatingNow, CirculatingThen
  <2>2. Connected => Answering' = 1
    BY <1>9 DEF Connected
  <2> QED BY <1>5, <1>6, <2>1, <2>2
<1> QED BY <1>11, <1>12

LEMMA AnswerStep ==
    ASSUME WanIInv, AnswerPeer
    PROVE  WanIInv' /\ (Circulating' < Circulating => ~Connected)
<1> DEFINE f == Peer(answering.end)
<1>0. WanTypes
  BY DEF WanIInv
<1>1. /\ answering.end \in SerialEnds /\ answering.stage = "LCP" /\ f \in SerialEnds
      /\ answering' = Idle
  <2>1. answering # Idle /\ answering' = Idle
    BY DEF AnswerPeer
  <2> QED BY <1>0, <2>1, Ends DEF WanTypes
<1>2. UNCHANGED <<cable, portUp, configuring, starting, addressed, configs, disturbed>>
  BY DEF AnswerPeer
<1>3. Answering = 1 /\ Answering' = 0 /\ Started' = Started
  BY <1>1, <1>2 DEF AnswerPeer, Answering, Started
<1>4. Started \in Nat /\ OnLink \in Nat
  BY <1>0, Counts
<1>5. CASE cable
  <2>1. /\ serial' = ProcessPPPFrame(f, "LCP")
        /\ pppWire' = [pppWire EXCEPT ![f]["LCP"] = pppWire[f]["LCP"] + 1]
    BY <1>1, <1>5 DEF AnswerPeer
  <2>2. pppWire[f]["LCP"] + 1 >= 0
    BY <1>0, <1>1 DEF WanTypes, Stages
  <2> HIDE DEF f
  <2>3. /\ OnLink' = OnLink + 1 /\ pppWire' \in [SerialEnds -> [Stages -> Nat]]
        /\ \A e \in SerialEnds : pppWire'[e]["NCP"] = 0 /\ pppWire'[e]["DATA"] = 0
    BY <1>0, <1>1, <2>1, <2>2, LinkChanges
  <2>4. /\ serial' \in [SerialEnds -> [encap : Encaps, state : {"Dead", "LCP"}]]
        /\ \A e \in SerialEnds : serial'[e].encap = serial[e].encap
    BY <1>0, <1>1, <2>1, HearsLCP
  <2>5. WanTypes'
    BY <1>0, <1>1, <1>2, <2>3, <2>4 DEF WanTypes
  <2>6. WanIInv'
    <3>1. Started' + OnLink' + Answering' = Started + OnLink + Answering
      BY <1>3, <1>4, <2>3
    <3>2. /\ Started' \in Nat /\ OnLink' \in Nat /\ Answering' \in 0..1
          /\ Started' + OnLink' + Answering' <= Started + OnLink + Answering
          /\ Started + OnLink + Answering > 0
      BY <1>3, <1>4, <2>3, <3>1
    <3>3. \A e \in SerialEnds : serial'[e].encap = serial[e].encap
      BY <2>4
    <3> QED BY <1>2, <2>5, <3>1, <3>2, <3>3, ExchangeStep
  <2>7. Circulating = OnLink + Answering /\ Circulating' = OnLink' + Answering'
    BY <1>0, <2>5, CirculatingNow, CirculatingThen
  <2> QED BY <1>3, <1>4, <2>3, <2>6, <2>7
<1>6. CASE ~cable
  <2>1. UNCHANGED <<serial, pppWire>>
    BY <1>6 DEF AnswerPeer
  <2>2. OnLink' = OnLink
    BY <2>1 DEF OnLink
  <2>3. WanTypes'
    BY <1>0, <1>1, <1>2, <2>1 DEF WanTypes
  <2>4. WanIInv'
    BY <1>2, <1>3, <1>4, <1>6, <2>1, <2>2, <2>3, ExchangeStep
  <2>5. ~Connected
    BY <1>6 DEF Connected
  <2> QED BY <2>4, <2>5
<1> QED BY <1>5, <1>6

(* Cables and interfaces disturb.                                          *)
LEMMA DisturbStep ==
    ASSUME WanIInv, ChangeCable \/ \E e \in SerialEnds : ChangePort(e)
    PROVE  WanIInv' /\ Circulating' = Circulating
<1>1. /\ UNCHANGED <<serial, configuring, starting, pppWire, answering, addressed, configs>>
      /\ disturbed'
  BY DEF ChangeCable, ChangePort
<1>2. cable' \in BOOLEAN /\ portUp' \in [SerialEnds -> BOOLEAN]
  BY DEF ChangeCable, ChangePort, WanIInv, WanTypes
<1>3. WanTypes'
  BY <1>1, <1>2 DEF WanIInv, WanTypes
<1>4. Budget'
  BY <1>1 DEF WanIInv, Budget, Busy, Started, OnLink, Answering
<1>5. FirstOnes'
  BY <1>1 DEF FirstOnes
<1>6. Circulating' = Circulating
  BY <1>1 DEF Circulating, WireFrames
<1> QED BY <1>3, <1>4, <1>5, <1>6 DEF WanIInv

LEMMA WanStep ==
    ASSUME WanIInv, [WanNext]_wanVars
    PROVE  WanIInv' /\ [Circulating' < Circulating => ~Connected]_wanVars
<1>0. Circulating \in Nat
  BY Counts DEF WanIInv
<1>1. CASE UNCHANGED wanVars
  <2>1. UNCHANGED <<Started, OnLink, Answering, Busy, serial, portUp, cable, configuring, configs, disturbed>>
    BY <1>1 DEF wanVars, Busy, Started, OnLink, Answering
  <2>2. WanTypes'
    BY <1>1 DEF wanVars, WanIInv, WanTypes
  <2>3. Budget'
    BY <2>1 DEF WanIInv, Budget
  <2>4. FirstOnes'
    BY <2>1 DEF WanIInv, FirstOnes, Exchange, BothPPP
  <2> QED BY <1>1, <2>2, <2>3, <2>4 DEF WanIInv
<1>2. CASE WanNext
  <2> DEFINE Goal == WanIInv' /\ (Circulating' < Circulating => ~Connected)
  <2>1. ASSUME WanIInv', Circulating' >= Circulating PROVE Goal
    <3>1. Circulating' \in Nat
      <4>1. WanTypes'
        BY <2>1 DEF WanIInv
      <4> QED BY <4>1, CirculatingIsNat
    <3> QED BY <1>0, <2>1, <3>1
  <2>2. ASSUME WanIInv', Circulating' = Circulating PROVE Goal
    BY <1>0, <2>2
  <2> HIDE DEF Goal
  <2>3. ASSUME NEW c \in Connections, NEW e \in SerialEnds, NEW x \in {"hdlc", "ppp"}, ConfigureSerial(c, e, x)
        PROVE  Goal
    BY <2>2, <2>3, ConfigureStep
  <2>4. ASSUME NEW c \in Connections, CheckPeer(c) PROVE Goal
    BY <2>2, <2>4, CheckStep
  <2>5. ASSUME NEW e \in SerialEnds, InitiatePPPHandshake(e) PROVE Goal
    BY <2>1, <2>5, InitiateStep
  <2>6. ASSUME NEW e \in SerialEnds, NEW s \in Stages, DeliverPPP(e, s) PROVE Goal
    BY <2>6, DeliverStep DEF Goal
  <2>7. ASSUME AnswerPeer PROVE Goal
    BY <2>7, AnswerStep DEF Goal
  <2>8. ASSUME ChangeCable \/ \E e \in SerialEnds : ChangePort(e) PROVE Goal
    BY <2>2, <2>8, DisturbStep
  <2>9. Goal
    BY <1>2, <2>3, <2>4, <2>5, <2>6, <2>7, <2>8 DEF WanNext
  <2> QED BY <2>9 DEF Goal
<1> QED BY <1>1, <1>2

LEMMA WanInitially ==
    ASSUME WanInit
    PROVE  WanIInv
<1> USE WanAssumption
<1>1. WanTypes
  BY DEF WanInit, WanTypes, Encaps, Stages
<1>2. Busy = {} /\ Answering = 0
  BY DEF WanInit, Busy, Answering
<1>3. Started = 0 /\ OnLink = 0
  BY Ends DEF WanInit, Started, OnLink, Stages
<1>4. IsFiniteSet(Busy) /\ Cardinality(Busy) = 0
  BY <1>2, FS_EmptySet
<1>5. Budget
  BY <1>2, <1>3, <1>4 DEF Budget, WanInit
<1>6. FirstOnes
  <2>1. ~BothPPP
    BY Ends DEF BothPPP, WanInit
  <2> QED BY <1>2, <1>3, <2>1 DEF FirstOnes, WanInit, Exchange
<1> QED BY <1>1, <1>5, <1>6 DEF WanIInv

LEMMA WanHolds == WanSpec => []WanIInv
  BY WanInitially, WanStep, PTL DEF WanSpec

(* Whatever is configured, plugged and shut in whatever order: no end gets *)
(* beyond LCP and none gets its address from PPP, there are never more     *)
(* frames than configurations, and of the first two configurations, in     *)
(* whatever order their steps come, one starts the exchange.               *)
THEOREM PPPStaysSound == WanSpec => []PPPSound
<1>1. ASSUME WanIInv PROVE PPPSound
  <2>0. WanTypes /\ configs \in Nat
    BY <1>1 DEF WanIInv, WanTypes
  <2>1. PPPNeverUp
    BY <2>0 DEF WanTypes, PPPNeverUp
  <2>2. ASSUME NEW e \in SerialEnds
        PROVE  starting[e] \in 0..configs /\ \A s \in Stages : pppWire[e][s] \in 0..configs
    <3>1. Cardinality(Busy) \in Nat
      BY <1>1, FS_CardinalityType DEF WanIInv, Budget
    <3>2. starting[e] \in Nat /\ pppWire[e]["LCP"] \in Nat
      BY <2>0 DEF WanTypes, Stages
    <3>3. starting[e] <= configs /\ pppWire[e]["LCP"] <= configs
      BY <1>1, <2>0, <3>1, <3>2, Counts DEF WanIInv, Budget
    <3> QED BY <2>0, <3>2, <3>3 DEF WanTypes, Stages
  <2>3. WanTypeOK
    BY <2>0, <2>2 DEF WanTypes, WanTypeOK, Stages
  <2>4. FirstHandshakeStarts
    <3> SUFFICES ASSUME Connected, ~disturbed, \A c \in Connections : configuring[c] = Idle
                 PROVE  Circulating > 0 \/ \E e \in SerialEnds : starting[e] > 0
      BY DEF FirstHandshakeStarts
    <3>1. Busy = {} /\ BothPPP
      BY DEF Busy, BothPPP, Connected
    <3>2. Started + OnLink + Answering > 0
      BY <1>1, <3>1 DEF WanIInv, FirstOnes, Exchange
    <3> QED BY <2>0, <3>2, Counts
  <2> QED BY <2>1, <2>3, <2>4 DEF PPPSound
<1> QED BY <1>1, WanHolds, PTL

(* Between connected ends no step takes a frame of an exchange away.       *)
THEOREM ExchangeNeverEnds == WanSpec => LCPNeverEnds
  BY WanHolds, WanStep, PTL DEF WanSpec, LCPNeverEnds

(* The two together: once begun, the exchange is in LCP for ever.          *)
THEOREM PPPStays == WanSpec => PPPStaysInLCP
  BY PPPStaysSound, ExchangeNeverEnds, PTL DEF PPPStaysInLCP

-----------------------------------------------------------------------------
(* Phones: calls ring, and only without phones does the process end.        *)

(* Whether the process has ended is known, so that it has not is FALSE.    *)
VoipInv == crashed \in BOOLEAN /\ CallsSound

(* A call that is entered rings, whatever the others do.                   *)
LEMMA RingingStays ==
    ASSUME CallsOnlyRing, NEW id, SetCall(id, "ringing")
    PROVE  CallsOnlyRing'
  BY DEF CallsOnlyRing, SetCall

(* Only a message on the wire is handled with no phone found.              *)
LEMMA CallStep ==
    ASSUME VoipInv, ~crashed, VoipNext
    PROVE  VoipInv'
<1> USE DEF VoipInv, CallsSound
<1>1. ASSUME NEW p \in Phones, SCCP_REGISTER(p) \/ SIP_CALL(p) \/ RemovePhone(p) \/ ADD_VOIP_PHONE(p)
      PROVE  VoipInv'
  <2>1. crashed' = crashed
    BY <1>1 DEF SCCP_REGISTER, SIP_CALL, RemovePhone, ADD_VOIP_PHONE
  <2>2. SetCall(p, "ringing") \/ calls' = calls
    BY <1>1 DEF SCCP_REGISTER, SIP_CALL, RemovePhone, ADD_VOIP_PHONE
  <2> QED BY <2>1, <2>2, RingingStays DEF CallsOnlyRing, CrashesWithoutPhones
<1>2. CASE FinishRegister
  BY <1>2 DEF FinishRegister, HandleSCCP, CallsOnlyRing, CrashesWithoutPhones
<1>3. CASE FinishInvite
  BY <1>3 DEF FinishInvite, CallsOnlyRing, CrashesWithoutPhones
<1>4. ASSUME NEW msg \in voipWire, DeliverSCCP(msg) PROVE VoipInv'
  BY <1>4 DEF DeliverSCCP, HandleSCCP, FindPhone, CallsOnlyRing, CrashesWithoutPhones
<1>5. ASSUME NEW msg \in voipWire, DeliverInvite(msg) PROVE VoipInv'
  BY <1>5, RingingStays DEF DeliverInvite, CrashesWithoutPhones
<1>6. ASSUME NEW call \in voipTimers, StepVoIPTimer(call) PROVE VoipInv'
  BY <1>6 DEF StepVoIPTimer, Dispatch, CallsOnlyRing, CrashesWithoutPhones
<1>7. CASE Ended
  BY <1>7 DEF Ended
<1> QED
  BY <1>1, <1>2, <1>3, <1>4, <1>5, <1>6, <1>7 DEF VoipNext

(* For any phones, and however registrations, calls, removals and          *)
(* deliveries interleave: no call gets beyond ringing, and the process     *)
(* ends only after the last phone is gone.                                 *)
THEOREM CallsStaySound == VoipSpec => []CallsSound
<1>0. DOMAIN <<>> = {}
  OBVIOUS
<1>1. VoipInit => VoipInv
  BY <1>0 DEF VoipInit, VoipInv, CallsSound, CallsOnlyRing, CrashesWithoutPhones
<1>2. VoipInv /\ [VoipNext]_voipVars => VoipInv'
  <2> SUFFICES ASSUME VoipInv, [VoipNext]_voipVars PROVE VoipInv'
    OBVIOUS
  <2>1. CASE UNCHANGED voipVars
    BY <2>1 DEF voipVars, VoipInv, CallsSound, CallsOnlyRing, CrashesWithoutPhones
  <2>2. CASE VoipNext /\ crashed
    BY <2>2 DEF VoipNext, Ended, voipVars, VoipInv, CallsSound, CallsOnlyRing, CrashesWithoutPhones
  <2> QED BY <2>1, <2>2, CallStep DEF VoipInv
<1>3. VoipInv => CallsSound
  BY DEF VoipInv
<1> QED BY <1>1, <1>2, <1>3, PTL DEF VoipSpec

-----------------------------------------------------------------------------
(* QoS: what a bucket lets pass.                                            *)

(* The invariant.  PolicedRate bounds a bucket from above, by one of the   *)
(* rates it was used with; Covered bounds it from below, since only time   *)
(* and the making of a bucket add tokens and the cap is a rate in use.     *)
(* What ties the two to packets is Counted: where no packet was charged    *)
(* twice, tokens taken out are packets passed, or the one at hand.         *)
Clocked == \A k \in Keys : qosPolice[k].born <= qosPolice[k].last /\ qosPolice[k].last <= qosNow

Untouched == \A k \in Keys : qosPolice[k].seen = {} => qosPolice[k].taken = 0

CoversRate(b) == \E rate \in b.seen : rate * Unit <= b.tokens + Unit * b.taken
Covered == \A k \in Keys : qosPolice[k].seen # {} => CoversRate(qosPolice[k])

KeepsRate(b) ==
    \E rate \in b.seen : b.tokens + Unit * b.taken <= rate * (Unit + b.last - b.born)

AtHand(k) == handled # NoPacket /\ handled.key = k /\ handled.charged
Counted ==
    \A k \in Keys \ doubled :
        qosPolice[k].taken = qosPolice[k].passed + (IF AtHand(k) THEN 1 ELSE 0)

SingleLine ==
    handled # NoPacket /\ handled.key \notin doubled =>
        \/ handled.rates = <<>>
        \/ ~handled.charged /\ Tail(handled.rates) = <<>>

QosIInv == QosTypeOK /\ Clocked /\ Untouched /\ PolicedRate /\ Covered /\ Counted /\ SingleLine

-----------------------------------------------------------------------------
(* Arithmetic the steps need, kept apart as it is not linear.              *)
LEMMA ProductType == \A m, n \in Nat : m * n \in Nat
  OBVIOUS

LEMMA ProductMonotone ==
    ASSUME NEW x \in Int, NEW y \in Int, NEW z \in Nat, x <= y
    PROVE  x * z <= y * z
  OBVIOUS

(* A bucket that is used: it is the bucket of before or a full one, with   *)
(* tokens for the time gone by, and never filled above the rate.           *)
LEMMA UsedBucket ==
    ASSUME NEW b \in Bucket, NEW rate \in Rates, qosNow \in Nat,
           b.born <= b.last, b.last <= qosNow
    PROVE  LET u == Used(b, rate) IN
             /\ u \in Bucket
             /\ u.seen = b.seen \cup {rate} /\ u.last = qosNow
             /\ u.taken = b.taken /\ u.passed = b.passed
             /\ b.seen = {} => u.born = qosNow /\ u.tokens = rate * Unit
             /\ b.seen # {} =>
                  /\ u.born = b.born
                  /\ u.tokens <= b.tokens + rate * (qosNow - b.last)
                  /\ u.tokens = rate * Unit \/ u.tokens >= b.tokens
  <1> DEFINE u == Used(b, rate)
             m == Made(b, rate)
             f == Refilled(m, rate)
  <1>1. /\ rate \in Nat /\ Unit \in Nat /\ rate * Unit \in Nat
        /\ rate * (qosNow - b.last) \in Nat
    <2>1. rate \in Nat /\ Unit \in Nat /\ qosNow - b.last \in Nat
      BY QosAssumption DEF Bucket
    <2> QED
      BY <2>1, ProductType
  <1>2. CASE b.seen = {}
    <2>1. m = [tokens |-> rate * Unit, last |-> qosNow, born |-> qosNow,
               taken |-> b.taken, passed |-> b.passed, seen |-> b.seen]
      BY <1>2 DEF Made, Bucket
    <2>2. f = m
      BY <2>1 DEF Refilled
    <2>3. u = [m EXCEPT !.seen = b.seen \cup {rate}]
      BY <2>2 DEF Used
    <2> HIDE DEF u, m, f
    <2>4. u = [tokens |-> rate * Unit, last |-> qosNow, born |-> qosNow,
               taken |-> b.taken, passed |-> b.passed, seen |-> b.seen \cup {rate}]
      BY <2>1, <2>3
    <2>5. u \in Bucket
      BY <1>1, <2>4 DEF Bucket
    <2>6. QED
      BY <1>2, <2>4, <2>5 DEF u
  <1>3. CASE b.seen # {}
    <2>1. m = b
      BY <1>3 DEF Made
    <2>2. u = [f EXCEPT !.seen = b.seen \cup {rate}]
      BY DEF Used
    <2>3. CASE qosNow > b.last
      <3> DEFINE full == b.tokens + rate * (qosNow - b.last)
                 t == IF full > rate * Unit THEN rate * Unit ELSE full
      <3>1. f = [b EXCEPT !.tokens = t, !.last = qosNow]
        BY <2>1, <2>3 DEF Refilled
      <3>2. t \in Nat /\ t <= full /\ (t = rate * Unit \/ t >= b.tokens)
        BY <1>1 DEF Bucket
      <3> HIDE DEF u, f, t, m
      <3>3. u = [tokens |-> t, last |-> qosNow, born |-> b.born,
                 taken |-> b.taken, passed |-> b.passed, seen |-> b.seen \cup {rate}]
        BY <2>2, <3>1 DEF Bucket
      <3>4. u \in Bucket
        BY <3>2, <3>3 DEF Bucket
      <3> QED
        BY <1>3, <3>2, <3>3, <3>4 DEF u
    <2>4. CASE ~(qosNow > b.last)
      <3>1. f = b /\ b.last = qosNow
        BY <2>1, <2>4 DEF Refilled, Bucket
      <3> HIDE DEF u, f, m
      <3>2. u = [tokens |-> b.tokens, last |-> qosNow, born |-> b.born,
                 taken |-> b.taken, passed |-> b.passed, seen |-> b.seen \cup {rate}]
        BY <2>2, <3>1 DEF Bucket
      <3>3. u \in Bucket
        BY <3>2 DEF Bucket
      <3> QED
        BY <1>1, <1>3, <3>2, <3>3 DEF u, Bucket
    <2> QED
      BY <2>3, <2>4
  <1> QED
    BY <1>2, <1>3

(* Using a bucket keeps both bounds: a new one starts at its rate, and the *)
(* higher of two rates covers the time of both.                            *)
LEMMA UsedCovers ==
    ASSUME NEW b \in Bucket, NEW rate \in Rates, qosNow \in Nat,
           b.born <= b.last, b.last <= qosNow,
           b.seen # {} => CoversRate(b)
    PROVE  CoversRate(Used(b, rate))
  <1> DEFINE u == Used(b, rate)
  <1>1. /\ u \in Bucket /\ u.seen = b.seen \cup {rate} /\ u.taken = b.taken
        /\ b.seen = {} => u.tokens = rate * Unit
        /\ b.seen # {} => u.tokens = rate * Unit \/ u.tokens >= b.tokens
    BY UsedBucket
  <1>2. b.taken \in Nat /\ b.tokens \in Nat /\ b.seen \subseteq Rates /\ u.tokens \in Nat
    BY <1>1 DEF Bucket
  <1>3. Unit * b.taken \in Nat /\ rate * Unit \in Nat
    BY <1>2, ProductType, QosAssumption
  <1> HIDE DEF u
  <1>4. CASE u.tokens = rate * Unit
    <2>1. rate \in u.seen /\ rate * Unit <= u.tokens + Unit * u.taken
      BY <1>1, <1>2, <1>3, <1>4
    <2> QED
      BY <2>1 DEF CoversRate, u
  <1>5. CASE u.tokens # rate * Unit
    <2>1. b.seen # {} /\ u.tokens >= b.tokens
      BY <1>1, <1>5
    <2>2. PICK r \in b.seen : r * Unit <= b.tokens + Unit * b.taken
      BY <2>1 DEF CoversRate
    <2>3. r * Unit \in Nat
      BY <2>2, <1>2, ProductType, QosAssumption
    <2>4. r \in u.seen /\ r * Unit <= u.tokens + Unit * u.taken
      BY <1>1, <1>2, <1>3, <2>1, <2>2, <2>3
    <2> QED
      BY <2>4 DEF CoversRate, u
  <1> QED
    BY <1>4, <1>5

LEMMA UsedKeepsRate ==
    ASSUME NEW b \in Bucket, NEW rate \in Rates, qosNow \in Nat,
           b.born <= b.last, b.last <= qosNow,
           b.seen = {} => b.taken = 0, b.seen # {} => KeepsRate(b)
    PROVE  KeepsRate(Used(b, rate))
  <1> DEFINE u == Used(b, rate)
  <1>1. /\ u \in Bucket /\ u.seen = b.seen \cup {rate} /\ u.last = qosNow /\ u.taken = b.taken
        /\ b.seen = {} => u.born = qosNow /\ u.tokens = rate * Unit
        /\ b.seen # {} => u.born = b.born /\ u.tokens <= b.tokens + rate * (qosNow - b.last)
    BY UsedBucket
  <1>2. /\ b.taken \in Nat /\ b.tokens \in Nat /\ b.seen \subseteq Rates
        /\ b.born \in Nat /\ b.last \in Nat /\ u.tokens \in Nat
    BY <1>1 DEF Bucket
  <1>3. Unit \in Nat /\ rate \in Nat /\ Unit * b.taken \in Nat
    BY <1>2, ProductType, QosAssumption
  <1> HIDE DEF u
  <1>4. CASE b.seen = {}
    <2>1. Unit + u.last - u.born = Unit /\ u.tokens = rate * Unit
      BY <1>1, <1>2, <1>3, <1>4
    <2>2. Unit * u.taken = 0
      BY <1>1, <1>3, <1>4
    <2>3. rate \in u.seen /\ u.tokens + Unit * u.taken <= rate * (Unit + u.last - u.born)
      BY <1>1, <1>2, <1>3, <2>1, <2>2
    <2> QED
      BY <2>3 DEF KeepsRate, u
  <1>5. CASE b.seen # {}
    <2> DEFINE early == Unit + b.last - b.born
               late == qosNow - b.last
    <2>1. PICK r \in b.seen : b.tokens + Unit * b.taken <= r * early
      BY <1>5 DEF KeepsRate
    <2>2. r \in Nat /\ early \in Nat /\ late \in Nat
      <3>1. r \in Nat
        BY <1>2, <2>1, QosAssumption
      <3>2. early \in Nat
        BY <1>2, <1>3
      <3>3. late \in Nat
        BY <1>2
      <3> QED
        BY <3>1, <3>2, <3>3
    <2>3. Unit + u.last - u.born = early + late
      BY <1>1, <1>2, <1>3, <1>5
    <2>4. u.tokens + Unit * u.taken <= r * early + rate * late
      <3>1. r * early \in Nat /\ rate * late \in Nat
        BY <1>3, <2>2, ProductType
      <3>2. u.tokens <= b.tokens + rate * late
        BY <1>1, <1>5
      <3>3. Unit * u.taken = Unit * b.taken
        BY <1>1
      <3>4. \A s, t, m, x, y \in Int : s <= t + y /\ t + m <= x => s + m <= x + y
        OBVIOUS
      <3> QED
        BY <1>2, <1>3, <2>1, <3>1, <3>2, <3>3, <3>4
    <2> HIDE DEF early, late
    <2>5. \A q \in Nat : q * (early + late) = q * early + q * late
      BY <2>2
    <2>6. /\ r * early \in Int /\ r * late \in Int
          /\ rate * early \in Int /\ rate * late \in Int
          /\ u.tokens + Unit * u.taken \in Int
      BY <1>1, <1>2, <1>3, <2>2, ProductType
    <2>7. CASE r <= rate
      <3>1. r * early <= rate * early
        BY <1>3, <2>2, <2>7, ProductMonotone
      <3>2. u.tokens + Unit * u.taken <= rate * early + rate * late
        BY <2>4, <2>6, <3>1
      <3>3. u.tokens + Unit * u.taken <= rate * (Unit + u.last - u.born)
        BY <1>3, <2>3, <2>5, <3>2
      <3> QED
        BY <1>1, <3>3 DEF KeepsRate, u
    <2>8. CASE rate <= r
      <3>1. rate * late <= r * late
        BY <1>3, <2>2, <2>8, ProductMonotone
      <3>2. u.tokens + Unit * u.taken <= r * early + r * late
        BY <2>4, <2>6, <3>1
      <3>3. u.tokens + Unit * u.taken <= r * (Unit + u.last - u.born)
        BY <2>2, <2>3, <2>5, <3>2
      <3> QED
        BY <1>1, <3>3 DEF KeepsRate, u
    <2> QED
      BY <1>3, <2>2, <2>7, <2>8
  <1> QED
    BY <1>4, <1>5

-----------------------------------------------------------------------------
(* Appending a class's actions to a policy gives a policy.                 *)
LEMMA AppendedType ==
    ASSUME NEW classes \in Classes, NEW c \in QoSClasses, NEW rates \in Seq(Rates)
    PROVE  Appended(classes, c, rates) \in Classes
  <1> DEFINE Class == [class : QoSClasses, rates : Seq(Rates)]
             joined == [i \in DOMAIN classes |->
                 IF classes[i].class = c
                 THEN [class |-> c, rates |-> classes[i].rates \o rates] ELSE classes[i]]
  <1>1. classes \in Seq(Class)
    BY DEF Classes
  <1>2. DOMAIN classes = 1..Len(classes) /\ Len(classes) \in Nat
    BY <1>1
  <1>3. \A i \in DOMAIN classes : joined[i] \in Class
    <2> SUFFICES ASSUME NEW i \in DOMAIN classes PROVE joined[i] \in Class
      OBVIOUS
    <2>1. classes[i] \in Class
      BY <1>1, <1>2, ElementOfSeq
    <2>2. classes[i].rates \o rates \in Seq(Rates)
      BY <2>1
    <2> QED
      BY <2>1, <2>2
  <1>4. joined \in [1..Len(classes) -> Class]
    BY <1>2, <1>3
  <1>5. joined \in Seq(Class)
    BY <1>2, <1>4, SeqDef
  <1>6. Append(classes, [class |-> c, rates |-> rates]) \in Seq(Class)
    BY <1>1
  <1> QED
    BY <1>5, <1>6 DEF Appended, Classes

(* The bucket a police line leaves, whether it drops the packet or not.    *)
LEMMA PoliceBucket ==
    ASSUME QosTypeOK, Clocked, Police
    PROVE  /\ handled \in Handling /\ handled.key \in Keys
           /\ Head(handled.rates) \in Rates /\ Tail(handled.rates) \in Seq(Rates)
           /\ qosPolice[handled.key] \in Bucket
           /\ Used(qosPolice[handled.key], Head(handled.rates)) \in Bucket
  <1>1. handled \in Handling /\ handled.rates # <<>>
    BY DEF QosTypeOK, Police
  <1>2. handled.key \in Keys /\ handled.rates \in Seq(Rates)
    BY <1>1 DEF Handling
  <1>3. Head(handled.rates) \in Rates /\ Tail(handled.rates) \in Seq(Rates)
    BY <1>1, <1>2
  <1>4. qosPolice[handled.key] \in Bucket /\ qosNow \in Nat
    BY <1>2 DEF QosTypeOK
  <1>5. /\ qosPolice[handled.key].born <= qosPolice[handled.key].last
        /\ qosPolice[handled.key].last <= qosNow
    BY <1>2 DEF Clocked
  <1>6. Used(qosPolice[handled.key], Head(handled.rates)) \in Bucket
    BY <1>3, <1>4, <1>5, UsedBucket
  <1> QED
    BY <1>1, <1>2, <1>3, <1>4, <1>6

LEMMA TypeStep == QosTypeOK /\ Clocked /\ [QosNext]_qosVars => QosTypeOK'
  <1> SUFFICES ASSUME QosTypeOK, Clocked, [QosNext]_qosVars PROVE QosTypeOK'
    OBVIOUS
  <1>1. ASSUME NEW c \in QoSClasses, NEW match \in Matches, AddClassMap(c, match)
        PROVE  QosTypeOK'
    <2>1. match \subseteq Traffic
      BY QosAssumption
    <2> QED
      BY <1>1, <2>1 DEF AddClassMap, Typed, QosTypeOK
  <1>2. ASSUME NEW p \in QoSPolicies, NEW classes \in Classes, AddPolicyMap(p, classes)
        PROVE  QosTypeOK'
    BY <1>2 DEF AddPolicyMap, TypedPolicy, Typed, QosTypeOK
  <1>3. ASSUME NEW p \in QoSPolicies, NEW c \in QoSClasses, NEW rates \in Seq(Rates),
               AppendPolicyClass(p, c, rates)
        PROVE  QosTypeOK'
    <2>1. Appended(policyMaps[p], c, rates) \in Classes
      BY AppendedType DEF QosTypeOK
    <2> QED
      BY <1>3, <2>1 DEF AppendPolicyClass, TypedPolicy, Typed, QosTypeOK
  <1>4. ASSUME NEW port \in QoSPorts, NEW p \in QoSPolicies, ApplyServicePolicy(port, p)
        PROVE  QosTypeOK'
    BY <1>4 DEF ApplyServicePolicy, Typed, QosTypeOK
  <1>5. ASSUME NEW port \in QoSPorts, NEW kind \in Traffic, ApplyQoSToPacket(port, kind)
        PROVE  QosTypeOK'
    <2> DEFINE classes == policyMaps[ifaceQoS[port]]
    <2>1. PICK i \in DOMAIN classes :
            /\ handled' = [key |-> <<port, classes[i].class>>, rates |-> classes[i].rates,
                           charged |-> FALSE]
            /\ doubled' = IF Len(classes[i].rates) > 1
                          THEN doubled \cup {<<port, classes[i].class>>} ELSE doubled
      BY <1>5 DEF ApplyQoSToPacket
    <2>2. ifaceQoS[port] \in QoSPolicies
      BY <1>5 DEF ApplyQoSToPacket
    <2>3. classes \in Seq([class : QoSClasses, rates : Seq(Rates)])
      BY <2>2 DEF QosTypeOK, Classes
    <2>4. classes[i] \in [class : QoSClasses, rates : Seq(Rates)]
      <3>1. i \in 1..Len(classes)
        BY <2>3
      <3> QED
        BY <2>3, <3>1, ElementOfSeq
    <2>5. <<port, classes[i].class>> \in Keys
      BY <2>4 DEF Keys
    <2>6. handled' \in Handling /\ doubled' \subseteq Keys
      BY <2>1, <2>4, <2>5 DEF Handling, QosTypeOK
    <2> QED
      BY <1>5, <2>6 DEF ApplyQoSToPacket, qosConfig, QosTypeOK
  <1>6. CASE Police
    <2> DEFINE k == handled.key
               b == Used(qosPolice[k], Head(handled.rates))
    <2>1. k \in Keys /\ b \in Bucket /\ Tail(handled.rates) \in Seq(Rates)
      BY <1>6, PoliceBucket
    <2>2. CASE shouldPoliceDrop(b)
      <3>1. qosPolice' = [qosPolice EXCEPT ![k] = b] /\ handled' = NoPacket
        BY <1>6, <2>2 DEF Police
      <3> HIDE DEF k, b
      <3> QED
        BY <1>6, <2>1, <3>1 DEF Police, qosConfig, QosTypeOK
    <2>3. CASE ~shouldPoliceDrop(b)
      <3> DEFINE t == [b EXCEPT !.tokens = b.tokens - Unit, !.taken = b.taken + 1]
      <3>1. /\ qosPolice' = [qosPolice EXCEPT ![k] = t]
            /\ handled' = [key |-> k, rates |-> Tail(handled.rates), charged |-> TRUE]
        BY <1>6, <2>3 DEF Police
      <3>2. b.tokens - Unit \in Nat /\ b.taken + 1 \in Nat
        BY <2>1, <2>3, QosAssumption DEF shouldPoliceDrop, Bucket
      <3>3. handled' \in Handling
        BY <2>1, <3>1 DEF Handling
      <3> HIDE DEF k, b
      <3>4. t \in Bucket
        BY <2>1, <3>2 DEF Bucket
      <3> HIDE DEF t
      <3> QED
        BY <1>6, <2>1, <3>1, <3>3, <3>4 DEF Police, qosConfig, QosTypeOK
    <2> QED
      BY <2>2, <2>3
  <1>7. CASE Pass
    <2>1. handled.key \in Keys
      BY <1>7 DEF Pass, QosTypeOK, Handling
    <2>2. qosPolice[handled.key] \in Bucket
      BY <2>1 DEF QosTypeOK
    <2>3. [qosPolice[handled.key] EXCEPT !.passed = @ + 1] \in Bucket
      BY <2>2 DEF Bucket
    <2>4. qosPolice' \in [Keys -> Bucket]
      BY <1>7, <2>1, <2>3 DEF Pass, QosTypeOK
    <2> QED
      BY <1>7, <2>4 DEF Pass, qosConfig, QosTypeOK
  <1>8. CASE Later
    BY <1>8 DEF Later, qosConfig, QosTypeOK
  <1>9. CASE UNCHANGED qosVars
    BY <1>9 DEF qosVars, QosTypeOK
  <1>10. ASSUME NEW c \in QoSClasses, NEW rate \in Rates
         PROVE  <<>> \in Classes /\ <<[class |-> c, rates |-> <<rate>>]>> \in Classes
                /\ <<>> \in Seq(Rates) /\ <<rate>> \in Seq(Rates)
    BY DEF Classes
  <1> QED
    BY <1>1, <1>2, <1>3, <1>4, <1>5, <1>6, <1>7, <1>8, <1>9, <1>10 DEF QosNext

-----------------------------------------------------------------------------
LEMMA PolicedRateIs ==
    /\ PolicedRate <=> \A k \in Keys : qosPolice[k].seen # {} => KeepsRate(qosPolice[k])
    /\ PolicedRate' <=> \A k \in Keys : qosPolice'[k].seen # {} => KeepsRate(qosPolice'[k])
  BY DEF PolicedRate, KeepsRate

(* Where buckets and the packet stay, so does the invariant.               *)
LEMMA QuietStep ==
    ASSUME QosIInv, QosTypeOK', UNCHANGED <<qosPolice, handled, doubled>>, qosNow <= qosNow'
    PROVE  QosIInv'
  <1>1. Clocked'
    BY DEF QosIInv, Clocked, QosTypeOK, Bucket
  <1>2. Untouched' /\ Covered' /\ SingleLine'
    BY DEF QosIInv, Untouched, Covered, SingleLine
  <1>3. PolicedRate'
    BY DEF QosIInv, PolicedRate
  <1>4. Counted'
    BY DEF QosIInv, Counted, AtHand
  <1> QED
    BY <1>1, <1>2, <1>3, <1>4 DEF QosIInv

LEMMA ArrivalStep ==
    ASSUME QosIInv, QosTypeOK', NEW port \in QoSPorts, NEW kind \in Traffic,
           ApplyQoSToPacket(port, kind)
    PROVE  QosIInv'
  <1> DEFINE classes == policyMaps[ifaceQoS[port]]
  <1>1. /\ handled = NoPacket /\ ifaceQoS[port] \in QoSPolicies
        /\ UNCHANGED <<qosNow, qosPolice>>
    BY DEF ApplyQoSToPacket
  <1>2. PICK i \in DOMAIN classes :
          /\ handled' = [key |-> <<port, classes[i].class>>, rates |-> classes[i].rates,
                         charged |-> FALSE]
          /\ doubled' = IF Len(classes[i].rates) > 1
                        THEN doubled \cup {<<port, classes[i].class>>} ELSE doubled
    BY DEF ApplyQoSToPacket
  <1>3. classes[i].rates \in Seq(Rates)
    <2>1. classes \in Seq([class : QoSClasses, rates : Seq(Rates)])
      BY <1>1 DEF QosIInv, QosTypeOK, Classes
    <2>2. i \in 1..Len(classes)
      BY <2>1
    <2>3. classes[i] \in [class : QoSClasses, rates : Seq(Rates)]
      BY <2>1, <2>2, ElementOfSeq
    <2> QED
      BY <2>3
  <1> HIDE DEF classes
  <1>4. Clocked' /\ Untouched' /\ Covered' /\ PolicedRate'
    BY <1>1 DEF QosIInv, Clocked, Untouched, Covered, PolicedRate
  <1>5. Counted'
    <2>1. \A k \in Keys : ~AtHand(k) /\ ~AtHand(k)'
      BY <1>1, <1>2 DEF AtHand
    <2>2. doubled \subseteq doubled'
      BY <1>2
    <2> QED
      BY <1>1, <2>1, <2>2 DEF QosIInv, Counted
  <1>6. SingleLine'
    <2> SUFFICES ASSUME handled'.key \notin doubled'
                 PROVE  handled'.rates = <<>> \/ Tail(handled'.rates) = <<>>
      BY <1>2 DEF SingleLine
    <2>1. ~(Len(classes[i].rates) > 1)
      BY <1>2
    <2>2. classes[i].rates = <<>> \/ Tail(classes[i].rates) = <<>>
      BY <1>3, <2>1
    <2> QED
      BY <1>2, <2>2
  <1> QED
    BY <1>4, <1>5, <1>6 DEF QosIInv

LEMMA PassStep ==
    ASSUME QosIInv, QosTypeOK', Pass
    PROVE  QosIInv'
  <1> DEFINE k0 == handled.key
  <1>1. handled # NoPacket /\ handled' = NoPacket /\ UNCHANGED <<qosNow, doubled>> /\ k0 \in Keys
    BY DEF Pass, QosIInv, QosTypeOK, Handling
  <1>2. \A k \in Keys : qosPolice[k] \in Bucket
    BY DEF QosIInv, QosTypeOK
  <1>3. \A k \in Keys : AtHand(k) <=> k = k0 /\ handled.charged
    BY <1>1 DEF AtHand
  <1>4. \A k \in Keys :
          /\ qosPolice'[k].tokens = qosPolice[k].tokens /\ qosPolice'[k].last = qosPolice[k].last
          /\ qosPolice'[k].born = qosPolice[k].born /\ qosPolice'[k].taken = qosPolice[k].taken
          /\ qosPolice'[k].seen = qosPolice[k].seen
          /\ qosPolice'[k].passed = qosPolice[k].passed + (IF AtHand(k) THEN 1 ELSE 0)
    <2> SUFFICES ASSUME NEW k \in Keys
                 PROVE  /\ qosPolice'[k].tokens = qosPolice[k].tokens
                        /\ qosPolice'[k].last = qosPolice[k].last
                        /\ qosPolice'[k].born = qosPolice[k].born
                        /\ qosPolice'[k].taken = qosPolice[k].taken
                        /\ qosPolice'[k].seen = qosPolice[k].seen
                        /\ qosPolice'[k].passed = qosPolice[k].passed + (IF AtHand(k) THEN 1 ELSE 0)
      OBVIOUS
    <2>1. CASE AtHand(k)
      <3>1. qosPolice'[k] = [qosPolice[k] EXCEPT !.passed = @ + 1]
        BY <1>1, <1>3, <2>1 DEF Pass, QosIInv, QosTypeOK
      <3> QED
        BY <1>2, <2>1, <3>1 DEF Bucket
    <2>2. CASE ~AtHand(k)
      <3>1. qosPolice'[k] = qosPolice[k]
        BY <1>1, <1>3, <2>2 DEF Pass, QosIInv, QosTypeOK
      <3> QED
        BY <1>2, <2>2, <3>1 DEF Bucket
    <2> QED
      BY <2>1, <2>2
  <1>5. Clocked' /\ Untouched'
    BY <1>1, <1>4 DEF QosIInv, Clocked, Untouched
  <1>6. Covered'
    BY <1>4 DEF QosIInv, Covered, CoversRate
  <1>7. PolicedRate'
    BY <1>4, PolicedRateIs DEF QosIInv, KeepsRate
  <1>8. Counted'
    <2>1. \A k \in Keys : ~AtHand(k)'
      BY <1>1 DEF AtHand
    <2> QED
      BY <1>1, <1>2, <1>4, <2>1 DEF QosIInv, Counted, Bucket
  <1>9. SingleLine'
    BY <1>1 DEF SingleLine
  <1> QED
    BY <1>5, <1>6, <1>7, <1>8, <1>9 DEF QosIInv

(* What a police line finds when it uses its bucket.                       *)
LEMMA PoliceFinds ==
    ASSUME QosIInv, Police
    PROVE  LET b == Used(qosPolice[handled.key], Head(handled.rates)) IN
             /\ b \in Bucket /\ b.seen # {}
             /\ b.born <= b.last /\ b.last = qosNow
             /\ KeepsRate(b) /\ CoversRate(b)
             /\ b.taken = qosPolice[handled.key].taken
             /\ b.passed = qosPolice[handled.key].passed
  <1> DEFINE old == qosPolice[handled.key]
             rate == Head(handled.rates)
             b == Used(old, rate)
  <1>1. handled.key \in Keys /\ rate \in Rates /\ old \in Bucket /\ qosNow \in Nat
    BY PoliceBucket DEF QosIInv, QosTypeOK
  <1>2. /\ old.born <= old.last /\ old.last <= qosNow
        /\ old.seen = {} => old.taken = 0
        /\ old.seen # {} => CoversRate(old) /\ KeepsRate(old)
    BY <1>1, PolicedRateIs DEF QosIInv, Clocked, Untouched, Covered
  <1> HIDE DEF old, rate
  <1>3. CoversRate(b) /\ KeepsRate(b)
    BY <1>1, <1>2, UsedCovers, UsedKeepsRate
  <1>4. /\ b \in Bucket /\ b.seen = old.seen \cup {rate} /\ b.last = qosNow
        /\ b.taken = old.taken /\ b.passed = old.passed
        /\ b.born = qosNow \/ b.born = old.born
    BY <1>1, <1>2, UsedBucket
  <1>5. b.born <= b.last
    BY <1>1, <1>2, <1>4 DEF Bucket
  <1> QED
    BY <1>3, <1>4, <1>5 DEF old, rate

LEMMA PoliceStep ==
    ASSUME QosIInv, QosTypeOK', Police
    PROVE  QosIInv'
  <1> DEFINE k0 == handled.key
             b == Used(qosPolice[k0], Head(handled.rates))
             n == IF shouldPoliceDrop(b) THEN b
                  ELSE [b EXCEPT !.tokens = b.tokens - Unit, !.taken = b.taken + 1]
  <1>1. /\ b \in Bucket /\ b.seen # {} /\ b.born <= b.last /\ b.last = qosNow
        /\ KeepsRate(b) /\ CoversRate(b)
        /\ b.taken = qosPolice[k0].taken /\ b.passed = qosPolice[k0].passed
    BY PoliceFinds
  <1>2. /\ handled \in Handling /\ k0 \in Keys /\ Tail(handled.rates) \in Seq(Rates)
        /\ handled # NoPacket /\ handled.rates # <<>> /\ UNCHANGED <<qosNow, doubled>>
        /\ \A k \in Keys : qosPolice[k] \in Bucket
    BY PoliceBucket DEF QosIInv, QosTypeOK, Police
  <1>3. qosPolice' = [qosPolice EXCEPT ![k0] = n]
    BY DEF Police
  <1>4. handled' = IF shouldPoliceDrop(b) THEN NoPacket
                   ELSE [key |-> k0, rates |-> Tail(handled.rates), charged |-> TRUE]
    BY DEF Police
  <1>5. /\ n.last = qosNow /\ n.born <= n.last /\ n.seen # {} /\ n.passed = b.passed
        /\ n.taken = b.taken + (IF shouldPoliceDrop(b) THEN 0 ELSE 1)
        /\ n.tokens + Unit * n.taken = b.tokens + Unit * b.taken
        /\ n.born = b.born /\ n.seen = b.seen
    <2>1. CASE shouldPoliceDrop(b)
      <3>1. n = b
        BY <2>1
      <3> HIDE DEF b, n
      <3> QED
        BY <1>1, <2>1, <3>1 DEF Bucket
    <2>2. CASE ~shouldPoliceDrop(b)
      <3>1. n = [b EXCEPT !.tokens = b.tokens - Unit, !.taken = b.taken + 1]
        BY <2>2
      <3> HIDE DEF b, n
      <3>2. Unit * (b.taken + 1) = Unit * b.taken + Unit /\ Unit * b.taken \in Nat
        BY <1>1, QosAssumption DEF Bucket
      <3> QED
        BY <1>1, <2>2, <3>1, <3>2, QosAssumption DEF Bucket
    <2> QED
      BY <2>1, <2>2
  <1> HIDE DEF b, n
  <1>6. KeepsRate(n) /\ CoversRate(n)
    BY <1>1, <1>5 DEF KeepsRate, CoversRate
  <1>7. qosPolice'[k0] = n /\ \A k \in Keys \ {k0} : qosPolice'[k] = qosPolice[k]
    BY <1>2, <1>3 DEF QosIInv, QosTypeOK
  <1> HIDE DEF k0
  <1>8. Clocked'
    <2>1. qosNow \in Nat
      BY DEF QosIInv, QosTypeOK
    <2> QED
      BY <1>2, <1>5, <1>7, <2>1 DEF QosIInv, Clocked
  <1>9. Untouched'
    BY <1>5, <1>7 DEF QosIInv, Untouched
  <1>10. Covered'
    BY <1>6, <1>7 DEF QosIInv, Covered
  <1>11. PolicedRate'
    BY <1>6, <1>7, PolicedRateIs DEF QosIInv
  <1>12. Counted'
    <2> SUFFICES ASSUME NEW k \in Keys \ doubled
                 PROVE  qosPolice'[k].taken =
                            qosPolice'[k].passed + (IF AtHand(k)' THEN 1 ELSE 0)
      BY <1>2 DEF Counted
    <2>1. qosPolice[k].taken = qosPolice[k].passed + (IF AtHand(k) THEN 1 ELSE 0)
      BY DEF QosIInv, Counted
    <2>2. CASE k = k0
      <3>1. ~AtHand(k)
        BY <1>2, <2>2 DEF QosIInv, SingleLine, AtHand, k0
      <3>2. AtHand(k)' <=> ~shouldPoliceDrop(b)
        <4>1. CASE shouldPoliceDrop(b)
          BY <1>4, <4>1 DEF AtHand
        <4>2. CASE ~shouldPoliceDrop(b)
          <5>1. handled' = [key |-> k0, rates |-> Tail(handled.rates), charged |-> TRUE]
            BY <1>4, <4>2
          <5>2. handled' \in Handling
            BY <1>2, <5>1 DEF Handling
          <5> QED
            BY <2>2, <4>2, <5>1, <5>2, QosAssumption DEF AtHand
        <4> QED
          BY <4>1, <4>2
      <3>3. n.taken = n.passed + (IF AtHand(k)' THEN 1 ELSE 0)
        BY <1>1, <1>2, <1>5, <2>1, <2>2, <3>1, <3>2 DEF Bucket
      <3> QED
        BY <1>7, <2>2, <3>3
    <2>3. CASE k # k0
      <3>1. ~AtHand(k)
        BY <2>3 DEF AtHand, k0
      <3>2. ~AtHand(k)'
        BY <1>4, <2>3 DEF AtHand
      <3> QED
        BY <1>7, <2>1, <2>3, <3>1, <3>2
    <2> QED
      BY <2>2, <2>3
  <1>13. SingleLine'
    <2> SUFFICES ASSUME handled' # NoPacket, handled'.key \notin doubled
                 PROVE  handled'.rates = <<>>
      BY <1>2 DEF SingleLine
    <2>1. handled' = [key |-> k0, rates |-> Tail(handled.rates), charged |-> TRUE]
      BY <1>4
    <2>2. k0 \notin doubled
      BY <2>1
    <2>3. Tail(handled.rates) = <<>>
      BY <1>2, <2>2 DEF QosIInv, SingleLine, k0
    <2> QED
      BY <2>1, <2>3
  <1> QED
    BY <1>8, <1>9, <1>10, <1>11, <1>12, <1>13 DEF QosIInv

-----------------------------------------------------------------------------
LEMMA QosInitIInv == QosInit => QosIInv
  <1> SUFFICES ASSUME QosInit PROVE QosIInv
    OBVIOUS
  <1>1. \A k \in Keys : qosPolice[k] =
            [tokens |-> 0, last |-> 0, born |-> 0, taken |-> 0, passed |-> 0, seen |-> {}]
    BY DEF QosInit
  <1>2. QosTypeOK
    BY DEF QosInit, QosTypeOK, Classes, Bucket
  <1>3. Clocked /\ Untouched /\ PolicedRate /\ Covered
    BY <1>1 DEF QosInit, Clocked, Untouched, PolicedRate, Covered
  <1>4. Counted /\ SingleLine
    BY <1>1 DEF QosInit, Counted, AtHand, SingleLine
  <1> QED
    BY <1>2, <1>3, <1>4 DEF QosIInv

LEMMA QosNextIInv == QosIInv /\ [QosNext]_qosVars => QosIInv'
  <1> SUFFICES ASSUME QosIInv, [QosNext]_qosVars PROVE QosIInv'
    OBVIOUS
  <1>1. QosTypeOK'
    BY TypeStep DEF QosIInv
  <1>2. qosNow \in Nat
    BY DEF QosIInv, QosTypeOK
  <1>3. CASE Typed
    BY <1>1, <1>2, <1>3, QuietStep DEF Typed
  <1>4. CASE Later
    BY <1>1, <1>2, <1>4, QuietStep DEF Later
  <1>5. CASE UNCHANGED qosVars
    BY <1>1, <1>2, <1>5, QuietStep DEF qosVars
  <1>6. ASSUME NEW port \in QoSPorts, NEW kind \in Traffic, ApplyQoSToPacket(port, kind)
        PROVE  QosIInv'
    BY <1>1, <1>6, ArrivalStep
  <1>7. CASE Police
    BY <1>1, <1>7, PoliceStep
  <1>8. CASE Pass
    BY <1>1, <1>8, PassStep
  <1> QED
    BY <1>3, <1>4, <1>5, <1>6, <1>7, <1>8
    DEF QosNext, AddClassMap, AddPolicyMap, AppendPolicyClass, ApplyServicePolicy, TypedPolicy

THEOREM QosSpecIInv == QosSpec => []QosIInv
  BY QosInitIInv, QosNextIInv, PTL DEF QosSpec

(* Whatever is configured and whenever, tokens are never negative and the  *)
(* policer's state keeps its types.                                        *)
THEOREM QosTypeCorrect == QosSpec => []QosTypeOK
  <1>1. QosIInv => QosTypeOK
    BY DEF QosIInv
  <1> QED
    BY <1>1, QosSpecIInv, PTL

(* No sequence of lines, rates and packets gets more through a bucket than *)
(* the highest of its rates allows since it was made.                      *)
THEOREM QosPolicedRate == QosSpec => []PolicedRate
  <1>1. QosIInv => PolicedRate
    BY DEF QosIInv
  <1> QED
    BY <1>1, QosSpecIInv, PTL

(* A packet is dropped only where as many as one of the rates have passed, *)
(* except through a class with two police lines.                           *)
THEOREM QosFirstBurst == QosSpec => FirstBurst
  <1> DEFINE Burst == \A k \in Keys \ doubled :
                 Dropped(k) => \E rate \in qosPolice'[k].seen : qosPolice'[k].passed >= rate
  <1>1. QosIInv /\ [QosNext]_qosVars => [Burst]_qosVars
    <2> SUFFICES ASSUME QosIInv, QosNext, NEW k \in Keys \ doubled, Dropped(k)
                 PROVE  \E rate \in qosPolice'[k].seen : qosPolice'[k].passed >= rate
      OBVIOUS
    <2> DEFINE b == Used(qosPolice[k], Head(handled.rates))
    <2>1. Police
      BY DEF QosNext, Dropped, AddClassMap, AddPolicyMap, AppendPolicyClass, TypedPolicy,
             ApplyServicePolicy, Typed, ApplyQoSToPacket, Pass, Later
    <2>2. /\ b \in Bucket /\ CoversRate(b)
          /\ b.taken = qosPolice[k].taken /\ b.passed = qosPolice[k].passed
      BY <2>1, PoliceFinds DEF Dropped
    <2>3. handled \in Handling /\ Tail(handled.rates) \in Seq(Rates)
      BY <2>1, PoliceBucket DEF QosIInv
    <2>4. shouldPoliceDrop(b) /\ qosPolice' = [qosPolice EXCEPT ![k] = b]
      <3>1. handled' \notin Handling
        BY QosAssumption DEF Dropped
      <3>2. [key |-> k, rates |-> Tail(handled.rates), charged |-> TRUE] \in Handling
        BY <2>3 DEF Handling
      <3> QED
        BY <2>1, <3>1, <3>2 DEF Police, Dropped
    <2>5. qosPolice'[k] = b
      BY <2>4 DEF QosIInv, QosTypeOK
    <2>6. qosPolice[k].taken = qosPolice[k].passed
      <3>1. ~AtHand(k)
        BY DEF Dropped, QosIInv, SingleLine, AtHand
      <3>2. qosPolice[k].passed \in Nat
        BY DEF QosIInv, QosTypeOK, Bucket
      <3> QED
        BY <3>1, <3>2 DEF QosIInv, Counted
    <2> HIDE DEF b
    <2>7. PICK rate \in b.seen : rate * Unit <= b.tokens + Unit * b.taken
      BY <2>2 DEF CoversRate
    <2>8. rate \in Nat /\ b.taken \in Nat /\ b.tokens \in Nat /\ b.tokens < Unit /\ Unit \in Nat
      BY <2>2, <2>4, <2>7, QosAssumption DEF Bucket, shouldPoliceDrop
    <2>9. rate <= b.taken
      <3> SUFFICES ASSUME b.taken + 1 <= rate PROVE FALSE
        BY <2>8
      <3>1. (b.taken + 1) * Unit <= rate * Unit
        BY <2>8, ProductMonotone
      <3>2. (b.taken + 1) * Unit = Unit * b.taken + Unit /\ Unit * b.taken \in Nat /\ rate * Unit \in Nat
        BY <2>8, ProductType
      <3> QED
        BY <2>7, <2>8, <3>1, <3>2
    <2> QED
      BY <2>2, <2>5, <2>6, <2>7, <2>8, <2>9
  <1> QED
    BY <1>1, QosSpecIInv, PTL DEF QosSpec, FirstBurst

(* The rate is never exceeded, and the burst is never withheld.            *)
THEOREM QosPolicerFair == QosSpec => PolicerFair
  BY QosTypeCorrect, QosPolicedRate, QosFirstBurst, PTL DEF PolicerFair
=============================================================================
