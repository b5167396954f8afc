----------------------------- MODULE PingProofs -----------------------------
(* Every ping session is guarded by a timeout, no timeout is early, no     *)
(* request is answered twice, and the queue is Scheduler's: for every      *)
(* number of requests and devices, every delay and every bound.            *)
EXTENDS Ping, FiniteSetTheorems, TLAPS

(* The queue is ahead of the clock, and a queued timeout is due no earlier *)
(* than Timeout after the clock value its key carries.                     *)
QueueOK ==
    \A e \in pq : /\ simClock <= e.timestamp
                  /\ e.type = "TIMER_ICMP" => e.data.at + Timeout <= e.timestamp

(* The same for the timeout the loop is handling.                          *)
CurrentOK ==
    current # None /\ current.type = "TIMER_ICMP" =>
        current.data.at + Timeout <= simClock

(* A goroutine's clock reading is never ahead of the clock.                *)
ThreadsOK == \A r \in Requests : InCall(r) => local[r].at <= simClock

IInv == TypeOK /\ QueueOK /\ CurrentOK /\ ThreadsOK /\ SessionGuarded

(* The identifier is a natural number, whatever the clock shows.           *)
LEMMA ICMPIDType == \A t \in Nat : ICMPID(t) \in Nat
  <1> SUFFICES ASSUME NEW t \in Nat PROVE ICMPID(t) \in Nat
    OBVIOUS
  <1>1. t \div TicksPerMs \in Nat
    BY PingAssumption
  <1>2. IDSpace \in Nat /\ IDSpace > 1
    BY PingAssumption
  <1> DEFINE u == t \div TicksPerMs
  <1>3. u % IDSpace \in Nat
    <2> HIDE DEF u
    <2> QED BY <1>1, <1>2 DEF u
  <1> DEFINE v == u % IDSpace
  <1>4. v % (IDSpace - 1) \in Nat
    <2> HIDE DEF v
    <2> QED BY <1>3, <1>2 DEF v
  <1> QED BY <1>4 DEF ICMPID

(* What Schedule adds to the queue.                                        *)
LEMMA ScheduleAdds ==
    ASSUME TypeOK, NEW type, NEW offset \in Nat, NEW data,
           Schedule(type, offset, data),
           \A i, t \in Nat : [id |-> i, timestamp |-> t, type |-> type,
                              data |-> data] \in Event
    PROVE  \E e \in Event :
             /\ e.type = type /\ e.data = data
             /\ e.timestamp = simClock + offset
             /\ pq' = pq \cup {e}
             /\ eventCount' \in Nat
  <1> DEFINE e == [id |-> eventCount + 1, timestamp |-> simClock + offset,
                   type |-> type, data |-> data]
  <1>1. eventCount + 1 \in Nat /\ simClock + offset \in Nat
    BY DEF TypeOK
  <1>2. e \in Event
    BY <1>1
  <1>3. pq' = pq \cup {e} /\ eventCount' \in Nat
    BY <1>1 DEF Schedule
  <1> QED
    BY <1>2, <1>3

LEMMA InitIInv == Init => IInv
  <1> SUFFICES ASSUME Init PROVE IInv
    OBVIOUS
  <1> USE PingAssumption DEF Init
  <1>1. TypeOK
    <2>1. pq \subseteq Event
      BY DEF Event
    <2>2. DOMAIN pingSessions = {}
      OBVIOUS
    <2>3. local \in [Requests -> Local \cup {None}]
      OBVIOUS
    <2>4. \A r \in Requests : ~InCall(r)
      BY DEF InCall
    <2> QED
      BY <2>1, <2>2, <2>3, <2>4 DEF TypeOK
  <1>2. QueueOK /\ CurrentOK /\ ThreadsOK /\ SessionGuarded
    BY DEF QueueOK, CurrentOK, ThreadsOK, SessionGuarded, InCall
  <1> QED
    BY <1>1, <1>2 DEF IInv

(* An action that leaves the queue, the clock, the loop and the goroutines *)
(* alone keeps the invariant if it only takes sessions away.               *)
LEMMA FewerSessions ==
    ASSUME IInv, UNCHANGED <<schedVars, draining, pc, local>>,
           devices' \subseteq devices,
           NEW D \in SUBSET DOMAIN pingSessions,
           pingSessions' = [k \in D |-> pingSessions[k]]
    PROVE  IInv'
  <1>1. TypeOK'
    BY DEF IInv, TypeOK, schedVars, InCall
  <1>2. QueueOK' /\ CurrentOK' /\ ThreadsOK'
    BY DEF IInv, QueueOK, CurrentOK, ThreadsOK, schedVars, InCall
  <1>3. SessionGuarded'
    BY DEF IInv, SessionGuarded, Handling, IsTimeoutOf, Key, schedVars
  <1> QED
    BY <1>1, <1>2, <1>3 DEF IInv

(* Likewise one that adds an event other than a timeout, or a timeout      *)
(* that is late enough.                                                    *)
LEMMA OneMoreEvent ==
    ASSUME IInv, NEW e \in Event, pq' = pq \cup {e}, eventCount' \in Nat,
           simClock <= e.timestamp,
           e.type = "TIMER_ICMP" => e.data.at + Timeout <= e.timestamp,
           UNCHANGED <<simClock, current, draining, pc, local, devices,
                       pingSessions>>
    PROVE  IInv'
  <1>1. TypeOK'
    BY DEF IInv, TypeOK, InCall
  <1>2. QueueOK' /\ CurrentOK' /\ ThreadsOK'
    BY DEF IInv, QueueOK, CurrentOK, ThreadsOK, InCall
  <1>3. SessionGuarded'
    BY DEF IInv, SessionGuarded, Handling, IsTimeoutOf, Key
  <1> QED
    BY <1>1, <1>2, <1>3 DEF IInv

(* The queue stays as it is, or gains one frame that is not in the past.   *)
FrameMayBeAdded ==
    /\ pq \subseteq pq' /\ pq' \subseteq Event /\ eventCount' \in Nat
    /\ \A e \in pq' \ pq : simClock <= e.timestamp /\ e.type = "PACKET_RX"

(* Every step keeps the invariant.                                         *)
LEMMA NextIInv == IInv /\ [Next]_vars => IInv'
  <1> SUFFICES ASSUME IInv, [Next]_vars PROVE IInv'
    OBVIOUS
  <1>c. /\ Timeout \in Nat /\ Interval \in Nat /\ Delays \subseteq Nat
        /\ ProtoTimer # "PACKET_RX" /\ ProtoTimer # "TIMER_ICMP"
        /\ None \notin Event /\ None \notin Local
    BY PingAssumption
  <1>t. TypeOK /\ simClock \in Nat
    BY DEF IInv, TypeOK
  <1>1. ASSUME NEW r \in Requests, NEW p \in Pings, StartPing(r, p[1], p[2])
        PROVE  IInv'
    <2>1. [source |-> p[1], dest |-> p[2], at |-> simClock] \in Local
      BY <1>t, PingAssumption DEF Local
    <2>2. /\ UNCHANGED <<schedVars, draining, devices, pingSessions>>
          /\ pc[r] = "idle"
          /\ pc' = [pc EXCEPT ![r] = "read"]
          /\ local' = [local EXCEPT ![r] =
                          [source |-> p[1], dest |-> p[2], at |-> simClock]]
      BY <1>1 DEF StartPing, sessionVars
    <2>3. TypeOK'
      BY <2>1, <2>2 DEF IInv, TypeOK, InCall, schedVars
    <2>4. QueueOK' /\ CurrentOK'
      BY <2>2 DEF IInv, QueueOK, CurrentOK, schedVars
    <2>5. ThreadsOK'
      BY <2>2, <1>t DEF IInv, ThreadsOK, InCall, schedVars, TypeOK
    <2>6. SessionGuarded'
      BY <2>2, <1>t DEF IInv, SessionGuarded, Handling, IsTimeoutOf, Key,
                        schedVars, TypeOK
    <2> QED
      BY <2>3, <2>4, <2>5, <2>6 DEF IInv
  <1>2. ASSUME NEW r \in Requests, NEW p \in Pings, StartPingError(r, p[1])
        PROVE  IInv'
    <2>1. /\ UNCHANGED <<schedVars, draining, devices, pingSessions, local>>
          /\ pc[r] = "idle"
          /\ pc' = [pc EXCEPT ![r] = "done"]
      BY <1>2 DEF StartPingError, sessionVars
    <2>2. TypeOK'
      BY <2>1 DEF IInv, TypeOK, InCall, schedVars
    <2>3. QueueOK' /\ CurrentOK' /\ ThreadsOK'
      BY <2>1, <1>t DEF IInv, QueueOK, CurrentOK, ThreadsOK, InCall, schedVars, TypeOK
    <2>4. SessionGuarded'
      BY <2>1, <1>t DEF IInv, SessionGuarded, Handling, IsTimeoutOf, Key,
                        schedVars, TypeOK
    <2> QED
      BY <2>2, <2>3, <2>4 DEF IInv
  <1>3. ASSUME NEW r \in Requests, InsertSession(r) PROVE IInv'
    <2> DEFINE k == Key(r)
               s == [req |-> r, dest |-> local[r].dest,
                     icmpID |-> ICMPID(local[r].at), sentAt |-> local[r].at]
    <2>1. /\ UNCHANGED <<schedVars, draining, devices, local>>
          /\ pc[r] = "read"
          /\ pc' = [pc EXCEPT ![r] = "inserted"]
          /\ pingSessions' = [x \in DOMAIN pingSessions \cup {k} |->
                                IF x = k THEN s ELSE pingSessions[x]]
      BY <1>3 DEF InsertSession
    <2>2. local[r] \in Local
      BY <2>1, <1>t DEF TypeOK, InCall
    <2>3. k \in SessionKey /\ s \in Session /\ s.sentAt = k.at
      BY <2>2, ICMPIDType DEF Local, Key, SessionKey, Session
    <2>k. k' = k
      BY <2>1 DEF Key
    <2>4. TypeOK'
      <3> HIDE DEF k, s
      <3>1. DOMAIN pingSessions' = DOMAIN pingSessions \cup {k}
        BY <2>1
      <3>2. \A x \in DOMAIN pingSessions' :
               pingSessions'[x] \in Session /\ pingSessions'[x].sentAt = x.at
        BY <2>1, <2>3, <1>t DEF TypeOK
      <3> QED
        BY <3>1, <3>2, <2>1, <2>2, <2>3, <1>t DEF TypeOK, InCall, schedVars
    <2>5. QueueOK' /\ CurrentOK' /\ ThreadsOK'
      BY <2>1, <1>t DEF IInv, QueueOK, CurrentOK, ThreadsOK, InCall, schedVars, TypeOK
    <2>6. SessionGuarded'
      <3>1. pc'[r] = "inserted" /\ Key(r)' = k
        BY <2>1, <1>t DEF TypeOK, Key
      <3>2. \A q \in Requests : pc[q] \in {"inserted", "sent"} =>
               pc'[q] \in {"inserted", "sent"} /\ Key(q)' = Key(q)
        BY <2>1, <1>t DEF TypeOK, Key
      <3> HIDE DEF k, s
      <3>3. \A x \in DOMAIN pingSessions' : x \in DOMAIN pingSessions \/ x = k
        BY <2>1
      <3>4. UNCHANGED <<pq, current, draining>>
        BY <2>1 DEF schedVars
      <3> QED
        BY <3>1, <3>2, <3>3, <3>4 DEF IInv, SessionGuarded, Handling, IsTimeoutOf
    <2> QED
      BY <2>4, <2>5, <2>6 DEF IInv
  <1>4. ASSUME NEW r \in Requests, SendEcho(r) PROVE IInv'
    <2>1. /\ UNCHANGED <<simClock, current, draining, devices, local, pingSessions>>
          /\ pc[r] = "inserted"
          /\ pc' = [pc EXCEPT ![r] = "sent"]
      BY <1>4 DEF SendEcho, sessionVars
    <2>2. local[r] \in Local
      BY <2>1, <1>t DEF TypeOK, InCall
    <2>3. FrameMayBeAdded
      <3>1. CASE UNCHANGED <<pq, eventCount>>
        BY <3>1, <1>t DEF TypeOK, FrameMayBeAdded
      <3>2. ASSUME NEW d \in Delays,
                   Schedule("PACKET_RX", d,
                            [kind |-> "echo", source |-> local[r].source,
                             dest |-> local[r].dest,
                             icmpID |-> ICMPID(local[r].at), req |-> r])
            PROVE  FrameMayBeAdded
        <4> DEFINE f == [kind |-> "echo", source |-> local[r].source,
                         dest |-> local[r].dest,
                         icmpID |-> ICMPID(local[r].at), req |-> r]
        <4>1. f \in Frame
          BY <2>2, ICMPIDType DEF Local, Frame
        <4> HIDE DEF f
        <4>2. \A i, t \in Nat : [id |-> i, timestamp |-> t, type |-> "PACKET_RX",
                                 data |-> f] \in Event
          BY <4>1 DEF Event
        <4>3. Schedule("PACKET_RX", d, f)
          BY <3>2 DEF f
        <4> QED
          BY <4>2, <4>3, <1>c, <1>t, ScheduleAdds DEF TypeOK, FrameMayBeAdded
      <3> QED
        BY <3>1, <3>2, <1>4 DEF SendEcho
    <2>4. TypeOK'
      BY <2>1, <2>2, <2>3, <1>t DEF TypeOK, InCall, FrameMayBeAdded
    <2>5. QueueOK' /\ CurrentOK' /\ ThreadsOK'
      BY <2>1, <2>3, <1>t DEF FrameMayBeAdded, IInv, QueueOK, CurrentOK, ThreadsOK, InCall, TypeOK
    <2>6. SessionGuarded'
      BY <2>1, <2>3, <1>t DEF FrameMayBeAdded, IInv, SessionGuarded, Handling,
                              IsTimeoutOf, Key, TypeOK
    <2> QED
      BY <2>4, <2>5, <2>6 DEF IInv
  <1>5. ASSUME NEW r \in Requests, ArmTimeout(r) PROVE IInv'
    <2>1. /\ UNCHANGED <<simClock, current, draining, devices, local, pingSessions>>
          /\ pc[r] = "sent"
          /\ pc' = [pc EXCEPT ![r] = "done"]
          /\ Schedule("TIMER_ICMP", Timeout, Key(r))
      BY <1>5 DEF ArmTimeout, sessionVars
    <2>2. /\ local[r] \in Local /\ local[r].at <= simClock
          /\ Key(r) \in SessionKey /\ Key(r).at = local[r].at /\ local[r].at \in Nat
      BY <2>1, <1>t DEF IInv, TypeOK, ThreadsOK, InCall, Local, Key, SessionKey
    <2>3. PICK e \in Event : /\ e.type = "TIMER_ICMP" /\ e.data = Key(r)
                             /\ e.timestamp = simClock + Timeout
                             /\ pq' = pq \cup {e}
                             /\ eventCount' \in Nat
      <3>1. \A i, t \in Nat : [id |-> i, timestamp |-> t, type |-> "TIMER_ICMP",
                               data |-> Key(r)] \in Event
        BY <2>2 DEF Event
      <3> QED
        BY <3>1, <2>1, <1>c, <1>t, ScheduleAdds
    <2>4. TypeOK'
      BY <2>1, <2>3, <1>t DEF TypeOK, InCall
    <2>5. QueueOK'
      BY <2>1, <2>2, <2>3, <1>c, <1>t DEF IInv, QueueOK
    <2>6. CurrentOK' /\ ThreadsOK'
      BY <2>1, <1>t DEF IInv, CurrentOK, ThreadsOK, InCall, TypeOK
    <2>7. SessionGuarded'
      <3> SUFFICES ASSUME NEW k \in DOMAIN pingSessions
                   PROVE \/ \E f \in pq' : IsTimeoutOf(f, k)
                         \/ Handling("TIMER_ICMP") /\ IsTimeoutOf(current, k)
                         \/ \E q \in Requests : /\ pc'[q] \in {"inserted", "sent"}
                                                /\ Key(q) = k
        BY <2>1 DEF SessionGuarded, Handling, IsTimeoutOf, Key
      <3>1. CASE k = Key(r)
        BY <3>1, <2>3 DEF IsTimeoutOf
      <3>2. CASE k # Key(r)
        BY <3>2, <2>1, <2>3, <1>t DEF IInv, SessionGuarded, TypeOK
      <3> QED
        BY <3>1, <3>2
    <2> QED
      BY <2>4, <2>5, <2>6, <2>7 DEF IInv
  <1>6. ASSUME NEW e \in pq, Step(e) PROVE IInv'
    <2>1. /\ e \in Event /\ e # None /\ e.timestamp \in Nat
          /\ simClock <= e.timestamp
          /\ e.type = "TIMER_ICMP" => e.data.at + Timeout <= e.timestamp
      BY <1>c, <1>t DEF IInv, TypeOK, QueueOK, Event
    <2>2. /\ UNCHANGED <<eventCount, draining, devices, pc, local, pingSessions>>
          /\ current = None /\ ~draining
          /\ pq' = pq \ {e} /\ simClock' = e.timestamp /\ current' = e
          /\ \A f \in pq : e.timestamp <= f.timestamp
      BY <1>6 DEF Step, sessionVars
    <2>3. TypeOK'
      BY <2>1, <2>2, <1>t DEF TypeOK, InCall
    <2>4. QueueOK' /\ CurrentOK'
      BY <2>1, <2>2 DEF IInv, QueueOK, CurrentOK
    <2>5. ThreadsOK'
      <3> SUFFICES ASSUME NEW r \in Requests, InCall(r)
                   PROVE  local[r].at <= e.timestamp
        BY <2>2 DEF ThreadsOK, InCall
      <3>1. local[r].at \in Nat /\ local[r].at <= simClock
        BY <1>t DEF IInv, TypeOK, ThreadsOK, Local
      <3> QED
        BY <3>1, <2>1, <1>t
    <2>6. SessionGuarded'
      BY <2>1, <2>2 DEF IInv, SessionGuarded, Handling, IsTimeoutOf, Key
    <2> QED
      BY <2>3, <2>4, <2>5, <2>6 DEF IInv
  <1>7. CASE HandleTimerEvent
    <2>1. /\ UNCHANGED <<simClock, devices, pc, local, pingSessions>>
          /\ current # None /\ current.type = ProtoTimer
          /\ Schedule(ProtoTimer, Interval, None)
          /\ current' = None /\ draining' = TRUE
      BY <1>7 DEF HandleTimerEvent, Handling, sessionVars
    <2>2. PICK e \in Event : /\ e.type = ProtoTimer
                             /\ e.timestamp = simClock + Interval
                             /\ pq' = pq \cup {e}
                             /\ eventCount' \in Nat
      <3>1. \A i, t \in Nat : [id |-> i, timestamp |-> t, type |-> ProtoTimer,
                               data |-> None] \in Event
        BY DEF Event
      <3> QED
        BY <3>1, <2>1, <1>c, <1>t, ScheduleAdds
    <2>3. TypeOK'
      BY <2>1, <2>2, <1>t DEF TypeOK, InCall
    <2>4. QueueOK' /\ CurrentOK' /\ ThreadsOK'
      BY <2>1, <2>2, <1>c, <1>t DEF IInv, QueueOK, CurrentOK, ThreadsOK, InCall
    <2>5. SessionGuarded'
      BY <2>1, <2>2, <1>c DEF IInv, SessionGuarded, Handling, IsTimeoutOf, Key
    <2> QED
      BY <2>3, <2>4, <2>5 DEF IInv
  <1>8. CASE HandleEchoRequest
    <2>1. /\ UNCHANGED <<simClock, current, devices, pc, local, pingSessions>>
          /\ current # None /\ ~draining /\ current.type = "PACKET_RX"
          /\ draining' = TRUE
      BY <1>8 DEF HandleEchoRequest, HandlingFrame, Handling, sessionVars
    <2>2. current.data \in Frame
      BY <2>1, <1>t, <1>c DEF TypeOK, Event
    <2>3. FrameMayBeAdded
      <3>1. CASE UNCHANGED <<pq, eventCount>>
        BY <3>1, <1>t DEF TypeOK, FrameMayBeAdded
      <3>2. ASSUME NEW d \in Delays,
                   Schedule("PACKET_RX", d, [current.data EXCEPT !.kind = "reply"])
            PROVE  FrameMayBeAdded
        <4> DEFINE f == [current.data EXCEPT !.kind = "reply"]
        <4>1. f \in Frame
          BY <2>2 DEF Frame
        <4> HIDE DEF f
        <4>2. \A i, t \in Nat : [id |-> i, timestamp |-> t, type |-> "PACKET_RX",
                                 data |-> f] \in Event
          BY <4>1 DEF Event
        <4>3. Schedule("PACKET_RX", d, f)
          BY <3>2 DEF f
        <4> QED
          BY <4>2, <4>3, <1>c, <1>t, ScheduleAdds DEF TypeOK, FrameMayBeAdded
      <3> QED
        BY <3>1, <3>2, <1>8 DEF HandleEchoRequest
    <2>4. TypeOK'
      BY <2>1, <2>3, <1>t DEF TypeOK, InCall, FrameMayBeAdded
    <2>5. QueueOK' /\ CurrentOK' /\ ThreadsOK'
      BY <2>1, <2>3 DEF FrameMayBeAdded, IInv, QueueOK, CurrentOK, ThreadsOK, InCall
    <2>6. SessionGuarded'
      BY <2>1, <2>3 DEF FrameMayBeAdded, IInv, SessionGuarded, Handling, IsTimeoutOf, Key
    <2> QED
      BY <2>4, <2>5, <2>6 DEF IInv
  <1>9. CASE HandleEchoReply
    <2>1. /\ UNCHANGED <<schedVars, devices, pc, local>>
          /\ current # None /\ ~draining /\ current.type = "PACKET_RX"
          /\ draining' = TRUE
      BY <1>9 DEF HandleEchoReply, HandlingFrame, Handling
    <2>2. PICK D \in SUBSET DOMAIN pingSessions :
             pingSessions' = [k \in D |-> pingSessions[k]]
             \/ pingSessions' = pingSessions
      BY <1>9 DEF HandleEchoReply, CompletePing, Finish, sessionVars, Matching
    <2>3. TypeOK'
      BY <2>1, <2>2, <1>t DEF TypeOK, InCall, schedVars
    <2>4. QueueOK' /\ CurrentOK' /\ ThreadsOK'
      BY <2>1 DEF IInv, QueueOK, CurrentOK, ThreadsOK, InCall, schedVars
    <2>5. SessionGuarded'
      BY <2>1, <2>2 DEF IInv, SessionGuarded, Handling, IsTimeoutOf, Key, schedVars
    <2> QED
      BY <2>3, <2>4, <2>5 DEF IInv
  <1>10. CASE HandlePingTimeout
    <2>1. /\ UNCHANGED <<schedVars, devices, pc, local>>
          /\ current # None /\ ~draining /\ current.type = "TIMER_ICMP"
          /\ draining' = TRUE
      BY <1>10 DEF HandlePingTimeout, Handling
    <2>2. \/ /\ current.data \in DOMAIN pingSessions
             /\ pingSessions' = [k \in DOMAIN pingSessions \ {current.data} |->
                                    pingSessions[k]]
          \/ /\ current.data \notin DOMAIN pingSessions
             /\ pingSessions' = pingSessions
      BY <1>10 DEF HandlePingTimeout, Finish, sessionVars
    <2>3. TypeOK'
      BY <2>1, <2>2, <1>t DEF TypeOK, InCall, schedVars
    <2>4. QueueOK' /\ CurrentOK' /\ ThreadsOK'
      BY <2>1 DEF IInv, QueueOK, CurrentOK, ThreadsOK, InCall, schedVars
    <2>5. SessionGuarded'
      <3>1. \A k \in DOMAIN pingSessions' :
               k \in DOMAIN pingSessions /\ k # current.data
        BY <2>2
      <3> QED
        BY <3>1, <2>1 DEF IInv, SessionGuarded, Handling, IsTimeoutOf, Key, schedVars
    <2> QED
      BY <2>3, <2>4, <2>5 DEF IInv
  <1>11. CASE DrainPingResults
    <2>1. /\ UNCHANGED <<pq, simClock, eventCount, devices, pc, local, pingSessions>>
          /\ draining /\ draining' = FALSE /\ current' = None
      BY <1>11 DEF DrainPingResults
    <2>2. TypeOK' /\ QueueOK' /\ CurrentOK' /\ ThreadsOK'
      BY <2>1, <1>t DEF IInv, TypeOK, QueueOK, CurrentOK, ThreadsOK, InCall
    <2>3. SessionGuarded'
      BY <2>1 DEF IInv, SessionGuarded, Handling, IsTimeoutOf, Key
    <2> QED
      BY <2>2, <2>3 DEF IInv
  <1>12. ASSUME NEW d \in Removable, RemoveDevice(d) PROVE IInv'
    <2> DEFINE D == DOMAIN pingSessions \ Cancelled(d)
    <2>1. /\ UNCHANGED <<schedVars, draining, pc, local>>
          /\ devices' \subseteq devices
          /\ pingSessions' = [k \in D |-> pingSessions[k]]
      BY <1>12 DEF RemoveDevice
    <2> QED
      BY <2>1, FewerSessions
  <1>13. ASSUME NEW e \in pq, NEW d \in Delays, DuplicateFrame(e, d) PROVE IInv'
    <2>1. /\ UNCHANGED <<simClock, current, draining, pc, local, devices, pingSessions>>
          /\ e.type = "PACKET_RX" /\ Schedule("PACKET_RX", d, e.data)
      BY <1>13 DEF DuplicateFrame, sessionVars
    <2>2. e.data \in Frame
      BY <2>1, <1>t, <1>c DEF TypeOK, Event
    <2>3. PICK f \in Event : /\ f.type = "PACKET_RX"
                             /\ f.timestamp = simClock + d
                             /\ pq' = pq \cup {f}
                             /\ eventCount' \in Nat
      <3>1. \A i, t \in Nat : [id |-> i, timestamp |-> t, type |-> "PACKET_RX",
                               data |-> e.data] \in Event
        BY <2>2 DEF Event
      <3> QED
        BY <3>1, <2>1, <1>c, <1>t, ScheduleAdds
    <2>4. simClock <= f.timestamp
      BY <2>3, <1>c, <1>t
    <2> QED
      BY <2>1, <2>3, <2>4, OneMoreEvent
  <1>14. CASE UNCHANGED vars
    <2>1. UNCHANGED <<schedVars, draining, devices, pc, local, pingSessions>>
      BY <1>14 DEF vars, sessionVars
    <2> QED
      BY <2>1 DEF IInv, TypeOK, QueueOK, CurrentOK, ThreadsOK, SessionGuarded,
                  InCall, Handling, IsTimeoutOf, Key, schedVars
  <1> QED
    BY <1>1, <1>2, <1>3, <1>4, <1>5, <1>6, <1>7, <1>8, <1>9, <1>10, <1>11,
       <1>12, <1>13, <1>14 DEF Next, LoopNext, PingThread, AtHorizon

(* The strengthened invariant holds in every reachable state.              *)
THEOREM InductiveInvariant == Spec => []IInv
  BY InitIInv, NextIInv, PTL DEF Spec

(* The state of the ping machinery keeps its type, and SentAt is always    *)
(* the clock value of the session's key.                                   *)
THEOREM TypeCorrect == Spec => []TypeOK
  BY InductiveInvariant, PTL DEF IInv

(* No session of startPingFromHost or startPingFromRouter is ever stranded *)
(* without a timeout, whatever overwrites, removals and replies race.      *)
THEOREM NoSessionStranded == Spec => []SessionGuarded
  BY InductiveInvariant, PTL DEF IInv

(* handlePingTimeout never ends a session before IcmpPingTimeout is over.  *)
THEOREM TimeoutsNeverEarly == Spec => []NoEarlyTimeout
  <1>1. IInv => NoEarlyTimeout
    BY DEF IInv, NoEarlyTimeout, TypeOK, CurrentOK, Handling, IsTimeoutOf
  <1> QED
    BY <1>1, InductiveInvariant, PTL

(* Sessions and timeouts together, as the model checker checks them.       *)
THEOREM SessionsStaySound == Spec => []SessionsSound
  <1>1. TypeOK /\ SessionGuarded /\ NoEarlyTimeout => SessionsSound
    BY DEF SessionsSound
  <1> QED
    BY <1>1, TypeCorrect, NoSessionStranded, TimeoutsNeverEarly, PTL

(* --- What the user is told ---------------------------------------------- *)

(* The requests a sequence of results is about, and whether each is there  *)
(* once; the requests it reports a success of.                             *)
Reqs(s) == {s[i].req : i \in DOMAIN s}
Distinct(s) == \A i, j \in DOMAIN s : s[i].req = s[j].req => i = j
Successes(s) == {s[i].req : i \in {j \in DOMAIN s : s[j].outcome = "reply"}}

(* The requests with a result, and those that stored their session (or     *)
(* failed before).                                                         *)
Told == Reqs(answers) \cup Reqs(pendingPingResults)
Begun == {r \in Requests : pc[r] \notin {"idle", "read"}}

OnceOpen ==
    \A k, l \in DOMAIN pingSessions :
        pingSessions[k].req = pingSessions[l].req => k = l
OnceTold ==
    /\ Distinct(answers) /\ Distinct(pendingPingResults)
    /\ Reqs(answers) \cap Reqs(pendingPingResults) = {}
    /\ Open \cap Told = {}

(* A session and a frame carry what their request was started with.        *)
SessionsOwn ==
    \A k \in DOMAIN pingSessions :
        LET r == pingSessions[k].req IN
        /\ k = Key(r) /\ pingSessions[k].dest = local[r].dest
        /\ pingSessions[k].icmpID = ICMPID(local[r].at)
Own(f) ==
    /\ f.req \in Begun
    /\ f.source = local[f.req].source /\ f.dest = local[f.req].dest
    /\ f.icmpID = ICMPID(local[f.req].at)
IsFrame(e) == e # None /\ e.type = "PACKET_RX"
FramesOwn == \A e \in pq \cup {current} : IsFrame(e) => Own(e.data)

EchoAnswered(r) ==
    \E q \in arrived :
        /\ local[q].source = local[r].source
        /\ local[q].dest = local[r].dest
        /\ ICMPID(local[q].at) = ICMPID(local[r].at)
SuccessTrue ==
    \A r \in Successes(answers) \cup Successes(pendingPingResults) : EchoAnswered(r)

AInv ==
    /\ AnswersTypeOK /\ IsFiniteSet(DOMAIN pingSessions)
    /\ OnceOpen /\ OnceTold /\ SessionsOwn /\ FramesOwn /\ SuccessTrue
    /\ Open \cup Told \cup arrived \subseteq Begun

(* Results put behind others.                                              *)
LEMMA Behind ==
    ASSUME NEW s \in Seq(PingResult), NEW t \in Seq(PingResult)
    PROVE  /\ s \o t \in Seq(PingResult)
           /\ Reqs(s \o t) = Reqs(s) \cup Reqs(t)
           /\ Successes(s \o t) = Successes(s) \cup Successes(t)
           /\ Distinct(s \o t) <=>
                Distinct(s) /\ Distinct(t) /\ Reqs(s) \cap Reqs(t) = {}
  <1> DEFINE u == s \o t
  <1>1. /\ u \in Seq(PingResult) /\ Len(s) \in Nat /\ Len(t) \in Nat
        /\ DOMAIN s = 1 .. Len(s) /\ DOMAIN t = 1 .. Len(t)
        /\ DOMAIN u = 1 .. Len(s) + Len(t)
        /\ \A i \in DOMAIN s : u[i] = s[i]
        /\ \A i \in DOMAIN t : u[i + Len(s)] = t[i]
    OBVIOUS
  <1> HIDE DEF u
  <1>2. \A i \in DOMAIN u : i \in DOMAIN s \/ \E j \in DOMAIN t : i = j + Len(s)
    <2> TAKE i \in DOMAIN u
    <2>1. CASE i <= Len(s)
      BY <2>1, <1>1
    <2>2. CASE i > Len(s)
      <3>1. i - Len(s) \in DOMAIN t /\ i = (i - Len(s)) + Len(s)
        BY <2>2, <1>1
      <3> QED
        BY <3>1
    <2> QED
      BY <2>1, <2>2, <1>1
  <1>3. (\A i \in DOMAIN s : i \in DOMAIN u) /\ \A j \in DOMAIN t : j + Len(s) \in DOMAIN u
    BY <1>1
  <1>4. Reqs(u) = Reqs(s) \cup Reqs(t)
    BY <1>1, <1>2, <1>3 DEF Reqs
  <1>5. Successes(u) = Successes(s) \cup Successes(t)
    BY <1>1, <1>2, <1>3 DEF Successes
  <1>6. ASSUME Distinct(s), Distinct(t), Reqs(s) \cap Reqs(t) = {}
        PROVE  Distinct(u)
    <2> SUFFICES ASSUME NEW i \in DOMAIN u, NEW j \in DOMAIN u, u[i].req = u[j].req
                 PROVE  i = j
      BY DEF Distinct
    <2>1. CASE i \in DOMAIN s /\ j \in DOMAIN s
      BY <2>1, <1>6, <1>1 DEF Distinct
    <2>2. ASSUME NEW k \in DOMAIN t, NEW l \in DOMAIN t,
                 i = k + Len(s), j = l + Len(s)
          PROVE  i = j
      <3>1. t[k].req = t[l].req
        BY <2>2, <1>1
      <3> QED
        BY <3>1, <2>2, <1>6 DEF Distinct
    <2>3. ASSUME NEW k \in DOMAIN s, NEW l \in DOMAIN t, s[k].req = t[l].req
          PROVE  FALSE
      BY <2>3, <1>6 DEF Reqs
    <2>4. ASSUME NEW l \in DOMAIN t, i \in DOMAIN s, j = l + Len(s)
          PROVE  FALSE
      BY <2>4, <2>3, <1>1
    <2>5. ASSUME NEW l \in DOMAIN t, j \in DOMAIN s, i = l + Len(s)
          PROVE  FALSE
      BY <2>5, <2>3, <1>1
    <2> QED
      BY <2>1, <2>2, <2>4, <2>5, <1>2
  <1>7. ASSUME Distinct(u)
        PROVE  Distinct(s) /\ Distinct(t) /\ Reqs(s) \cap Reqs(t) = {}
    <2>1. Distinct(s)
      BY <1>7, <1>1, <1>3 DEF Distinct
    <2>2. Distinct(t)
      <3> SUFFICES ASSUME NEW i \in DOMAIN t, NEW j \in DOMAIN t, t[i].req = t[j].req
                   PROVE  i = j
        BY DEF Distinct
      <3>1. u[i + Len(s)].req = u[j + Len(s)].req
        BY <1>1
      <3>2. i + Len(s) = j + Len(s)
        BY <3>1, <1>7, <1>3 DEF Distinct
      <3> QED
        BY <3>2, <1>1
    <2>3. ASSUME NEW i \in DOMAIN s, NEW j \in DOMAIN t, s[i].req = t[j].req
          PROVE  FALSE
      <3>1. u[i].req = u[j + Len(s)].req
        BY <2>3, <1>1
      <3>2. i = j + Len(s)
        BY <3>1, <1>7, <1>3 DEF Distinct
      <3> QED
        BY <3>2, <1>1
    <2> QED
      BY <2>1, <2>2, <2>3 DEF Reqs
  <1> QED
    BY <1>1, <1>4, <1>5, <1>6, <1>7 DEF u

(* One result, or none.                                                    *)
LEMMA OneResult ==
    ASSUME NEW x \in PingResult, NEW s \in Seq(PingResult)
    PROVE  /\ <<x>> \in Seq(PingResult) /\ Append(s, x) = s \o <<x>>
           /\ Reqs(<<x>>) = {x.req} /\ Distinct(<<x>>)
           /\ Successes(<<x>>) = IF x.outcome = "reply" THEN {x.req} ELSE {}
  <1>1. DOMAIN <<x>> = {1} /\ <<x>>[1] = x
    OBVIOUS
  <1> QED
    BY <1>1 DEF Reqs, Distinct, Successes

LEMMA NoResult ==
    /\ <<>> \in Seq(PingResult)
    /\ Reqs(<<>>) = {} /\ Distinct(<<>>) /\ Successes(<<>>) = {}
  <1>1. DOMAIN <<>> = {}
    OBVIOUS
  <1> QED
    BY <1>1 DEF Reqs, Distinct, Successes

(* The goroutines only move on, and keep what they were started with.      *)
Onward == Begun \subseteq Begun' /\ \A r \in Begun : local'[r] = local[r]

(* What may be in flight after a step: what was, and frames of their own.  *)
OnlyOwnFrames ==
    \A e \in pq' \cup {current'} :
        IsFrame(e) => e \in pq \cup {current} \/ Own(e.data)

(* What was true of frames, sessions and successes stays so.               *)
LEMMA StillOwn ==
    ASSUME TypeOK, AInv, Onward
    PROVE  /\ \A f : Own(f) => Own(f)'
           /\ \A r \in Begun : Key(r)' = Key(r) /\ ICMPID(local[r].at)' = ICMPID(local[r].at)
           /\ arrived \subseteq arrived' =>
                \A r \in Begun : EchoAnswered(r) => EchoAnswered(r)'
  <1>1. \A r \in Begun : Key(r)' = Key(r) /\ ICMPID(local[r].at)' = ICMPID(local[r].at)
    BY DEF Onward, Key, ICMPID
  <1>2. \A f : Own(f) => Own(f)'
    BY <1>1 DEF Own, Onward
  <1>3. ASSUME arrived \subseteq arrived', NEW r \in Begun, EchoAnswered(r)
        PROVE  EchoAnswered(r)'
    <2>1. PICK q \in arrived : /\ local[q].source = local[r].source
                               /\ local[q].dest = local[r].dest
                               /\ ICMPID(local[q].at) = ICMPID(local[r].at)
      BY <1>3 DEF EchoAnswered
    <2>2. q \in Begun /\ q \in arrived'
      BY <1>3 DEF AInv
    <2>3. local'[q] = local[q] /\ local'[r] = local[r]
      BY <2>2 DEF Onward
    <2>4. ICMPID(local'[q].at) = ICMPID(local'[r].at)
      BY <2>1, <2>3
    <2> QED
      BY <2>1, <2>2, <2>3, <2>4 DEF EchoAnswered, ICMPID
  <1> QED
    BY <1>1, <1>2, <1>3

LEMMA StillFrames ==
    ASSUME TypeOK, AInv, Onward, OnlyOwnFrames
    PROVE  FramesOwn'
  <1> SUFFICES ASSUME NEW e \in (pq \cup {current})', IsFrame(e)
               PROVE  Own(e.data)'
    BY DEF FramesOwn, IsFrame
  <1>1. Own(e.data)
    BY DEF OnlyOwnFrames, AInv, FramesOwn
  <1> QED
    BY <1>1, StillOwn

(* Sessions end: each leaves the map and tells at most one result, and a   *)
(* success among the results is a true one.                                *)
LEMMA SessionsEnd ==
    ASSUME TypeOK, AInv, Onward, OnlyOwnFrames, AnswersTypeOK',
           answers' = answers,
           arrived \subseteq arrived', arrived' \subseteq Begun,
           NEW K \in SUBSET DOMAIN pingSessions,
           pingSessions' = [k \in DOMAIN pingSessions \ K |-> pingSessions[k]],
           NEW new \in Seq(PingResult), Distinct(new),
           pendingPingResults' = pendingPingResults \o new,
           Reqs(new) \subseteq {pingSessions[k].req : k \in K},
           \A r \in Successes(new) : EchoAnswered(r)'
    PROVE  AInv'
  <1>1. /\ AnswersTypeOK /\ IsFiniteSet(DOMAIN pingSessions)
        /\ OnceOpen /\ OnceTold /\ SessionsOwn /\ SuccessTrue
        /\ Open \cup Told \subseteq Begun
    BY DEF AInv
  <1>2. /\ DOMAIN pingSessions' = DOMAIN pingSessions \ K
        /\ \A k \in DOMAIN pingSessions' : pingSessions'[k] = pingSessions[k]
    OBVIOUS
  <1>3. IsFiniteSet(DOMAIN pingSessions')
    BY <1>1, <1>2, FS_Subset
  <1>4. OnceOpen'
    BY <1>1, <1>2 DEF OnceOpen
  <1>5. Open' \subseteq Open \ Reqs(new)
    BY <1>1, <1>2 DEF Open, OnceOpen
  <1>6. Reqs(new) \subseteq Open
    BY DEF Open
  <1>7. /\ Reqs(pendingPingResults)' = Reqs(pendingPingResults) \cup Reqs(new)
        /\ Successes(pendingPingResults)' =
             Successes(pendingPingResults) \cup Successes(new)
        /\ Distinct(pendingPingResults)'
    <2>1. pendingPingResults \in Seq(PingResult)
      BY <1>1 DEF AnswersTypeOK
    <2>2. Reqs(pendingPingResults) \cap Reqs(new) = {} /\ Distinct(pendingPingResults)
      BY <1>1, <1>6 DEF OnceTold, Told
    <2>3. /\ Reqs(pendingPingResults') = Reqs(pendingPingResults) \cup Reqs(new)
          /\ Successes(pendingPingResults') =
               Successes(pendingPingResults) \cup Successes(new)
          /\ Distinct(pendingPingResults')
      BY <2>1, <2>2, Behind
    <2> QED
      BY <2>3 DEF Reqs, Successes, Distinct
  <1>8. Reqs(answers)' = Reqs(answers) /\ Successes(answers)' = Successes(answers)
        /\ Distinct(answers)'
    BY <1>1 DEF Reqs, Successes, Distinct, OnceTold
  <1>9. OnceTold'
    BY <1>1, <1>5, <1>6, <1>7, <1>8 DEF OnceTold, Told
  <1>10. SessionsOwn'
    <2> SUFFICES ASSUME NEW k \in DOMAIN pingSessions'
                 PROVE  /\ k = Key(pingSessions[k].req)'
                        /\ pingSessions[k].dest = local'[pingSessions[k].req].dest
                        /\ pingSessions[k].icmpID = ICMPID(local[pingSessions[k].req].at)'
      BY <1>2 DEF SessionsOwn, Key, ICMPID
    <2>1. pingSessions[k].req \in Begun /\ k \in DOMAIN pingSessions
      BY <1>1, <1>2 DEF Open
    <2>2. /\ k = Key(pingSessions[k].req)
          /\ pingSessions[k].dest = local[pingSessions[k].req].dest
          /\ pingSessions[k].icmpID = ICMPID(local[pingSessions[k].req].at)
      BY <1>1, <2>1 DEF SessionsOwn
    <2> QED
      BY <2>1, <2>2, StillOwn DEF Onward
  <1>11. FramesOwn'
    BY StillFrames
  <1>12. SuccessTrue'
    <2> SUFFICES ASSUME NEW r \in (Successes(answers) \cup Successes(pendingPingResults))'
                 PROVE  EchoAnswered(r)'
      BY DEF SuccessTrue
    <2>1. CASE r \in Successes(new)
      BY <2>1
    <2>2. CASE r \in Successes(answers) \cup Successes(pendingPingResults)
      <3>1. r \in Begun
        BY <2>2, <1>1 DEF Told, Reqs, Successes
      <3> QED
        BY <2>2, <3>1, <1>1, StillOwn DEF SuccessTrue
    <2> QED
      BY <2>1, <2>2, <1>7, <1>8
  <1>13. (Open \cup Told \cup arrived)' \subseteq Begun'
    <2>1. Told' \subseteq Begun
      BY <1>1, <1>6, <1>7, <1>8 DEF Told
    <2> QED
      BY <2>1, <1>1, <1>5 DEF Onward
  <1> QED
    BY <1>3, <1>4, <1>9, <1>10, <1>11, <1>12, <1>13 DEF AInv

(* A step that ends no session and tells nothing.                          *)
LEMMA NothingEnds ==
    ASSUME TypeOK, AInv, Onward, OnlyOwnFrames, AnswersTypeOK',
           UNCHANGED <<answers, pendingPingResults, pingSessions>>,
           arrived \subseteq arrived', arrived' \subseteq Begun
    PROVE  AInv'
  <1>1. /\ AnswersTypeOK /\ IsFiniteSet(DOMAIN pingSessions)
        /\ OnceOpen /\ OnceTold /\ SessionsOwn /\ SuccessTrue
        /\ Open \cup Told \subseteq Begun
    BY DEF AInv
  <1>2. OnceOpen' /\ OnceTold' /\ IsFiniteSet(DOMAIN pingSessions)'
    BY <1>1 DEF OnceOpen, OnceTold, Told, Open, Reqs, Distinct
  <1>3. SessionsOwn'
    <2> SUFFICES ASSUME NEW k \in DOMAIN pingSessions
                 PROVE  /\ k = Key(pingSessions[k].req)'
                        /\ pingSessions[k].dest = local'[pingSessions[k].req].dest
                        /\ pingSessions[k].icmpID = ICMPID(local[pingSessions[k].req].at)'
      BY DEF SessionsOwn, Key, ICMPID
    <2>1. pingSessions[k].req \in Begun
      BY <1>1 DEF Open
    <2>2. /\ k = Key(pingSessions[k].req)
          /\ pingSessions[k].dest = local[pingSessions[k].req].dest
          /\ pingSessions[k].icmpID = ICMPID(local[pingSessions[k].req].at)
      BY <1>1 DEF SessionsOwn
    <2> QED
      BY <2>1, <2>2, StillOwn DEF Onward
  <1>4. FramesOwn'
    BY StillFrames
  <1>5. SuccessTrue'
    <2> SUFFICES ASSUME NEW r \in Successes(answers) \cup Successes(pendingPingResults)
                 PROVE  EchoAnswered(r)'
      BY DEF SuccessTrue, Successes
    <2>1. r \in Begun
      BY <1>1 DEF Told, Reqs, Successes
    <2> QED
      BY <2>1, <1>1, StillOwn DEF SuccessTrue
  <1>6. (Open \cup Told \cup arrived)' \subseteq Begun'
    BY <1>1 DEF Onward, Open, Told, Reqs
  <1> QED
    BY <1>2, <1>3, <1>4, <1>5, <1>6 DEF AInv

LEMMA InitAInv == Init => AInv
  <1> SUFFICES ASSUME Init PROVE AInv
    OBVIOUS
  <1>1. answers = <<>> /\ pendingPingResults = <<>> /\ DOMAIN pingSessions = {}
    BY DEF Init
  <1>2. AnswersTypeOK
    BY <1>1 DEF Init, AnswersTypeOK
  <1>3. IsFiniteSet(DOMAIN pingSessions)
    BY <1>1, FS_EmptySet
  <1>4. /\ Reqs(answers) = {} /\ Reqs(pendingPingResults) = {}
        /\ Distinct(answers) /\ Distinct(pendingPingResults)
        /\ Successes(answers) = {} /\ Successes(pendingPingResults) = {}
    BY <1>1, NoResult
  <1>5. OnceOpen /\ OnceTold /\ SessionsOwn /\ SuccessTrue
    BY <1>1, <1>4 DEF OnceOpen, OnceTold, SessionsOwn, SuccessTrue, Open, Told
  <1>6. FramesOwn
    <2>1. \A e \in pq \cup {current} : ~IsFrame(e)
      BY PingAssumption DEF Init, IsFrame
    <2> QED
      BY <2>1 DEF FramesOwn
  <1>7. Open \cup Told \cup arrived \subseteq Begun
    BY <1>1, <1>4 DEF Open, Told, Init
  <1> QED
    BY <1>2, <1>3, <1>5, <1>6, <1>7 DEF AInv

(* Schedule hands the queue one event with the data it was given.          *)
LEMMA ScheduledData ==
    ASSUME NEW type, NEW offset, NEW data, Schedule(type, offset, data)
    PROVE  \A e \in pq' : e \in pq \/ (e.type = type /\ e.data = data)
  BY DEF Schedule

LEMMA NextAInv == IInv /\ AInv /\ [Next]_vars => AInv'
  <1> SUFFICES ASSUME IInv, AInv, [Next]_vars PROVE AInv'
    OBVIOUS
  <1>c. /\ ProtoTimer # "PACKET_RX" /\ None \notin Event
    BY PingAssumption
  <1>t. TypeOK
    BY DEF IInv
  <1>a. /\ AnswersTypeOK /\ IsFiniteSet(DOMAIN pingSessions)
        /\ OnceOpen /\ OnceTold /\ SessionsOwn /\ FramesOwn /\ SuccessTrue
        /\ Open \cup Told \cup arrived \subseteq Begun
    BY DEF AInv
  <1>1. ASSUME NEW r \in Requests, NEW p \in Pings, StartPing(r, p[1], p[2])
        PROVE  AInv'
    <2>1. /\ UNCHANGED <<pq, current, answers, pendingPingResults, pingSessions,
                         overwritten, arrived, copies>>
          /\ pc[r] = "idle"
          /\ pc' = [pc EXCEPT ![r] = "read"]
          /\ \A q \in Requests \ {r} : local'[q] = local[q]
      BY <1>1, <1>t DEF StartPing, sessionVars, schedVars, TypeOK
    <2>2. Onward
      BY <2>1, <1>t DEF Onward, Begun, TypeOK
    <2>3. OnlyOwnFrames /\ AnswersTypeOK'
      BY <2>1, <1>a DEF OnlyOwnFrames, AnswersTypeOK
    <2> QED
      BY <2>1, <2>2, <2>3, <1>t, <1>a, NothingEnds
  <1>2. ASSUME NEW r \in Requests, NEW p \in Pings, StartPingError(r, p[1])
        PROVE  AInv'
    <2> DEFINE x == Result(r, "error")
    <2>1. /\ UNCHANGED <<pq, current, pendingPingResults, pingSessions,
                         overwritten, arrived, copies, local>>
          /\ pc[r] = "idle"
          /\ pc' = [pc EXCEPT ![r] = "done"]
          /\ answers' = Append(answers, x)
      BY <1>2 DEF StartPingError, sessionVars, schedVars
    <2>2. Onward /\ r \notin Begun /\ r \in Begun'
      BY <2>1, <1>t DEF Onward, Begun, TypeOK
    <2>3. x \in PingResult /\ x.req = r /\ x.outcome # "reply"
      BY DEF Result, PingResult
    <2> HIDE DEF x
    <2>4. answers \in Seq(PingResult) /\ answers' = answers \o <<x>>
      BY <2>1, <2>3, <1>a, OneResult DEF AnswersTypeOK
    <2>5. /\ <<x>> \in Seq(PingResult) /\ Reqs(<<x>>) = {r} /\ Distinct(<<x>>)
          /\ Successes(<<x>>) = {}
      BY <2>3, <2>4, OneResult
    <2>6. Reqs(answers) \cap {r} = {} /\ r \notin Told /\ r \notin Open
      BY <2>2, <1>a DEF Told
    <2>7. /\ answers' \in Seq(PingResult)
          /\ Reqs(answers') = Reqs(answers) \cup {r}
          /\ Successes(answers') = Successes(answers)
          /\ Distinct(answers')
      <3>1. Distinct(answers)
        BY <1>a DEF OnceTold
      <3>2. /\ answers \o <<x>> \in Seq(PingResult)
            /\ Reqs(answers \o <<x>>) = Reqs(answers) \cup {r}
            /\ Successes(answers \o <<x>>) = Successes(answers)
            /\ Distinct(answers \o <<x>>)
        <4>1. answers \in Seq(PingResult) /\ <<x>> \in Seq(PingResult)
          BY <2>4, <2>5
        <4>2. /\ answers \o <<x>> \in Seq(PingResult)
              /\ Reqs(answers \o <<x>>) = Reqs(answers) \cup Reqs(<<x>>)
              /\ Successes(answers \o <<x>>) = Successes(answers) \cup Successes(<<x>>)
              /\ Distinct(answers) /\ Distinct(<<x>>)
                 /\ Reqs(answers) \cap Reqs(<<x>>) = {} => Distinct(answers \o <<x>>)
          BY <4>1, Behind
        <4> QED
          BY <4>2, <3>1, <2>5, <2>6
      <3>3. answers' = answers \o <<x>>
        BY <2>4
      <3> QED
        BY <3>2, <3>3
    <2>8. /\ Reqs(answers)' = Reqs(answers) \cup {r}
          /\ Successes(answers)' = Successes(answers)
          /\ Distinct(answers)'
      BY <2>7 DEF Reqs, Successes, Distinct
    <2>9. /\ Reqs(pendingPingResults)' = Reqs(pendingPingResults)
          /\ Successes(pendingPingResults)' = Successes(pendingPingResults)
          /\ Distinct(pendingPingResults)' <=> Distinct(pendingPingResults)
          /\ Open' = Open
      BY <2>1 DEF Reqs, Successes, Distinct, Open
    <2>10. AnswersTypeOK' /\ IsFiniteSet(DOMAIN pingSessions)' /\ OnceOpen'
      BY <2>1, <2>7, <1>a DEF AnswersTypeOK, OnceOpen
    <2>11. OnceTold'
      BY <2>8, <2>9, <2>6, <1>a DEF OnceTold, Told
    <2>12. SessionsOwn'
      BY <2>1, <1>a DEF SessionsOwn, Key, ICMPID
    <2>13. FramesOwn'
      BY <2>1, <2>2, <1>t, StillFrames DEF OnlyOwnFrames
    <2>14. SuccessTrue'
      BY <2>1, <2>8, <2>9, <1>a DEF SuccessTrue, EchoAnswered, ICMPID
    <2>15. (Open \cup Told \cup arrived)' \subseteq Begun'
      BY <2>1, <2>2, <2>8, <2>9, <1>a DEF Told, Onward
    <2> QED
      BY <2>10, <2>11, <2>12, <2>13, <2>14, <2>15 DEF AInv
  <1>3. ASSUME NEW r \in Requests, InsertSession(r) PROVE AInv'
    <2> DEFINE k == Key(r)
               s == [req |-> r, dest |-> local[r].dest,
                     icmpID |-> ICMPID(local[r].at), sentAt |-> local[r].at]
    <2>1. /\ UNCHANGED <<pq, current, answers, pendingPingResults, arrived, copies, local>>
          /\ pc[r] = "read"
          /\ pc' = [pc EXCEPT ![r] = "inserted"]
          /\ overwritten' = overwritten \cup
               {pingSessions[x].req : x \in DOMAIN pingSessions \cap {k}}
          /\ pingSessions' = [x \in DOMAIN pingSessions \cup {k} |->
                                IF x = k THEN s ELSE pingSessions[x]]
      BY <1>3 DEF InsertSession, schedVars
    <2>2. Onward /\ r \notin Begun /\ r \in Begun'
      BY <2>1, <1>t DEF Onward, Begun, TypeOK
    <2>3. r \notin Open /\ r \notin Told
      BY <2>2, <1>a
    <2>4. s.req = r /\ s.dest = local[r].dest /\ s.icmpID = ICMPID(local[r].at)
      OBVIOUS
    <2>5. /\ \A q : Key(q)' = Key(q)
          /\ \A q : ICMPID(local[q].at)' = ICMPID(local[q].at)
      BY <2>1 DEF Key, ICMPID
    <2>6. k = Key(r)
      OBVIOUS
    <2> HIDE DEF k, s
    <2>7. /\ DOMAIN pingSessions' = DOMAIN pingSessions \cup {k}
          /\ pingSessions'[k] = s
          /\ \A x \in DOMAIN pingSessions \ {k} : pingSessions'[x] = pingSessions[x]
      BY <2>1
    <2>8. IsFiniteSet(DOMAIN pingSessions')
      BY <2>7, <1>a, FS_AddElement
    <2>9. OnceOpen'
      BY <2>3, <2>4, <2>7, <1>a DEF OnceOpen, Open
    <2>10. Open' \subseteq Open \cup {r}
      BY <2>4, <2>7 DEF Open
    <2>11. Told' = Told /\ OnceTold'
      BY <2>1, <2>10, <2>3, <1>a DEF OnceTold, Told, Reqs, Distinct
    <2>12. SessionsOwn'
      <3> SUFFICES ASSUME NEW x \in DOMAIN pingSessions'
                   PROVE  /\ x = Key(pingSessions'[x].req)
                          /\ pingSessions'[x].dest = local[pingSessions'[x].req].dest
                          /\ pingSessions'[x].icmpID = ICMPID(local[pingSessions'[x].req].at)
        BY <2>1 DEF SessionsOwn, Key, ICMPID
      <3> QED
        BY <2>4, <2>6, <2>7, <1>a DEF SessionsOwn
    <2>13. AnswersTypeOK'
      <3>1. \A x \in DOMAIN pingSessions : pingSessions[x].req \in Requests
        BY <1>t DEF TypeOK, Session
      <3> QED
        BY <3>1, <2>1, <1>a DEF AnswersTypeOK
    <2>14. FramesOwn'
      BY <2>1, <2>2, <1>t, StillFrames DEF OnlyOwnFrames
    <2>15. SuccessTrue'
      <3>1. \A q : EchoAnswered(q)' <=> EchoAnswered(q)
        BY <2>1 DEF EchoAnswered, ICMPID
      <3>2. /\ Successes(answers)' = Successes(answers)
            /\ Successes(pendingPingResults)' = Successes(pendingPingResults)
        BY <2>1 DEF Successes
      <3> QED
        BY <3>1, <3>2, <1>a DEF SuccessTrue
    <2>16. (Open \cup Told \cup arrived)' \subseteq Begun'
      BY <2>1, <2>2, <2>10, <2>11, <1>a DEF Onward
    <2> QED
      BY <2>8, <2>9, <2>11, <2>12, <2>13, <2>14, <2>15, <2>16 DEF AInv
  <1>4. ASSUME NEW r \in Requests, SendEcho(r) PROVE AInv'
    <2>1. /\ UNCHANGED <<current, answers, pendingPingResults, pingSessions,
                         overwritten, arrived, copies, local>>
          /\ pc[r] = "inserted"
          /\ pc' = [pc EXCEPT ![r] = "sent"]
      BY <1>4 DEF SendEcho, sessionVars
    <2>2. Onward /\ r \in Begun
      BY <2>1, <1>t DEF Onward, Begun, TypeOK
    <2> DEFINE f == [kind |-> "echo", source |-> local[r].source,
                     dest |-> local[r].dest, icmpID |-> ICMPID(local[r].at),
                     req |-> r]
    <2>3. Own(f)
      BY <2>2 DEF Own
    <2>4. pq' = pq \/ \E d \in Delays : Schedule("PACKET_RX", d, f)
      BY <1>4 DEF SendEcho
    <2> HIDE DEF f
    <2>5. OnlyOwnFrames
      BY <2>1, <2>3, <2>4, ScheduledData DEF OnlyOwnFrames
    <2> QED
      BY <2>1, <2>2, <2>5, <1>t, <1>a, NothingEnds DEF AnswersTypeOK
  <1>5. ASSUME NEW r \in Requests, ArmTimeout(r) PROVE AInv'
    <2>1. /\ UNCHANGED <<current, answers, pendingPingResults, pingSessions,
                         overwritten, arrived, copies, local>>
          /\ pc[r] = "sent"
          /\ pc' = [pc EXCEPT ![r] = "done"]
          /\ Schedule("TIMER_ICMP", Timeout, Key(r))
      BY <1>5 DEF ArmTimeout, sessionVars
    <2>2. Onward
      BY <2>1, <1>t DEF Onward, Begun, TypeOK
    <2>3. OnlyOwnFrames
      BY <2>1, ScheduledData DEF OnlyOwnFrames, IsFrame
    <2> QED
      BY <2>1, <2>2, <2>3, <1>t, <1>a, NothingEnds DEF AnswersTypeOK
  <1>6. ASSUME NEW e \in pq, Step(e) PROVE AInv'
    <2>1. /\ UNCHANGED <<answers, pendingPingResults, pingSessions, overwritten,
                         arrived, copies, local, pc>>
          /\ pq' = pq \ {e} /\ current' = e
      BY <1>6 DEF Step, sessionVars
    <2>2. Onward /\ OnlyOwnFrames
      BY <2>1 DEF Onward, Begun, OnlyOwnFrames
    <2> QED
      BY <2>1, <2>2, <1>t, <1>a, NothingEnds DEF AnswersTypeOK
  <1>7. CASE HandleTimerEvent
    <2>1. /\ UNCHANGED <<answers, pendingPingResults, pingSessions, overwritten,
                         arrived, copies, local, pc>>
          /\ Schedule(ProtoTimer, Interval, None) /\ current' = None
      BY <1>7 DEF HandleTimerEvent, sessionVars
    <2>2. Onward
      BY <2>1 DEF Onward, Begun
    <2>3. OnlyOwnFrames
      BY <2>1, <1>c, ScheduledData DEF OnlyOwnFrames, IsFrame
    <2> QED
      BY <2>1, <2>2, <2>3, <1>t, <1>a, NothingEnds DEF AnswersTypeOK
  <1>8. CASE HandleEchoRequest
    <2>1. /\ UNCHANGED <<current, answers, pendingPingResults, pingSessions,
                         overwritten, arrived, copies, local, pc>>
          /\ current # None /\ current.type = "PACKET_RX"
      BY <1>8 DEF HandleEchoRequest, HandlingFrame, Handling, sessionVars
    <2> DEFINE f == [current.data EXCEPT !.kind = "reply"]
    <2>2. Own(f)
      <3>1. Own(current.data) /\ current.data \in Frame
        BY <2>1, <1>a, <1>t, <1>c DEF FramesOwn, IsFrame, TypeOK, Event
      <3> QED
        BY <3>1 DEF Own, Frame
    <2>3. pq' = pq \/ \E d \in Delays : Schedule("PACKET_RX", d, f)
      BY <1>8 DEF HandleEchoRequest
    <2> HIDE DEF f
    <2>4. Onward /\ OnlyOwnFrames
      BY <2>1, <2>2, <2>3, ScheduledData DEF OnlyOwnFrames, Onward, Begun
    <2> QED
      BY <2>1, <2>4, <1>t, <1>a, NothingEnds DEF AnswersTypeOK
  <1>9. CASE HandleEchoReply
    <2> DEFINE f == current.data
    <2>1. /\ UNCHANGED <<pq, current, answers, copies, local, pc>>
          /\ current # None /\ current.type = "PACKET_RX"
          /\ arrived' = arrived \cup {f.req}
          /\ \/ UNCHANGED sessionVars
             \/ \E k \in Matching(f) : Finish(k, "reply")
      BY <1>9 DEF HandleEchoReply, HandlingFrame, Handling, schedVars, CompletePing
    <2>2. Own(f) /\ f \in Frame
      BY <2>1, <1>a, <1>t, <1>c DEF FramesOwn, IsFrame, TypeOK, Event
    <2> HIDE DEF f
    <2>3. /\ Onward /\ OnlyOwnFrames
          /\ arrived \subseteq arrived' /\ arrived' \subseteq Begun
      BY <2>1, <2>2, <1>a DEF Onward, Begun, OnlyOwnFrames, Own
    <2>4. CASE UNCHANGED sessionVars
      <3>1. AnswersTypeOK'
        BY <2>1, <2>2, <2>4, <1>a DEF AnswersTypeOK, sessionVars, Frame
      <3> QED
        BY <3>1, <2>1, <2>3, <2>4, <1>t, <1>a, NothingEnds DEF sessionVars
    <2>5. ASSUME NEW k \in Matching(f), Finish(k, "reply") PROVE AInv'
      <3> DEFINE x == Result(pingSessions[k].req, "reply")
      <3>1. /\ k \in DOMAIN pingSessions /\ k.source = f.source
            /\ pingSessions[k].icmpID = f.icmpID /\ pingSessions[k].dest = f.dest
        BY DEF Matching
      <3>2. pingSessions[k].req \in Requests
        BY <3>1, <1>t DEF TypeOK, Session
      <3>3. x \in PingResult /\ x.req = pingSessions[k].req
        BY <3>2 DEF Result, PingResult
      <3>4. /\ pendingPingResults' = Append(pendingPingResults, x)
            /\ pingSessions' = [y \in DOMAIN pingSessions \ {k} |-> pingSessions[y]]
            /\ overwritten' = overwritten
        BY <2>5 DEF Finish
      <3> HIDE DEF x
      <3>5. /\ <<x>> \in Seq(PingResult) /\ Reqs(<<x>>) = {pingSessions[k].req}
            /\ Distinct(<<x>>) /\ Successes(<<x>>) \subseteq {pingSessions[k].req}
            /\ pendingPingResults' = pendingPingResults \o <<x>>
            /\ pendingPingResults' \in Seq(PingResult)
        <4>1. pendingPingResults \in Seq(PingResult)
          BY <1>a DEF AnswersTypeOK
        <4>2. /\ <<x>> \in Seq(PingResult) /\ Distinct(<<x>>)
              /\ Reqs(<<x>>) = {x.req}
              /\ Successes(<<x>>) = IF x.outcome = "reply" THEN {x.req} ELSE {}
              /\ pendingPingResults' = pendingPingResults \o <<x>>
          BY <3>3, <3>4, <4>1, OneResult
        <4> QED
          BY <3>3, <3>4, <4>1, <4>2, Behind
      <3>6. AnswersTypeOK'
        BY <3>4, <3>5, <2>1, <2>2, <1>a DEF AnswersTypeOK, Frame
      <3>7. ASSUME NEW r, r = pingSessions[k].req PROVE EchoAnswered(r)'
        <4>1. k = Key(r) /\ local[r].dest = f.dest /\ ICMPID(local[r].at) = f.icmpID
          BY <3>1, <3>7, <1>a DEF SessionsOwn
        <4>2. local[r].source = f.source
          BY <4>1, <3>1 DEF Key
        <4>3. /\ f.req \in arrived' /\ local[f.req].source = f.source
              /\ local[f.req].dest = f.dest /\ ICMPID(local[f.req].at) = f.icmpID
          BY <2>1, <2>2 DEF Own
        <4>4. \E q \in arrived' : /\ local[q].source = local[r].source
                                  /\ local[q].dest = local[r].dest
                                  /\ ICMPID(local[q].at) = ICMPID(local[r].at)
          BY <4>1, <4>2, <4>3
        <4> QED
          BY <4>4, <2>1 DEF EchoAnswered, ICMPID
      <3> DEFINE K == {k}
      <3>8. /\ K \in SUBSET DOMAIN pingSessions
            /\ pingSessions' = [y \in DOMAIN pingSessions \ K |-> pingSessions[y]]
            /\ Reqs(<<x>>) \subseteq {pingSessions[y].req : y \in K}
        BY <3>1, <3>4, <3>5
      <3>9. \A r \in Successes(<<x>>) : EchoAnswered(r)'
        BY <3>5, <3>7
      <3> HIDE DEF K
      <3> QED
        BY <3>5, <3>6, <3>8, <3>9, <2>1, <2>3, <1>t, <1>a, SessionsEnd DEF AInv
    <2> QED
      BY <2>1, <2>4, <2>5
  <1>10. CASE HandlePingTimeout
    <2>1. /\ UNCHANGED <<pq, current, answers, copies, local, pc, arrived>>
          /\ \/ UNCHANGED sessionVars
             \/ \E k \in DOMAIN pingSessions : Finish(k, "timeout")
      BY <1>10 DEF HandlePingTimeout, Handling, schedVars
    <2>2. /\ Onward /\ OnlyOwnFrames
          /\ arrived \subseteq arrived' /\ arrived' \subseteq Begun
      BY <2>1, <1>a DEF Onward, Begun, OnlyOwnFrames
    <2>3. CASE UNCHANGED sessionVars
      BY <2>1, <2>2, <2>3, <1>t, <1>a, NothingEnds DEF sessionVars, AnswersTypeOK
    <2>4. ASSUME NEW k \in DOMAIN pingSessions, Finish(k, "timeout") PROVE AInv'
      <3> DEFINE x == Result(pingSessions[k].req, "timeout")
      <3>1. pingSessions[k].req \in Requests
        BY <1>t DEF TypeOK, Session
      <3>2. x \in PingResult /\ x.req = pingSessions[k].req /\ x.outcome # "reply"
        BY <3>1 DEF Result, PingResult
      <3>3. /\ pendingPingResults' = Append(pendingPingResults, x)
            /\ pingSessions' = [y \in DOMAIN pingSessions \ {k} |-> pingSessions[y]]
            /\ overwritten' = overwritten
        BY <2>4 DEF Finish
      <3> HIDE DEF x
      <3>4. /\ <<x>> \in Seq(PingResult) /\ Reqs(<<x>>) = {pingSessions[k].req}
            /\ Distinct(<<x>>) /\ Successes(<<x>>) = {}
            /\ pendingPingResults' = pendingPingResults \o <<x>>
            /\ pendingPingResults' \in Seq(PingResult)
        <4>1. pendingPingResults \in Seq(PingResult)
          BY <1>a DEF AnswersTypeOK
        <4>2. /\ <<x>> \in Seq(PingResult) /\ Distinct(<<x>>)
              /\ Reqs(<<x>>) = {x.req}
              /\ Successes(<<x>>) = IF x.outcome = "reply" THEN {x.req} ELSE {}
              /\ pendingPingResults' = pendingPingResults \o <<x>>
          BY <3>2, <3>3, <4>1, OneResult
        <4> QED
          BY <3>2, <3>3, <4>1, <4>2, Behind
      <3>5. AnswersTypeOK'
        BY <3>3, <3>4, <2>1, <1>a DEF AnswersTypeOK
      <3> DEFINE K == {k}
      <3>6. /\ K \in SUBSET DOMAIN pingSessions
            /\ pingSessions' = [y \in DOMAIN pingSessions \ K |-> pingSessions[y]]
            /\ Reqs(<<x>>) \subseteq {pingSessions[y].req : y \in K}
        BY <3>3, <3>4
      <3> HIDE DEF K
      <3> QED
        BY <3>4, <3>5, <3>6, <2>1, <2>2, <1>t, <1>a, SessionsEnd DEF AInv
    <2> QED
      BY <2>1, <2>3, <2>4
  <1>11. CASE DrainPingResults
    <2>1. /\ UNCHANGED <<pq, pingSessions, overwritten, arrived, copies, local, pc>>
          /\ answers' = answers \o pendingPingResults /\ pendingPingResults' = <<>>
          /\ current' = None
      BY <1>11 DEF DrainPingResults
    <2>2. answers \in Seq(PingResult) /\ pendingPingResults \in Seq(PingResult)
      BY <1>a DEF AnswersTypeOK
    <2>3. /\ answers' \in Seq(PingResult)
          /\ Reqs(answers') = Reqs(answers) \cup Reqs(pendingPingResults)
          /\ Successes(answers') = Successes(answers) \cup Successes(pendingPingResults)
          /\ Distinct(answers')
      BY <2>1, <2>2, <1>a, Behind DEF OnceTold
    <2>4. /\ pendingPingResults' \in Seq(PingResult) /\ Reqs(pendingPingResults') = {}
          /\ Distinct(pendingPingResults') /\ Successes(pendingPingResults') = {}
      BY <2>1, NoResult
    <2>5. /\ Reqs(answers)' = Reqs(answers) \cup Reqs(pendingPingResults)
          /\ Successes(answers)' = Successes(answers) \cup Successes(pendingPingResults)
          /\ Distinct(answers)'
          /\ Reqs(pendingPingResults)' = {} /\ Distinct(pendingPingResults)'
          /\ Successes(pendingPingResults)' = {}
      BY <2>3, <2>4 DEF Reqs, Distinct, Successes
    <2>6. Onward /\ OnlyOwnFrames
      BY <2>1 DEF Onward, Begun, OnlyOwnFrames, IsFrame
    <2>7. Open' = Open /\ Told' = Told /\ Begun' = Begun
      BY <2>1, <2>5 DEF Open, Told, Begun
    <2>8. AnswersTypeOK' /\ IsFiniteSet(DOMAIN pingSessions)' /\ OnceOpen'
      BY <2>1, <2>3, <2>4, <1>a DEF AnswersTypeOK, OnceOpen
    <2>9. OnceTold'
      BY <2>5, <2>7, <1>a DEF OnceTold
    <2>10. SessionsOwn'
      BY <2>1, <1>a DEF SessionsOwn, Key, ICMPID
    <2>11. FramesOwn'
      BY <2>6, <1>t, StillFrames
    <2>12. SuccessTrue'
      BY <2>1, <2>5, <1>a DEF SuccessTrue, EchoAnswered, ICMPID
    <2> QED
      BY <2>1, <2>7, <2>8, <2>9, <2>10, <2>11, <2>12, <1>a DEF AInv
  <1>12. ASSUME NEW d \in Removable, RemoveDevice(d) PROVE AInv'
    <2> DEFINE K == Cancelled(d)
    <2>1. /\ UNCHANGED <<pq, current, answers, arrived, copies, overwritten, local, pc>>
          /\ pingSessions' = [k \in DOMAIN pingSessions \ K |-> pingSessions[k]]
      BY <1>12 DEF RemoveDevice, schedVars
    <2>2. PICK order \in Orders(K) : pendingPingResults' = pendingPingResults \o
             [i \in 1 .. Len(order) |-> Result(pingSessions[order[i]].req, "removed")]
      BY <1>12 DEF RemoveDevice
    <2> DEFINE new == [i \in 1 .. Len(order) |->
                         Result(pingSessions[order[i]].req, "removed")]
    <2>3. K \in SUBSET DOMAIN pingSessions /\ Cardinality(K) \in Nat
      BY <1>a, FS_Subset, FS_CardinalityType DEF Cancelled
    <2> HIDE DEF K
    <2>4. /\ order \in Seq(K) /\ \A i \in 1 .. Len(order) : order[i] \in K
          /\ \A i, j \in 1 .. Len(order) : order[i] = order[j] => i = j
      <3>1. /\ order \in [1 .. Cardinality(K) -> K]
            /\ \A i, j \in DOMAIN order : order[i] = order[j] => i = j
        BY DEF Orders
      <3>2. order \in Seq(K) /\ Len(order) = Cardinality(K)
        BY <3>1, <2>3
      <3> QED
        BY <3>1, <3>2, <2>3
    <2>5. \A k \in K : pingSessions[k].req \in Requests
      BY <2>3, <1>t DEF TypeOK, Session
    <2>6. new \in Seq(PingResult)
      <3>1. \A i \in 1 .. Len(order) :
               Result(pingSessions[order[i]].req, "removed") \in PingResult
        BY <2>4, <2>5 DEF Result, PingResult
      <3> QED
        BY <3>1, <2>4
    <2>7. /\ DOMAIN new = 1 .. Len(order)
          /\ \A i \in 1 .. Len(order) : new[i].req = pingSessions[order[i]].req
                                        /\ new[i].outcome # "reply"
      BY DEF Result
    <2> HIDE DEF new
    <2>8. Distinct(new)
      <3> SUFFICES ASSUME NEW i \in 1 .. Len(order), NEW j \in 1 .. Len(order),
                          new[i].req = new[j].req
                   PROVE  i = j
        BY <2>7 DEF Distinct
      <3>1. order[i] = order[j]
        BY <2>3, <2>4, <2>7, <1>a DEF OnceOpen
      <3> QED
        BY <3>1, <2>4
    <2>9. Reqs(new) \subseteq {pingSessions[k].req : k \in K} /\ Successes(new) = {}
      BY <2>4, <2>7 DEF Reqs, Successes
    <2>10. pendingPingResults' = pendingPingResults \o new
      BY <2>2 DEF new
    <2>11. AnswersTypeOK'
      <3>1. pendingPingResults' \in Seq(PingResult)
        BY <2>6, <2>10, <1>a DEF AnswersTypeOK
      <3> QED
        BY <3>1, <2>1, <1>a DEF AnswersTypeOK
    <2>12. /\ Onward /\ OnlyOwnFrames
           /\ arrived \subseteq arrived' /\ arrived' \subseteq Begun
      BY <2>1, <1>a DEF Onward, Begun, OnlyOwnFrames
    <2> QED
      BY <2>1, <2>3, <2>6, <2>8, <2>9, <2>10, <2>11, <2>12, <1>t, <1>a, SessionsEnd
  <1>13. ASSUME NEW e \in pq, NEW d \in Delays, DuplicateFrame(e, d) PROVE AInv'
    <2>1. /\ UNCHANGED <<current, answers, pendingPingResults, pingSessions,
                         overwritten, arrived, local, pc>>
          /\ e.type = "PACKET_RX" /\ Schedule("PACKET_RX", d, e.data)
          /\ copies' = copies + 1
      BY <1>13 DEF DuplicateFrame, sessionVars
    <2>2. Own(e.data)
      <3>1. e # None
        BY <1>c, <1>t DEF TypeOK
      <3> QED
        BY <3>1, <2>1, <1>a DEF FramesOwn, IsFrame
    <2>3. Onward /\ OnlyOwnFrames
      BY <2>1, <2>2, ScheduledData DEF Onward, Begun, OnlyOwnFrames
    <2>4. AnswersTypeOK'
      BY <2>1, <1>a DEF AnswersTypeOK
    <2> QED
      BY <2>1, <2>3, <2>4, <1>t, <1>a, NothingEnds
  <1>14. CASE UNCHANGED vars
    <2>1. UNCHANGED <<pq, current, answers, pendingPingResults, pingSessions,
                      overwritten, arrived, copies, local, pc>>
      BY <1>14 DEF vars, sessionVars, schedVars
    <2>2. Onward /\ OnlyOwnFrames /\ AnswersTypeOK'
      BY <2>1, <1>a DEF Onward, Begun, OnlyOwnFrames, AnswersTypeOK
    <2> QED
      BY <2>1, <2>2, <1>t, <1>a, NothingEnds
  <1> QED
    BY <1>1, <1>2, <1>3, <1>4, <1>5, <1>6, <1>7, <1>8, <1>9, <1>10, <1>11,
       <1>12, <1>13, <1>14 DEF Next, LoopNext, PingThread, AtHorizon

(* However replies, duplicates, timeouts and removals race, no request     *)
(* gets a second result, and no success is reported that no echo to that   *)
(* destination earned.                                                     *)
THEOREM AnswersStaySound == Spec => []AnswersSound
  <1>1. AInv => AnswersSound
    <2> SUFFICES ASSUME AInv PROVE AnswersSound
      OBVIOUS
    <2>1. /\ AnswersTypeOK /\ OnceOpen /\ OnceTold /\ SuccessTrue
      BY DEF AInv
    <2>2. /\ Reqs(Results) = Told
          /\ Successes(Results) = Successes(answers) \cup Successes(pendingPingResults)
          /\ Distinct(Results)
      BY <2>1, Behind DEF AnswersTypeOK, OnceTold, Told, Results
    <2>3. AtMostOneAnswer
      BY <2>1, <2>2 DEF AtMostOneAnswer, Distinct, OnceOpen, OnceTold, Open, Reqs
    <2>4. SuccessHasReply
      BY <2>1, <2>2 DEF SuccessHasReply, SuccessTrue, EchoAnswered, Successes
    <2> QED
      BY <2>1, <2>3, <2>4 DEF AnswersSound
  <1> QED
    BY <1>1, InitAInv, NextAInv, InductiveInvariant, PTL DEF Spec

(* What the model checker checks of sessions and answers in one.           *)
THEOREM PingsStaySound == Spec => []PingsSound
  <1>1. SessionsSound /\ AnswersSound => PingsSound
    BY DEF PingsSound
  <1> QED
    BY <1>1, SessionsStaySound, AnswersStaySound, PTL

(* --- Ping implements Scheduler ------------------------------------------- *)

(* Events differ by their number even without their data, and the loop     *)
(* never drains results while it holds a protocol timer.                   *)
RInv ==
    /\ \A e, f \in pq : e.id = f.id => e = f
    /\ \A e \in pq : e.id <= eventCount
    /\ draining /\ current # None => current.type \in {"PACKET_RX", "TIMER_ICMP"}

LEMMA InitRInv == Init => RInv
  BY DEF Init, RInv

LEMMA NextRInv == TypeOK /\ RInv /\ [Next]_vars => RInv'
  <1> SUFFICES ASSUME TypeOK, RInv, [Next]_vars PROVE RInv'
    OBVIOUS
  <1>t. eventCount \in Nat /\ pq \subseteq Event /\ \A e \in pq : e.id \in Nat
    BY DEF TypeOK, Event
  <1>s. ASSUME NEW type, NEW offset, NEW data, Schedule(type, offset, data)
        PROVE  /\ \A e, f \in pq' : e.id = f.id => e = f
               /\ \A e \in pq' : e.id <= eventCount'
    <2> DEFINE n == [id |-> eventCount + 1, timestamp |-> simClock + offset,
                     type |-> type, data |-> data]
    <2>1. pq' = pq \cup {n} /\ n.id = eventCount + 1 /\ eventCount' = eventCount + 1
      BY <1>s DEF Schedule
    <2> HIDE DEF n
    <2>2. \A e \in pq : e.id # n.id /\ e.id <= eventCount'
      BY <2>1, <1>t DEF RInv
    <2> QED
      BY <2>1, <2>2, <1>t DEF RInv
  <1>u. ASSUME UNCHANGED <<pq, eventCount>>
        PROVE  /\ \A e, f \in pq' : e.id = f.id => e = f
               /\ \A e \in pq' : e.id <= eventCount'
    BY <1>u DEF RInv
  <1>1. ASSUME NEW r \in Requests, NEW p \in Pings,
               StartPing(r, p[1], p[2]) \/ StartPingError(r, p[1])
        PROVE  RInv'
    BY <1>1 DEF StartPing, StartPingError, schedVars, RInv
  <1>2. ASSUME NEW r \in Requests, InsertSession(r) PROVE RInv'
    BY <1>2 DEF InsertSession, schedVars, RInv
  <1>3. ASSUME NEW r \in Requests, SendEcho(r) \/ ArmTimeout(r) PROVE RInv'
    <2>1. UNCHANGED <<current, draining>>
      BY <1>3 DEF SendEcho, ArmTimeout
    <2>2. UNCHANGED <<pq, eventCount>>
          \/ \E type, offset, data : Schedule(type, offset, data)
      BY <1>3 DEF SendEcho, ArmTimeout
    <2> QED
      BY <2>1, <2>2, <1>s, <1>u DEF RInv
  <1>4. ASSUME NEW e \in pq, Step(e) PROVE RInv'
    BY <1>4 DEF Step, RInv
  <1>5. CASE HandleTimerEvent
    BY <1>5, <1>s DEF HandleTimerEvent, RInv
  <1>6. CASE HandleEchoRequest
    <2>1. current' = current /\ current.type = "PACKET_RX"
      BY <1>6 DEF HandleEchoRequest, HandlingFrame, Handling
    <2>2. UNCHANGED <<pq, eventCount>>
          \/ \E type, offset, data : Schedule(type, offset, data)
      BY <1>6 DEF HandleEchoRequest
    <2> QED
      BY <2>1, <2>2, <1>s, <1>u DEF RInv
  <1>7. CASE HandleEchoReply \/ HandlePingTimeout
    BY <1>7 DEF HandleEchoReply, HandlePingTimeout, HandlingFrame, Handling,
                schedVars, RInv
  <1>8. CASE DrainPingResults
    BY <1>8 DEF DrainPingResults, RInv
  <1>9. ASSUME NEW d \in Removable, RemoveDevice(d) PROVE RInv'
    BY <1>9 DEF RemoveDevice, schedVars, RInv
  <1>10. ASSUME NEW e \in pq, NEW d \in Delays, DuplicateFrame(e, d) PROVE RInv'
    <2>1. UNCHANGED <<current, draining>> /\ Schedule("PACKET_RX", d, e.data)
      BY <1>10 DEF DuplicateFrame
    <2> QED
      BY <2>1, <1>s DEF RInv
  <1>11. CASE UNCHANGED vars
    BY <1>11 DEF vars, schedVars, RInv
  <1> QED
    BY <1>1, <1>2, <1>3, <1>4, <1>5, <1>6, <1>7, <1>8, <1>9, <1>10, <1>11
       DEF Next, LoopNext, PingThread, AtHorizon

(* What Scheduler sees of the queue and of the loop.                       *)
Seen == {Strip(e) : e \in pq}
Busy == IF current = None THEN None ELSE Strip(current)

LEMMA StripSeen ==
    ASSUME TypeOK
    PROVE  /\ current # None => Busy # None /\ Busy.type = current.type
           /\ current = None => Busy = None
           /\ \A e \in pq : Strip(e) # None /\ Strip(e).timestamp = e.timestamp
  <1>1. ASSUME NEW e \in Event
        PROVE  Strip(e) # None /\ Strip(e).timestamp = e.timestamp
               /\ Strip(e).type = e.type
    <2>1. Strip(e) \in [id : Nat, timestamp : Nat,
                        type : {ProtoTimer, "PACKET_RX", "TIMER_ICMP"}]
      BY DEF Strip, Event
    <2> QED
      BY <2>1, PingAssumption DEF Strip
  <1> QED
    BY <1>1 DEF TypeOK, Busy

LEMMA ScheduleSeen ==
    ASSUME NEW type, NEW offset, NEW data, Schedule(type, offset, data)
    PROVE  Engine!Schedule(type, offset)
  <1>1. Seen' = Seen \cup {[id |-> eventCount + 1, timestamp |-> simClock + offset,
                            type |-> type]}
    <2> DEFINE n == [id |-> eventCount + 1, timestamp |-> simClock + offset,
                     type |-> type, data |-> data]
    <2>1. pq' = pq \cup {n}
      BY DEF Schedule
    <2>2. Strip(n) = [id |-> eventCount + 1, timestamp |-> simClock + offset,
                      type |-> type]
      BY DEF Strip
    <2> HIDE DEF n
    <2>3. Seen' = Seen \cup {Strip(n)}
      BY <2>1 DEF Seen
    <2> QED
      BY <2>2, <2>3
  <1> QED
    BY <1>1 DEF Schedule, Engine!Schedule, Seen

LEMMA OneShotSeen ==
    ASSUME NEW type \in {"PACKET_RX", "TIMER_ICMP"}, NEW offset \in Delays \cup {Timeout},
           NEW data, Schedule(type, offset, data), UNCHANGED <<simClock, current>>
    PROVE  Engine!User
  <1>1. Engine!ScheduleOneShot(type, offset)
    BY ScheduleSeen DEF Engine!ScheduleOneShot
  <1>2. type \in Engine!OneShots
    BY DEF Engine!OneShots
  <1> QED
    BY <1>1, <1>2 DEF Engine!User

LEMMA InitSeen == Init => Engine!Init
  <1> SUFFICES ASSUME Init PROVE Engine!Init
    OBVIOUS
  <1>1. Cardinality({ProtoTimer}) = 1
    BY FS_Singleton
  <1>2. Seen = {[id |-> 1, timestamp |-> Interval, type |-> ProtoTimer]}
    BY DEF Init, Seen, Strip
  <1>3. Seen = {[id |-> [p \in {ProtoTimer} |-> 1][q],
                 timestamp |-> [p \in {ProtoTimer} |-> Interval][q], type |-> q]
                   : q \in {ProtoTimer}}
    BY <1>2
  <1>4. simClock = 0 /\ eventCount = 1 /\ current = None
    BY DEF Init
  <1>5. eventCount = Engine!NumTimers
    <2>1. Engine!Cardinality({ProtoTimer}) = Cardinality({ProtoTimer})
      BY DEF Cardinality, Engine!Cardinality
    <2> QED
      BY <2>1, <1>1, <1>4 DEF Engine!NumTimers
  <1>6. Busy = None
    BY <1>4 DEF Busy
  <1>7. {Strip(e) : e \in pq} =
          {[id |-> [p \in {ProtoTimer} |-> 1][q],
            timestamp |-> [p \in {ProtoTimer} |-> Interval][q], type |-> q]
              : q \in {ProtoTimer}}
    BY <1>3 DEF Seen
  <1> QED
    BY <1>4, <1>5, <1>6, <1>7, Zenon DEF Engine!Init, Busy

LEMMA NextSeen ==
    TypeOK /\ RInv /\ [Next]_vars => [Engine!EngineNext]_(Engine!vars)
  <1> SUFFICES ASSUME TypeOK, RInv, [Next]_vars
               PROVE  Engine!EngineNext \/ UNCHANGED (Engine!vars)
    OBVIOUS
  <1>s. UNCHANGED schedVars => UNCHANGED (Engine!vars)
    BY DEF schedVars, Engine!vars
  <1>u. ASSUME UNCHANGED <<pq, eventCount, simClock, current>>
        PROVE  UNCHANGED (Engine!vars)
    BY <1>s, <1>u DEF schedVars
  <1>1. ASSUME NEW r \in Requests, NEW p \in Pings,
               StartPing(r, p[1], p[2]) \/ StartPingError(r, p[1])
        PROVE  UNCHANGED (Engine!vars)
    BY <1>1, <1>s DEF StartPing, StartPingError
  <1>2. ASSUME NEW r \in Requests, InsertSession(r) PROVE UNCHANGED (Engine!vars)
    BY <1>2, <1>s DEF InsertSession
  <1>3. ASSUME NEW r \in Requests, SendEcho(r)
        PROVE  Engine!EngineNext \/ UNCHANGED (Engine!vars)
    <2>1. UNCHANGED <<simClock, current>>
      BY <1>3 DEF SendEcho
    <2>2. UNCHANGED <<pq, eventCount>>
          \/ \E d \in Delays : \E data : Schedule("PACKET_RX", d, data)
      BY <1>3 DEF SendEcho
    <2> QED
      BY <2>1, <2>2, <1>u, OneShotSeen DEF Engine!EngineNext
  <1>4. ASSUME NEW r \in Requests, ArmTimeout(r) PROVE Engine!EngineNext
    <2>1. /\ UNCHANGED <<simClock, current>>
          /\ Schedule("TIMER_ICMP", Timeout, Key(r))
      BY <1>4 DEF ArmTimeout
    <2> QED
      BY <2>1, OneShotSeen DEF Engine!EngineNext
  <1>5. ASSUME NEW e \in pq, Step(e) PROVE Engine!EngineNext
    <2>1. /\ current = None /\ \A f \in pq : e.timestamp <= f.timestamp
          /\ pq' = pq \ {e} /\ simClock' = e.timestamp /\ current' = e
          /\ eventCount' = eventCount
      BY <1>5 DEF Step
    <2>2. e # None
      BY PingAssumption DEF TypeOK
    <2>3. \A f \in pq : Strip(f) = Strip(e) => f = e
      BY DEF RInv, Strip
    <2>4. Seen' = Seen \ {Strip(e)}
      BY <2>1, <2>3 DEF Seen
    <2>5. Busy = None /\ Busy' = Strip(e)
      BY <2>1, <2>2 DEF Busy
    <2>6. Strip(e) \in Seen /\ \A f \in Seen : Strip(e).timestamp <= f.timestamp
      BY <2>1, StripSeen DEF Seen
    <2>7. simClock' = Strip(e).timestamp
      BY <2>1, StripSeen
    <2>8. Engine!Step(Strip(e))
      BY <2>1, <2>4, <2>5, <2>6, <2>7 DEF Engine!Step, Engine!Earliest, Seen, Busy
    <2> QED
      BY <2>6, <2>8 DEF Engine!EngineNext, Seen
  <1>6. CASE HandleTimerEvent
    <2>1. /\ current # None /\ current.type = ProtoTimer /\ current' = None
          /\ simClock' = simClock /\ Schedule(ProtoTimer, Interval, None)
      BY <1>6 DEF HandleTimerEvent, Handling
    <2>2. Busy # None /\ Busy.type = ProtoTimer /\ Busy' = None
      BY <2>1, StripSeen DEF Busy
    <2>3. Engine!Schedule(ProtoTimer, Interval)
      BY <2>1, ScheduleSeen
    <2>4. Engine!HandleTimerEvent
      BY <2>1, <2>2, <2>3 DEF Engine!HandleTimerEvent, Busy
    <2> QED
      BY <2>4 DEF Engine!EngineNext, Engine!Handle
  <1>7. CASE HandleEchoRequest
    <2>1. UNCHANGED <<simClock, current>>
      BY <1>7 DEF HandleEchoRequest
    <2>2. UNCHANGED <<pq, eventCount>>
          \/ \E d \in Delays : \E data : Schedule("PACKET_RX", d, data)
      BY <1>7 DEF HandleEchoRequest
    <2> QED
      BY <2>1, <2>2, <1>u, OneShotSeen DEF Engine!EngineNext
  <1>8. CASE HandleEchoReply \/ HandlePingTimeout
    BY <1>8, <1>s DEF HandleEchoReply, HandlePingTimeout
  <1>9. CASE DrainPingResults
    <2>1. /\ draining /\ current' = None /\ UNCHANGED <<pq, simClock, eventCount>>
      BY <1>9 DEF DrainPingResults
    <2>2. CASE current = None
      BY <2>1, <2>2, <1>u
    <2>3. CASE current # None
      <3>1. Busy # None /\ Busy.type \in {"PACKET_RX", "TIMER_ICMP"} /\ Busy' = None
        BY <2>1, <2>3, StripSeen DEF RInv, Busy
      <3>2. Engine!HandleSimulationEvent
        BY <2>1, <3>1 DEF Engine!HandleSimulationEvent, Busy
      <3> QED
        BY <3>2 DEF Engine!EngineNext, Engine!Handle
    <2> QED
      BY <2>2, <2>3
  <1>10. ASSUME NEW d \in Removable, RemoveDevice(d) PROVE UNCHANGED (Engine!vars)
    BY <1>10, <1>s DEF RemoveDevice
  <1>11. ASSUME NEW e \in pq, NEW d \in Delays, DuplicateFrame(e, d)
         PROVE  Engine!EngineNext
    <2>1. UNCHANGED <<simClock, current>> /\ Schedule("PACKET_RX", d, e.data)
      BY <1>11 DEF DuplicateFrame
    <2> QED
      BY <2>1, OneShotSeen DEF Engine!EngineNext
  <1>12. CASE UNCHANGED vars
    BY <1>12, <1>s DEF vars
  <1> QED
    BY <1>1, <1>2, <1>3, <1>4, <1>5, <1>6, <1>7, <1>8, <1>9, <1>10, <1>11, <1>12
       DEF Next, LoopNext, PingThread, AtHorizon

(* The event engine under the pings is Scheduler's: whatever goroutines    *)
(* and handlers do, stripped of its data the queue takes Scheduler's steps.*)
THEOREM RunsOnEngine == Spec => EngineSpec
  BY InitRInv, NextRInv, InitSeen, NextSeen, TypeCorrect, PTL
     DEF Spec, EngineSpec, Engine!EngineSpec

(* --- Ping keeps its promise ---------------------------------------------- *)
Due == Elements(pendingPingResults)
Said == Elements(answers)

(* A request that is not started has no call; only pings that stored their *)
(* session were replaced or sent an echo.                                  *)
CInv ==
    /\ \A r \in Requests : pc[r] = "idle" => local[r] = None
    /\ overwritten \subseteq Begun
    /\ \A e \in pq \cup {current} : IsFrame(e) => local[e.data.req] # None

LEMMA ElementsBehind ==
    ASSUME NEW s \in Seq(PingResult), NEW t \in Seq(PingResult)
    PROVE  Elements(s \o t) = Elements(s) \cup Elements(t)
  <1> DEFINE u == s \o t
  <1>1. /\ Len(s) \in Nat /\ Len(t) \in Nat
        /\ DOMAIN s = 1 .. Len(s) /\ DOMAIN t = 1 .. Len(t)
        /\ DOMAIN u = 1 .. Len(s) + Len(t)
        /\ \A i \in DOMAIN u : u[i] = IF i <= Len(s) THEN s[i] ELSE t[i - Len(s)]
    OBVIOUS
  <1> HIDE DEF u
  <1>2. ASSUME NEW i \in DOMAIN u PROVE u[i] \in Elements(s) \cup Elements(t)
    <2>1. CASE i <= Len(s)
      <3>1. i \in DOMAIN s /\ u[i] = s[i]
        BY <1>1, <2>1
      <3> QED
        BY <3>1 DEF Elements
    <2>2. CASE ~(i <= Len(s))
      <3>1. i - Len(s) \in DOMAIN t /\ u[i] = t[i - Len(s)]
        BY <1>1, <2>2
      <3> QED
        BY <3>1 DEF Elements
    <2> QED
      BY <2>1, <2>2
  <1>3. ASSUME NEW i \in DOMAIN s PROVE s[i] \in Elements(u)
    <2>1. i \in DOMAIN u /\ u[i] = s[i]
      BY <1>1
    <2> QED
      BY <2>1 DEF Elements
  <1>4. ASSUME NEW i \in DOMAIN t PROVE t[i] \in Elements(u)
    <2>1. Len(s) + i \in DOMAIN u /\ u[Len(s) + i] = t[i]
      BY <1>1
    <2> QED
      BY <2>1 DEF Elements
  <1>5. Elements(u) \subseteq Elements(s) \cup Elements(t)
    BY <1>2 DEF Elements
  <1>6. Elements(s) \subseteq Elements(u) /\ Elements(t) \subseteq Elements(u)
    BY <1>3, <1>4 DEF Elements
  <1> QED
    BY <1>5, <1>6 DEF u

LEMMA OneElement ==
    /\ Elements(<<>>) = {}
    /\ \A x \in PingResult, s \in Seq(PingResult) : Elements(Append(s, x)) = Elements(s) \cup {x}
  <1>1. DOMAIN <<>> = {}
    OBVIOUS
  <1>2. ASSUME NEW x \in PingResult, NEW s \in Seq(PingResult)
        PROVE  Elements(Append(s, x)) = Elements(s) \cup {x}
    <2>1. DOMAIN <<x>> = {1} /\ <<x>>[1] = x
      OBVIOUS
    <2>2. Elements(<<x>>) = {x}
      BY <2>1 DEF Elements
    <2>3. <<x>> \in Seq(PingResult) /\ Append(s, x) = s \o <<x>>
      BY OneResult
    <2> QED
      BY <2>2, <2>3, ElementsBehind
  <1> QED
    BY <1>1, <1>2 DEF Elements

(* Whom results are about.                                                 *)
LEMMA EndedTold ==
    {x.req : x \in Due \cup Said} = Told
  BY DEF Due, Said, Elements, Told, Reqs

LEMMA InitCInv == Init => CInv
  <1> SUFFICES ASSUME Init PROVE CInv
    OBVIOUS
  <1>1. \A e \in pq \cup {current} : ~IsFrame(e)
    BY PingAssumption DEF Init, IsFrame
  <1> QED
    BY <1>1 DEF Init, CInv

LEMMA StepsOnward == TypeOK /\ [Next]_vars => Onward
  <1> SUFFICES ASSUME TypeOK, [Next]_vars PROVE Onward
    OBVIOUS
  <1>1. ASSUME NEW r \in Requests, NEW p \in Pings,
               StartPing(r, p[1], p[2]) \/ StartPingError(r, p[1])
        PROVE  Onward
    <2>1. /\ pc[r] = "idle"
          /\ pc' = [pc EXCEPT ![r] = "read"] \/ pc' = [pc EXCEPT ![r] = "done"]
          /\ \A q \in Requests \ {r} : local'[q] = local[q]
      BY <1>1 DEF StartPing, StartPingError, TypeOK
    <2> QED
      BY <2>1 DEF Onward, Begun, TypeOK
  <1>2. ASSUME NEW r \in Requests, PingThread(r) PROVE Onward
    <2>1. /\ local' = local
          /\ pc' = [pc EXCEPT ![r] = "inserted"] \/ pc' = [pc EXCEPT ![r] = "sent"]
             \/ pc' = [pc EXCEPT ![r] = "done"]
      BY <1>2 DEF PingThread, InsertSession, SendEcho, ArmTimeout
    <2> QED
      BY <2>1 DEF Onward, Begun, TypeOK
  <1>3. CASE UNCHANGED <<pc, local>>
    BY <1>3 DEF Onward, Begun
  <1>4. ASSUME LoopNext PROVE UNCHANGED <<pc, local>>
    BY <1>4 DEF LoopNext, Step, HandleTimerEvent, HandleEchoRequest, HandleEchoReply,
                HandlePingTimeout, DrainPingResults
  <1>5. ASSUME NEW d \in Removable, RemoveDevice(d) PROVE UNCHANGED <<pc, local>>
    BY <1>5 DEF RemoveDevice
  <1>6. ASSUME NEW e \in pq, NEW d \in Delays, DuplicateFrame(e, d)
        PROVE  UNCHANGED <<pc, local>>
    BY <1>6 DEF DuplicateFrame
  <1>7. ASSUME UNCHANGED vars PROVE UNCHANGED <<pc, local>>
    BY <1>7 DEF vars
  <1> QED
    BY <1>1, <1>2, <1>3, <1>4, <1>5, <1>6, <1>7 DEF Next, AtHorizon

(* Frames in flight still have a call, when the new ones have one.         *)
LEMMA StillCalled ==
    ASSUME AInv, CInv, Onward,
           \A e \in pq' \cup {current'} : IsFrame(e) =>
              e \in pq \cup {current} \/ local'[e.data.req] # None
    PROVE  (\A e \in pq \cup {current} : IsFrame(e) => local[e.data.req] # None)'
  <1> SUFFICES ASSUME NEW e \in pq' \cup {current'}, IsFrame(e)
               PROVE  local'[e.data.req] # None
    BY DEF IsFrame
  <1>1. CASE e \in pq \cup {current}
    <2>1. local[e.data.req] # None /\ e.data.req \in Begun
      BY <1>1 DEF CInv, AInv, FramesOwn, Own
    <2> QED
      BY <2>1 DEF Onward
  <1> QED
    BY <1>1

LEMMA NextCInv == IInv /\ AInv /\ CInv /\ [Next]_vars => CInv'
  <1> SUFFICES ASSUME IInv, AInv, CInv, [Next]_vars PROVE CInv'
    OBVIOUS
  <1>c. /\ ProtoTimer # "PACKET_RX" /\ None \notin Event /\ None \notin Local
    BY PingAssumption
  <1>t. TypeOK /\ Onward
    BY StepsOnward DEF IInv
  <1> DEFINE Calls == \A r \in Requests : pc'[r] = "idle" => local'[r] = None
             NewCalled == \A e \in pq' \cup {current'} : IsFrame(e) =>
                             e \in pq \cup {current} \/ local'[e.data.req] # None
  <1>q. ASSUME Calls, NewCalled, overwritten' \subseteq overwritten \cup Open PROVE CInv'
    <2>1. overwritten' \subseteq Begun'
      BY <1>q, <1>t DEF CInv, AInv, Onward
    <2>2. (\A e \in pq \cup {current} : IsFrame(e) => local[e.data.req] # None)'
      BY <1>q, <1>t, StillCalled
    <2> QED
      BY <1>q, <2>1, <2>2 DEF CInv
  <1>u. ASSUME UNCHANGED <<pc, local>> PROVE Calls
    BY <1>u DEF CInv
  <1>1. ASSUME NEW r \in Requests, NEW p \in Pings,
               StartPing(r, p[1], p[2]) \/ StartPingError(r, p[1])
        PROVE  CInv'
    <2>1. /\ UNCHANGED <<pq, current, overwritten>>
          /\ pc' = [pc EXCEPT ![r] = "read"] \/ pc' = [pc EXCEPT ![r] = "done"]
          /\ \A q \in Requests \ {r} : local'[q] = local[q]
      BY <1>1, <1>t DEF StartPing, StartPingError, schedVars, sessionVars, TypeOK
    <2>2. Calls
      BY <2>1, <1>t DEF CInv, TypeOK
    <2> QED
      BY <2>1, <2>2, <1>q
  <1>2. ASSUME NEW r \in Requests, InsertSession(r) PROVE CInv'
    <2>1. /\ UNCHANGED <<pq, current, local>>
          /\ pc' = [pc EXCEPT ![r] = "inserted"]
          /\ overwritten' \subseteq overwritten \cup Open
      BY <1>2 DEF InsertSession, schedVars, Open
    <2>2. Calls
      BY <2>1, <1>t DEF CInv, TypeOK
    <2> QED
      BY <2>1, <2>2, <1>q
  <1>3. ASSUME NEW r \in Requests, SendEcho(r) PROVE CInv'
    <2> DEFINE f == [kind |-> "echo", source |-> local[r].source,
                     dest |-> local[r].dest, icmpID |-> ICMPID(local[r].at),
                     req |-> r]
    <2>1. /\ UNCHANGED <<current, local, overwritten>>
          /\ pc[r] = "inserted" /\ pc' = [pc EXCEPT ![r] = "sent"]
      BY <1>3 DEF SendEcho, sessionVars
    <2>2. Calls /\ local'[r] # None
      BY <2>1, <1>t, <1>c DEF CInv, TypeOK, InCall
    <2>3. f.req = r
      OBVIOUS
    <2>4. pq' = pq \/ \E d \in Delays : Schedule("PACKET_RX", d, f)
      BY <1>3 DEF SendEcho
    <2> HIDE DEF f
    <2>5. NewCalled
      BY <2>1, <2>2, <2>3, <2>4, ScheduledData
    <2> QED
      BY <2>1, <2>2, <2>5, <1>q
  <1>4. ASSUME NEW r \in Requests, ArmTimeout(r) PROVE CInv'
    <2>1. /\ UNCHANGED <<current, local, overwritten>>
          /\ pc' = [pc EXCEPT ![r] = "done"]
          /\ Schedule("TIMER_ICMP", Timeout, Key(r))
      BY <1>4 DEF ArmTimeout, sessionVars
    <2>2. Calls
      BY <2>1, <1>t DEF CInv, TypeOK
    <2>3. NewCalled
      BY <2>1, ScheduledData DEF IsFrame
    <2> QED
      BY <2>1, <2>2, <2>3, <1>q
  <1>5. ASSUME NEW e \in pq, Step(e) PROVE CInv'
    BY <1>5, <1>q, <1>u DEF Step, sessionVars
  <1>6. CASE HandleTimerEvent
    <2>1. /\ UNCHANGED <<pc, local, overwritten>> /\ current' = None
          /\ Schedule(ProtoTimer, Interval, None)
      BY <1>6 DEF HandleTimerEvent, sessionVars
    <2>2. NewCalled
      BY <2>1, <1>c, ScheduledData DEF IsFrame
    <2> QED
      BY <2>1, <2>2, <1>q, <1>u
  <1>7. CASE HandleEchoRequest
    <2> DEFINE f == [current.data EXCEPT !.kind = "reply"]
    <2>1. /\ UNCHANGED <<current, pc, local, overwritten>>
          /\ current # None /\ current.type = "PACKET_RX"
      BY <1>7 DEF HandleEchoRequest, HandlingFrame, Handling, sessionVars
    <2>2. local'[f.req] # None
      <3>1. current.data \in Frame /\ local[current.data.req] # None
        BY <2>1, <1>c, <1>t DEF CInv, IsFrame, TypeOK, Event
      <3> QED
        BY <3>1, <2>1 DEF Frame
    <2>3. pq' = pq \/ \E d \in Delays : Schedule("PACKET_RX", d, f)
      BY <1>7 DEF HandleEchoRequest
    <2> HIDE DEF f
    <2>4. NewCalled
      BY <2>1, <2>2, <2>3, ScheduledData
    <2> QED
      BY <2>1, <2>4, <1>q, <1>u
  <1>8. CASE HandleEchoReply \/ HandlePingTimeout
    <2>1. UNCHANGED <<pq, current, pc, local, overwritten>>
      BY <1>8 DEF HandleEchoReply, HandlePingTimeout, CompletePing, Finish, schedVars,
                  sessionVars
    <2> QED
      BY <2>1, <1>q, <1>u
  <1>9. CASE DrainPingResults
    BY <1>9, <1>q, <1>u DEF DrainPingResults, IsFrame
  <1>10. ASSUME NEW d \in Removable, RemoveDevice(d) PROVE CInv'
    BY <1>10, <1>q, <1>u DEF RemoveDevice, schedVars
  <1>11. ASSUME NEW e \in pq, NEW d \in Delays, DuplicateFrame(e, d) PROVE CInv'
    <2>1. /\ UNCHANGED <<current, pc, local, overwritten>>
          /\ e.type = "PACKET_RX" /\ Schedule("PACKET_RX", d, e.data)
      BY <1>11 DEF DuplicateFrame, sessionVars
    <2>2. local'[e.data.req] # None
      BY <2>1, <1>c, <1>t DEF CInv, IsFrame, TypeOK
    <2>3. NewCalled
      BY <2>1, <2>2, ScheduledData
    <2> QED
      BY <2>1, <2>3, <1>q, <1>u
  <1>12. CASE UNCHANGED vars
    BY <1>12, <1>q, <1>u DEF vars, schedVars, sessionVars
  <1> QED
    BY <1>1, <1>2, <1>3, <1>4, <1>5, <1>6, <1>7, <1>8, <1>9, <1>10, <1>11, <1>12
       DEF Next, LoopNext, PingThread, AtHorizon

LEMMA InitPromise == Init => Promise!Init
  <1> SUFFICES ASSUME Init PROVE Promise!Init
    OBVIOUS
  <1>1. Elements(answers) = {} /\ Elements(pendingPingResults) = {}
    BY OneElement DEF Init
  <1>2. {pingSessions[k].req : k \in DOMAIN pingSessions} = {}
    BY DEF Init
  <1>3. Open = {}
    BY <1>2 DEF Open
  <1>4. /\ simClock = 0 /\ local = [r \in Requests |-> None]
        /\ overwritten = {} /\ arrived = {}
    BY DEF Init
  <1> QED
    BY <1>1, <1>3, <1>4 DEF Promise!Init

(* What a session is to the promise: its key and its address are those of  *)
(* its request's call.                                                     *)
LEMMA SessionOfCall ==
    ASSUME TypeOK, AInv, NEW k \in DOMAIN pingSessions, NEW r, r = pingSessions[k].req
    PROVE  /\ r \in Requests /\ r \in Open
           /\ k = Key(r) /\ k.source = local[r].source /\ k.at = local[r].at
           /\ pingSessions[k].dest = local[r].dest
           /\ pingSessions[k].icmpID = ICMPID(local[r].at)
  <1>1. r \in Requests /\ r \in Open
    BY DEF TypeOK, Session, Open
  <1>2. /\ k = Key(r)
        /\ pingSessions[k].dest = local[r].dest
        /\ pingSessions[k].icmpID = ICMPID(local[r].at)
    BY DEF AInv, SessionsOwn
  <1>3. Key(r).source = local[r].source /\ Key(r).at = local[r].at
    BY DEF Key
  <1> QED
    BY <1>1, <1>2, <1>3

(* A session that ends takes its ping from the open ones to those whose    *)
(* result is due.                                                          *)
LEMMA FinishEnds ==
    ASSUME TypeOK, AInv, NEW k \in DOMAIN pingSessions, NEW r, r = pingSessions[k].req,
           NEW outcome \in {"reply", "timeout"}, Finish(k, outcome),
           UNCHANGED <<simClock, local, answers>>
    PROVE  Promise!End({r}, outcome)
  <1> DEFINE x == Result(r, outcome)
  <1>1. r \in Requests
    BY SessionOfCall
  <1>2. /\ pendingPingResults' = Append(pendingPingResults, x)
        /\ pingSessions' = [y \in DOMAIN pingSessions \ {k} |-> pingSessions[y]]
        /\ overwritten' = overwritten
    BY DEF Finish
  <1>3. x \in PingResult
    BY <1>1 DEF Result, PingResult
  <1>4. {Promise!Result(q, outcome) : q \in {r}} = {x}
    BY DEF Promise!Result, Result
  <1> HIDE DEF x
  <1>5. Due' = Due \cup {x}
    <2>1. Elements(Append(pendingPingResults, x)) = Elements(pendingPingResults) \cup {x}
      BY <1>3, OneElement DEF AInv, AnswersTypeOK
    <2> QED
      BY <2>1, <1>2 DEF Due, Elements
  <1>6. Open' = Open \ {r}
    BY <1>2 DEF Open, AInv, OnceOpen
  <1>7. Said' = Said
    BY DEF Said, Elements
  <1> QED
    BY <1>2, <1>4, <1>5, <1>6, <1>7 DEF Promise!End, Due, Said

(* So do those RemoveDevice cancels: it lists every session of its device. *)
LEMMA RemoveEnds ==
    ASSUME TypeOK, AInv, NEW d, RemoveDevice(d)
    PROVE  Promise!Cancel(d)
  <1> DEFINE K == Cancelled(d)
             R == {r \in Open : local[r].source = d}
  <1>1. /\ UNCHANGED <<simClock, local, answers, overwritten, arrived>>
        /\ pingSessions' = [k \in DOMAIN pingSessions \ K |-> pingSessions[k]]
    BY DEF RemoveDevice, schedVars
  <1>2. PICK order \in Orders(K) : pendingPingResults' = pendingPingResults \o
           [i \in 1 .. Len(order) |-> Result(pingSessions[order[i]].req, "removed")]
    BY DEF RemoveDevice
  <1> DEFINE new == [i \in 1 .. Len(order) |->
                       Result(pingSessions[order[i]].req, "removed")]
  <1>3. K \in SUBSET DOMAIN pingSessions /\ IsFiniteSet(K) /\ Cardinality(K) \in Nat
    BY FS_Subset, FS_CardinalityType DEF Cancelled, AInv
  <1>4. R = {pingSessions[k].req : k \in K}
    <2>1. ASSUME NEW k \in DOMAIN pingSessions
          PROVE  /\ pingSessions[k].req \in Open
                 /\ local[pingSessions[k].req].source = k.source
      BY SessionOfCall
    <2> QED
      BY <2>1 DEF Cancelled, Open
  <1> HIDE DEF K
  <1>5. /\ order \in Injection(1 .. Cardinality(K), K)
        /\ order \in Seq(K) /\ Len(order) = Cardinality(K)
        /\ DOMAIN order = 1 .. Cardinality(K)
    BY <1>3 DEF Orders, Injection, IsInjective
  <1>6. \A k \in K : \E i \in 1 .. Len(order) : order[i] = k
    <2>1. Cardinality(1 .. Cardinality(K)) = Cardinality(K)
      BY <1>3, FS_Interval
    <2>2. order \in Surjection(1 .. Cardinality(K), K)
      BY <2>1, <1>3, <1>5, FS_Injection
    <2> QED
      BY <2>2, <1>5 DEF Surjection
  <1>7. \A i \in 1 .. Len(order) : order[i] \in K
    BY <1>5 DEF Injection
  <1>8. \A k \in K : pingSessions[k].req \in Requests
    BY <1>3 DEF TypeOK, Session
  <1>9. new \in Seq(PingResult)
    <2>1. \A i \in 1 .. Len(order) :
             Result(pingSessions[order[i]].req, "removed") \in PingResult
      BY <1>7, <1>8 DEF Result, PingResult
    <2> QED
      BY <2>1, <1>3, <1>5
  <1>10. Elements(new) = {Promise!Result(r, "removed") : r \in R}
    <2>1. Elements(new) =
            {Result(pingSessions[order[i]].req, "removed") : i \in 1 .. Len(order)}
      BY DEF Elements
    <2>2. Elements(new) = {Result(pingSessions[k].req, "removed") : k \in K}
      <3> HIDE DEF new
      <3> QED BY <2>1, <1>6, <1>7
    <2> QED
      BY <2>2, <1>4 DEF Promise!Result, Result
  <1> HIDE DEF new
  <1>11. Due' = Due \cup Elements(new)
    <2>1. pendingPingResults' = pendingPingResults \o new
      BY <1>2 DEF new
    <2>2. Elements(pendingPingResults \o new) =
            Elements(pendingPingResults) \cup Elements(new)
      BY <1>9, ElementsBehind DEF AInv, AnswersTypeOK
    <2> QED
      BY <2>1, <2>2 DEF Due, Elements
  <1>12. Open' = Open \ R
    <2>1. Open' = {pingSessions[k].req : k \in DOMAIN pingSessions \ K}
      BY <1>1 DEF Open
    <2>2. OnceOpen
      BY DEF AInv
    <2> HIDE DEF R
    <2> QED
      BY <2>1, <2>2, <1>3, <1>4 DEF Open, OnceOpen
  <1>13. Said' = Said
    BY <1>1 DEF Said, Elements
  <1> QED
    BY <1>1, <1>10, <1>11, <1>12, <1>13 DEF Promise!Cancel, Promise!End, Due, Said

LEMMA NextPromise ==
    IInv /\ AInv /\ CInv /\ [Next]_vars => [Promise!Next]_(Promise!vars)
  <1> SUFFICES ASSUME IInv, AInv, CInv, [Next]_vars
               PROVE  Promise!Next \/ UNCHANGED (Promise!vars)
    OBVIOUS
  <1>c. /\ Pings \subseteq Devices \X Devices /\ Removable \subseteq Devices
        /\ None \notin Event /\ None \notin Local /\ ProtoTimer # "PACKET_RX"
    BY PingAssumption
  <1>t. TypeOK /\ simClock \in Nat
    BY DEF IInv, TypeOK
  <1>a. /\ Open \cup overwritten \cup Told \subseteq Begun /\ FramesOwn
        /\ Promise!Ended = Told
    BY EndedTold DEF AInv, CInv, Promise!Ended, Due, Said
  <1>e. /\ UNCHANGED pendingPingResults => UNCHANGED Due
        /\ UNCHANGED answers => UNCHANGED Said
        /\ UNCHANGED pingSessions => UNCHANGED Open
    BY DEF Due, Said, Elements, Open
  <1>s. ASSUME UNCHANGED <<simClock, local, sessionVars, arrived, answers>>
        PROVE  UNCHANGED (Promise!vars)
    BY <1>s, <1>e DEF Promise!vars, sessionVars, Due, Said
  <1>1. ASSUME NEW r \in Requests, NEW p \in Pings, StartPing(r, p[1], p[2])
        PROVE  Promise!Ask(r)
    <2>1. /\ pc[r] = "idle" /\ UNCHANGED <<simClock, sessionVars, arrived, answers>>
          /\ local' = [local EXCEPT ![r] =
                          [source |-> p[1], dest |-> p[2], at |-> simClock]]
          /\ p[1] \in Devices /\ p[2] \in Devices
      BY <1>1, <1>c DEF StartPing, schedVars
    <2>2. local[r] = None /\ r \notin Told
      BY <2>1, <1>a DEF CInv, Begun
    <2> QED
      BY <2>1, <2>2, <1>a, <1>e DEF Promise!Ask, Promise!Called, sessionVars, Due, Said
  <1>2. ASSUME NEW r \in Requests, NEW p \in Pings, StartPingError(r, p[1])
        PROVE  Promise!Refuse(r)
    <2> DEFINE x == Result(r, "error")
    <2>1. /\ pc[r] = "idle" /\ UNCHANGED <<simClock, local, sessionVars, arrived>>
          /\ answers' = Append(answers, x)
      BY <1>2 DEF StartPingError, schedVars
    <2>2. local[r] = None /\ r \notin Told
      BY <2>1, <1>a DEF CInv, Begun
    <2>3. x \in PingResult /\ x = Promise!Result(r, "error")
      BY DEF Result, PingResult, Promise!Result
    <2> HIDE DEF x
    <2>4. Said' = Said \cup {x}
      <3>1. Elements(Append(answers, x)) = Elements(answers) \cup {x}
        BY <2>3, OneElement DEF AInv, AnswersTypeOK
      <3> QED
        BY <3>1, <2>1 DEF Said, Elements
    <2> QED
      BY <2>1, <2>2, <2>3, <2>4, <1>a, <1>e
         DEF Promise!Refuse, Promise!Called, sessionVars, Due, Said
  <1>3. ASSUME NEW r \in Requests, InsertSession(r) PROVE Promise!Open(r)
    <2> DEFINE k == Key(r)
               Old == {pingSessions[x].req : x \in DOMAIN pingSessions \cap {k}}
               replaced == {q \in Open : local[q].source = local[r].source
                                         /\ local[q].at = local[r].at}
    <2>1. /\ pc[r] = "read"
          /\ UNCHANGED <<simClock, local, pendingPingResults, arrived, answers>>
          /\ overwritten' = overwritten \cup Old
          /\ DOMAIN pingSessions' = DOMAIN pingSessions \cup {k}
          /\ pingSessions'[k].req = r
          /\ \A x \in DOMAIN pingSessions \ {k} : pingSessions'[x] = pingSessions[x]
      BY <1>3 DEF InsertSession, schedVars
    <2>2. local[r] # None /\ r \notin Begun
      BY <2>1, <1>t, <1>c DEF TypeOK, InCall, Begun
    <2>3. replaced = Old
      <3>1. ASSUME NEW x \in DOMAIN pingSessions
            PROVE  /\ pingSessions[x].req \in Open
                   /\ local[pingSessions[x].req].source = x.source
                   /\ local[pingSessions[x].req].at = x.at
                   /\ x = Key(pingSessions[x].req)
        BY <1>t, SessionOfCall
      <3>2. ASSUME NEW x \in DOMAIN pingSessions
            PROVE  x = k <=> x.source = local[r].source /\ x.at = local[r].at
        BY <3>1 DEF Key
      <3> HIDE DEF k
      <3> QED
        BY <3>1, <3>2 DEF Open
    <2> HIDE DEF k
    <2>4. Open' = (Open \ Old) \cup {r}
      <3>1. OnceOpen
        BY DEF AInv
      <3>2. Open' = {pingSessions[x].req : x \in DOMAIN pingSessions \ {k}} \cup {r}
        BY <2>1 DEF Open
      <3>3. {pingSessions[x].req : x \in DOMAIN pingSessions \ {k}} = Open \ Old
        BY <3>1 DEF Open, OnceOpen
      <3> QED
        BY <3>2, <3>3
    <2> HIDE DEF Old
    <2>5. r \notin Open \cup overwritten \cup Told
      BY <2>2, <1>a
    <2> QED
      BY <2>1, <2>2, <2>3, <2>4, <2>5, <1>a, <1>e
         DEF Promise!Open, Promise!Called, Due, Said
  <1>4. ASSUME NEW r \in Requests, SendEcho(r) \/ ArmTimeout(r)
        PROVE  UNCHANGED (Promise!vars)
    BY <1>4, <1>s DEF SendEcho, ArmTimeout
  <1>5. ASSUME NEW e \in pq, Step(e) PROVE Promise!Tick
    <2>1. e.timestamp \in Nat /\ simClock <= e.timestamp
      BY <1>t DEF TypeOK, Event, IInv, QueueOK
    <2>2. simClock' = e.timestamp /\ UNCHANGED <<local, sessionVars, arrived, answers>>
      BY <1>5 DEF Step
    <2> QED
      BY <2>1, <2>2, <1>e DEF Promise!Tick, sessionVars, Due, Said
  <1>6. CASE HandleTimerEvent \/ HandleEchoRequest
    BY <1>6, <1>s DEF HandleTimerEvent, HandleEchoRequest
  <1>7. ASSUME HandleEchoReply PROVE Promise!Hear(current.data.req)
    <2> DEFINE f == current.data
               q == f.req
    <2>1. /\ UNCHANGED <<simClock, local, answers>>
          /\ current # None /\ current.type = "PACKET_RX"
          /\ arrived' = arrived \cup {q}
          /\ \/ UNCHANGED sessionVars
             \/ \E k \in Matching(f) : Finish(k, "reply")
      BY <1>7 DEF HandleEchoReply, HandlingFrame, Handling, schedVars, CompletePing
    <2>2. Own(f) /\ local[q] # None
      BY <2>1, <1>a DEF FramesOwn, IsFrame, CInv
    <2> HIDE DEF f, q
    <2>3. CASE UNCHANGED sessionVars
      BY <2>1, <2>2, <2>3, <1>e
         DEF Promise!Hear, Promise!Called, sessionVars, q, f, Due, Said
    <2>4. ASSUME NEW k \in Matching(f), Finish(k, "reply")
          PROVE  Promise!Hear(q)
      <3> DEFINE r == pingSessions[k].req
      <3>1. /\ k \in DOMAIN pingSessions /\ k.source = f.source
            /\ pingSessions[k].icmpID = f.icmpID /\ pingSessions[k].dest = f.dest
        BY DEF Matching
      <3>2. /\ r \in Open /\ k.source = local[r].source
            /\ pingSessions[k].dest = local[r].dest
            /\ pingSessions[k].icmpID = ICMPID(local[r].at)
        BY <3>1, <1>t, SessionOfCall
      <3>3. Promise!End({r}, "reply")
        BY <2>1, <2>4, <3>1, <1>t, FinishEnds
      <3>4. /\ f.source = local[q].source /\ f.dest = local[q].dest
            /\ f.icmpID = ICMPID(local[q].at)
        BY <2>2 DEF Own, q
      <3>5. /\ local[r].source = local[q].source /\ local[r].dest = local[q].dest
            /\ SameID(local[r].at, local[q].at)
        BY <3>1, <3>2, <3>4 DEF SameID
      <3> HIDE DEF r
      <3> QED
        BY <2>1, <2>2, <3>2, <3>3, <3>5 DEF Promise!Hear, Promise!Called
    <2> QED
      BY <2>1, <2>3, <2>4 DEF q, f
  <1>8. ASSUME HandlePingTimeout
        PROVE  (\E r \in Requests : Promise!Expire(r)) \/ UNCHANGED (Promise!vars)
    <2> DEFINE k == current.data
               r == pingSessions[k].req
    <2>1. /\ UNCHANGED <<simClock, local, answers, arrived>>
          /\ current # None /\ current.type = "TIMER_ICMP"
          /\ IF k \in DOMAIN pingSessions THEN Finish(k, "timeout") ELSE UNCHANGED sessionVars
      BY <1>8 DEF HandlePingTimeout, Handling, schedVars
    <2>2. k.at + Timeout <= simClock
      BY <2>1 DEF IInv, CurrentOK
    <2> HIDE DEF k
    <2>3. CASE k \notin DOMAIN pingSessions
      BY <2>1, <2>3, <1>s
    <2>4. CASE k \in DOMAIN pingSessions
      <3>1. r \in Requests /\ r \in Open /\ k.at = local[r].at
        BY <2>4, <1>t, SessionOfCall
      <3>2. Promise!End({r}, "timeout")
        BY <2>1, <2>4, <1>t, FinishEnds
      <3>3. simClock >= local[r].at + Timeout
        <4>1. k.at \in Nat /\ Timeout \in Nat
          BY <2>4, <1>t, PingAssumption DEF TypeOK, SessionKey
        <4> QED
          BY <4>1, <3>1, <2>2, <1>t
      <3> HIDE DEF r
      <3> QED
        BY <2>1, <3>1, <3>2, <3>3 DEF Promise!Expire
    <2> QED
      BY <2>3, <2>4
  <1>9. ASSUME DrainPingResults PROVE Promise!Tell
    <2>1. /\ UNCHANGED <<simClock, local, pingSessions, overwritten, arrived>>
          /\ answers' = answers \o pendingPingResults /\ pendingPingResults' = <<>>
      BY <1>9 DEF DrainPingResults
    <2>2. Elements(answers \o pendingPingResults) =
            Elements(answers) \cup Elements(pendingPingResults)
      BY ElementsBehind DEF AInv, AnswersTypeOK
    <2>3. Said' = Said \cup Due /\ Due' = {}
      <3>1. Elements(<<>>) = {}
        BY OneElement
      <3> QED
        BY <3>1, <2>1, <2>2 DEF Said, Due, Elements
    <2> QED
      BY <2>1, <2>3, <1>e DEF Promise!Tell, Said, Due
  <1>10. ASSUME NEW d \in Removable, RemoveDevice(d)
         PROVE  \E x \in Devices : Promise!Cancel(x)
    BY <1>10, <1>c, <1>t, RemoveEnds
  <1>11. ASSUME NEW e \in pq, NEW d \in Delays, DuplicateFrame(e, d)
         PROVE  UNCHANGED (Promise!vars)
    BY <1>11, <1>s DEF DuplicateFrame
  <1>12. CASE UNCHANGED vars
    BY <1>12, <1>s DEF vars, schedVars
  <1>13. ASSUME HandleEchoReply PROVE current.data.req \in Requests
    BY <1>13, <1>a DEF HandleEchoReply, HandlingFrame, Handling, FramesOwn, IsFrame, Own,
                       Begun
  <1> QED
    BY <1>1, <1>2, <1>3, <1>4, <1>5, <1>6, <1>7, <1>8, <1>9, <1>10, <1>11, <1>12, <1>13
       DEF Next, LoopNext, PingThread, AtHorizon, Promise!Next

(* A ping keeps what StartPing promises, for every number of requests,     *)
(* every delay, loss and duplication, and whatever devices are removed.    *)
THEOREM KeepsPromise == Spec => PromiseSpec
  BY InitIInv, NextIInv, InitAInv, NextAInv, InitCInv, NextCInv, InitPromise, NextPromise,
     PTL DEF Spec, PromiseSpec, Promise!Spec
=============================================================================
