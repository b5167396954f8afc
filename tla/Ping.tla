-------------------------------- MODULE Ping --------------------------------
(***************************************************************************)
(* Ping sessions (engine/network/dataplane.go) on top of the event engine. *)
(*                                                                         *)
(* A WebSocket goroutine runs StartPing in four steps that other           *)
(* goroutines interleave with: it reads the clock, stores the session      *)
(* under (source, clock), sends the echo, and schedules the timeout.  The  *)
(* simulation loop delivers frames and timeouts meanwhile, and drains the  *)
(* results after every event.  RemoveDevice may run at any moment.         *)
(*                                                                         *)
(* The network between source and destination is one lossy hop each way:   *)
(* the hops in between only schedule PACKET_RX events of their own, which  *)
(* the Scheduler module covers.                                            *)
(***************************************************************************)
EXTENDS Integers, Sequences, FiniteSets

CONSTANTS
    Requests,     \* calls of StartPing
    Hosts,        \* devices whose handleHostIP completes pings
    Routers,      \* devices that may send pings, but ignore echo replies
    Pings,        \* the <<source, destination>> pairs users ask for
    Removable,    \* the devices users remove
    ProtoTimer,   \* a recurring protocol timer, which moves the clock
    Interval,     \* its interval
    Timeout,      \* IcmpPingTimeout
    Delays,       \* end-to-end delays of an echo or of its reply
    TicksPerMs,   \* clock ticks per millisecond
    IDSpace,      \* 2^16: the ICMP identifier is a uint16
    None,         \* no event, no data
    MaxClock,     \* bound: no StartPing begins later, see MayStep
    MaxCopies     \* bound: frames that switching loops duplicate

Devices == Hosts \cup Routers

Local == [source : Devices, dest : Devices, at : Nat]
SessionKey == [source : Devices, at : Nat]
Session == [req : Requests, dest : Devices, icmpID : Nat, sentAt : Nat]
Frame == [kind : {"echo", "reply"}, source : Devices, dest : Devices,
          icmpID : Nat, req : Requests]
Event ==
    [id : Nat, timestamp : Nat, type : {ProtoTimer}, data : {None}]
      \cup [id : Nat, timestamp : Nat, type : {"PACKET_RX"}, data : Frame]
      \cup [id : Nat, timestamp : Nat, type : {"TIMER_ICMP"}, data : SessionKey]

ASSUME PingAssumption ==
    /\ IsFiniteSet(Requests)
    /\ Pings \subseteq Devices \X Devices /\ Removable \subseteq Devices
    /\ Timeout \in Nat /\ Interval \in Nat \ {0} /\ Delays \subseteq Nat
    /\ TicksPerMs \in Nat \ {0} /\ IDSpace \in Nat \ {0, 1}
    /\ MaxClock \in Nat /\ MaxCopies \in Nat
    /\ ProtoTimer \notin {"PACKET_RX", "TIMER_ICMP"}
    /\ None \notin Event \cup Local
    /\ None \notin [id : Nat, timestamp : Nat,
                   type : {ProtoTimer, "PACKET_RX", "TIMER_ICMP"}]

VARIABLES
    pq, simClock, eventCount, current,   \* the scheduler and its loop
    draining,           \* the handler returned, DrainPingResults is next
    devices,            \* devices that exist
    pc,                 \* pc[r]: where the goroutine of request r is
    local,              \* local[r]: its source, destination and clock reading
    pingSessions,       \* the sessions, by (source, clock) key
    pendingPingResults, \* results not drained yet
    answers,            \* history: the results the UI got, in order
    overwritten,        \* history: requests whose session was replaced
    arrived,            \* history: requests whose echo reply arrived
    copies              \* frames duplicated so far

schedVars == <<pq, simClock, eventCount, current>>
sessionVars == <<pingSessions, pendingPingResults, overwritten>>
vars == <<schedVars, draining, devices, pc, local, sessionVars, answers,
          arrived, copies>>

-----------------------------------------------------------------------------
Schedule(type, offset, data) ==
    /\ eventCount' = eventCount + 1
    /\ pq' = pq \cup {[id |-> eventCount + 1, timestamp |-> simClock + offset,
                       type |-> type, data |-> data]}

(* uint16(simTime/time.Millisecond) % 65535                                *)
ICMPID(t) == ((t \div TicksPerMs) % IDSpace) % (IDSpace - 1)

(* sessionID: two pings of one source at one clock value share it.         *)
Key(r) == [source |-> local[r].source, at |-> local[r].at]

Result(r, outcome) == [req |-> r, outcome |-> outcome]
PingResult == [req : Requests, outcome : {"reply", "timeout", "removed", "error"}]

Init ==
    /\ pq = {[id |-> 1, timestamp |-> Interval, type |-> ProtoTimer, data |-> None]}
    /\ simClock = 0
    /\ eventCount = 1
    /\ current = None
    /\ draining = FALSE
    /\ devices = Devices
    /\ pc = [r \in Requests |-> "idle"]
    /\ local = [r \in Requests |-> None]
    /\ pingSessions = [k \in {} |-> None]
    /\ pendingPingResults = <<>>
    /\ answers = <<>>
    /\ overwritten = {}
    /\ arrived = {}
    /\ copies = 0

(* --- StartPing ---------------------------------------------------------- *)

(* GetHost/GetRouter find the source; the clock is read.                   *)
StartPing(r, source, dest) ==
    /\ pc[r] = "idle" /\ simClock <= MaxClock
    /\ source \in devices 
    /\ pc' = [pc EXCEPT ![r] = "read"]
    /\ local' = [local EXCEPT ![r] =
                    [source |-> source, dest |-> dest, at |-> simClock]]
    /\ UNCHANGED <<schedVars, draining, devices, sessionVars, answers, arrived,
                   copies>>

(* Unknown source, or a router with no interface up: the error is the      *)
(* answer, sent to the client at once.                                     *)
StartPingError(r, source) ==
    /\ pc[r] = "idle" /\ simClock <= MaxClock
    /\ source \notin devices \/ source \in Routers
    /\ pc' = [pc EXCEPT ![r] = "done"]
    /\ answers' = Append(answers, Result(r, "error"))
    /\ UNCHANGED <<schedVars, draining, devices, local, sessionVars, arrived,
                   copies>>

(* m.pingSessions[sessionID] = ..., whatever was there before.             *)
InsertSession(r) ==
    /\ pc[r] = "read"
    /\ LET k == Key(r) IN
         /\ overwritten' = overwritten \cup
                {pingSessions[x].req : x \in DOMAIN pingSessions \cap {k}}
         /\ pingSessions' = [x \in DOMAIN pingSessions \cup {k} |->
                IF x = k
                THEN [req |-> r, dest |-> local[r].dest,
                      icmpID |-> ICMPID(local[r].at), sentAt |-> local[r].at]
                ELSE pingSessions[x]]
    /\ pc' = [pc EXCEPT ![r] = "inserted"]
    /\ UNCHANGED <<schedVars, draining, devices, local, pendingPingResults,
                   answers, arrived, copies>>

(* sendIPFromHost / forwardIPFromRouter: the echo is on its way, or it is  *)
(* lost (no route, interface down, ACL, unresolved ARP, no link).          *)
SendEcho(r) ==
    /\ pc[r] = "inserted"
    /\ pc' = [pc EXCEPT ![r] = "sent"]
    /\ \/ \E d \in Delays :
            Schedule("PACKET_RX", d,
                     [kind |-> "echo", source |-> local[r].source,
                      dest |-> local[r].dest, icmpID |-> ICMPID(local[r].at),
                      req |-> r])
       \/ UNCHANGED <<pq, eventCount>>
    /\ UNCHANGED <<simClock, current, draining, devices, local, sessionVars,
                   answers, arrived, copies>>

(* Mutant: the key is built from a second reading of the clock.            *)
MutArmTimeoutKey(r) ==
    /\ pc[r] = "sent"
    /\ pc' = [pc EXCEPT ![r] = "done"]
    /\ Schedule("TIMER_ICMP", Timeout, [Key(r) EXCEPT !.at = simClock])
    /\ UNCHANGED <<simClock, current, draining, devices, local, sessionVars,
                   answers, arrived, copies>>

(* Mutant: the timeout is one tick short.                                  *)
MutArmTimeout(r) ==
    /\ pc[r] = "sent"
    /\ pc' = [pc EXCEPT ![r] = "done"]
    /\ Schedule("TIMER_ICMP", Timeout - 1, Key(r))
    /\ UNCHANGED <<simClock, current, draining, devices, local, sessionVars,
                   answers, arrived, copies>>

(* Schedule(EventTimerICMP, ...): the timeout counts from the clock now.   *)
ArmTimeout(r) ==
    /\ pc[r] = "sent"
    /\ pc' = [pc EXCEPT ![r] = "done"]
    /\ Schedule("TIMER_ICMP", Timeout, Key(r))
    /\ UNCHANGED <<simClock, current, draining, devices, local, sessionVars,
                   answers, arrived, copies>>

PingThread(r) == InsertSession(r) \/ SendEcho(r) \/ ArmTimeout(r)

(* --- The simulation loop ------------------------------------------------ *)

InCall(r) == pc[r] \in {"read", "inserted", "sent"}

(* Bound: past MaxClock the clock moves only while one-shot events are     *)
(* left and no StartPing is under way.                                     *)
MayStep(e) ==
    \/ e.timestamp <= MaxClock
    \/ /\ \A r \in Requests : ~InCall(r)
       /\ \E f \in pq : f.type # ProtoTimer

(* Mutant: any event may come out of the heap.                             *)
MutStep(e) ==
    /\ current = None /\ ~draining
    /\ e \in pq
    /\ MayStep(e)
    /\ pq' = pq \ {e}
    /\ simClock' = e.timestamp
    /\ current' = e
    /\ UNCHANGED <<eventCount, draining, devices, pc, local, sessionVars,
                   answers, arrived, copies>>

Step(e) ==
    /\ current = None /\ ~draining
    /\ e \in pq /\ \A f \in pq : e.timestamp <= f.timestamp
    /\ MayStep(e)
    /\ pq' = pq \ {e}
    /\ simClock' = e.timestamp
    /\ current' = e
    /\ UNCHANGED <<eventCount, draining, devices, pc, local, sessionVars,
                   answers, arrived, copies>>

Handling(type) == current # None /\ ~draining /\ current.type = type

HandleTimerEvent ==
    /\ Handling(ProtoTimer)
    /\ Schedule(ProtoTimer, Interval, None)
    /\ current' = None /\ draining' = TRUE
    /\ UNCHANGED <<simClock, devices, pc, local, sessionVars, answers, arrived,
                   copies>>

HandlingFrame(kind) ==
    Handling("PACKET_RX") /\ current.data.kind = kind

(* An echo reaches its destination: it is answered if the device is still  *)
(* there, and the reply, too, may be lost.                                 *)
HandleEchoRequest ==
    /\ HandlingFrame("echo")
    /\ \/ \E d \in Delays :
            /\ current.data.dest \in devices
            /\ Schedule("PACKET_RX", d, [current.data EXCEPT !.kind = "reply"])
       \/ UNCHANGED <<pq, eventCount>>
    /\ draining' = TRUE
    /\ UNCHANGED <<simClock, current, devices, pc, local, sessionVars, answers, arrived,
                   copies>>

(* Mutant: the address the reply came from is not compared.                *)
MutMatching(reply) ==
    {k \in DOMAIN pingSessions :
        /\ k.source = reply.source
        /\ pingSessions[k].icmpID = reply.icmpID}

(* The sessions completePing takes the reply for: same source device, same *)
(* identifier (the sequence number is always 1), reply from the address    *)
(* that was pinged.                                                        *)
Matching(reply) ==
    {k \in DOMAIN pingSessions :
        /\ k.source = reply.source
        /\ pingSessions[k].icmpID = reply.icmpID
        /\ pingSessions[k].dest = reply.dest}

(* A session ends: it leaves the map and its result is queued.             *)
Finish(k, outcome) ==
    /\ pendingPingResults' =
         Append(pendingPingResults, Result(pingSessions[k].req, outcome))
    /\ pingSessions' = [x \in DOMAIN pingSessions \ {k} |-> pingSessions[x]]
    /\ UNCHANGED overwritten

(* Mutant: the session is completed but stays in the map.                  *)
MutCompletePing(reply) ==
    IF Matching(reply) = {} THEN UNCHANGED sessionVars
    ELSE \E k \in Matching(reply) :
           /\ pendingPingResults' =
                Append(pendingPingResults, Result(pingSessions[k].req, "reply"))
           /\ UNCHANGED <<pingSessions, overwritten>>

(* completePing: the first match in map order, which is arbitrary.         *)
CompletePing(reply) ==
    IF Matching(reply) = {} THEN UNCHANGED sessionVars
    ELSE \E k \in Matching(reply) : Finish(k, "reply")

(* handleHostIP for an echo reply.  A router drops it (handleRouterIP has  *)
(* no case for it), and so does the data plane if the source is gone.      *)
HandleEchoReply ==
    /\ HandlingFrame("reply")
    /\ LET reply == current.data IN
         /\ arrived' = arrived \cup {reply.req}
         /\ IF reply.source \in devices \cap Hosts
            THEN CompletePing(reply)
            ELSE UNCHANGED sessionVars
    /\ draining' = TRUE
    /\ UNCHANGED <<schedVars, devices, pc, local, answers, copies>>

(* Mutant: the timeout only drops the session.                             *)
MutHandlePingTimeout ==
    /\ Handling("TIMER_ICMP")
    /\ pingSessions' = [x \in DOMAIN pingSessions \ {current.data} |->
                            pingSessions[x]]
    /\ draining' = TRUE
    /\ UNCHANGED <<schedVars, devices, pc, local, answers,
                   arrived, copies, pendingPingResults, overwritten>>

HandlePingTimeout ==
    /\ Handling("TIMER_ICMP")
    /\ IF current.data \in DOMAIN pingSessions
       THEN Finish(current.data, "timeout")
       ELSE UNCHANGED sessionVars
    /\ draining' = TRUE
    /\ UNCHANGED <<schedVars, devices, pc, local, answers,
                   arrived, copies>>

(* DrainPingResults, and the broadcast of each result to the UI.           *)
DrainPingResults ==
    /\ draining
    /\ answers' = answers \o pendingPingResults
    /\ pendingPingResults' = <<>>
    /\ draining' = FALSE
    /\ current' = None
    /\ UNCHANGED <<pq, simClock, eventCount, devices, pc, local, pingSessions,
                   overwritten, arrived, copies>>

LoopNext ==
    \/ \E e \in pq : Step(e)
    \/ HandleTimerEvent
    \/ HandleEchoRequest
    \/ HandleEchoReply
    \/ HandlePingTimeout
    \/ DrainPingResults

(* --- Everything else ----------------------------------------------------- *)

(* The results RemoveDevice queues, one per session sourced from d, in map *)
(* order: any sequence that lists each of them once.                       *)
Cancelled(d) == {k \in DOMAIN pingSessions : k.source = d}
Orders(S) == {s \in [1 .. Cardinality(S) -> S] :
                \A i, j \in DOMAIN s : s[i] = s[j] => i = j}

(* Mutant: the sessions go without a result.                               *)
MutRemoveDevice(d) ==
    /\ d \in devices
    /\ devices' = devices \ {d}
    /\ pingSessions' = [k \in DOMAIN pingSessions \ Cancelled(d) |-> pingSessions[k]]
    /\ UNCHANGED <<schedVars, draining, pc, local, answers, overwritten, arrived,
                   copies, pendingPingResults>>

(* RemoveDevice: the device goes, with every session sourced from it.      *)
RemoveDevice(d) ==
    /\ d \in devices
    /\ devices' = devices \ {d}
    /\ \E order \in Orders(Cancelled(d)) :
         pendingPingResults' = pendingPingResults \o
           [i \in 1 .. Len(order) |-> Result(pingSessions[order[i]].req, "removed")]
    /\ pingSessions' = [k \in DOMAIN pingSessions \ Cancelled(d) |-> pingSessions[k]]
    /\ UNCHANGED <<schedVars, draining, pc, local, answers, overwritten, arrived,
                   copies>>

(* A loop of switches floods a second copy of a frame in flight.           *)
DuplicateFrame(e, d) ==
    /\ e.type = "PACKET_RX" /\ copies < MaxCopies
    /\ Schedule("PACKET_RX", d, e.data)
    /\ copies' = copies + 1
    /\ UNCHANGED <<simClock, current, draining, devices, pc, local, sessionVars,
                   answers, arrived>>

(* The bound is reached: every request is through and the clock may not    *)
(* move.                                                                   *)
AtHorizon ==
    /\ current = None /\ ~draining
    /\ \A e \in pq : ~MayStep(e)
    /\ simClock > MaxClock - Interval
    /\ UNCHANGED vars

Next ==
    \/ LoopNext
    \/ \E r \in Requests : PingThread(r)
    \/ \E r \in Requests, p \in Pings :
            StartPing(r, p[1], p[2]) \/ StartPingError(r, p[1])
    \/ \E d \in Removable : RemoveDevice(d)
    \/ \E e \in pq, d \in Delays : DuplicateFrame(e, d)
    \/ AtHorizon

Spec == Init /\ [][Next]_vars

(* The loop and every started goroutine keep running.                      *)
FairSpec == Spec /\ WF_vars(LoopNext) /\ \A r \in Requests : WF_vars(PingThread(r))

-----------------------------------------------------------------------------
TypeOK ==
    /\ pq \subseteq Event
    /\ simClock \in Nat /\ eventCount \in Nat
    /\ current \in Event \cup {None}
    /\ draining \in BOOLEAN
    /\ devices \subseteq Devices
    /\ pc \in [Requests -> {"idle", "read", "inserted", "sent", "done"}]
    /\ local \in [Requests -> Local \cup {None}]
    /\ \A r \in Requests : InCall(r) => local[r] \in Local
    /\ DOMAIN pingSessions \subseteq SessionKey
    /\ \A k \in DOMAIN pingSessions :
         pingSessions[k] \in Session /\ pingSessions[k].sentAt = k.at

IsTimeoutOf(e, k) == e.type = "TIMER_ICMP" /\ e.data = k

(* A stored session always has somebody who will end it: its timeout is in *)
(* the queue or being handled, or the goroutine that stored a session      *)
(* under this key has yet to schedule it.  Otherwise the session would     *)
(* stay in the map for ever and the user would never get an answer.        *)
SessionGuarded ==
    \A k \in DOMAIN pingSessions :
        \/ \E e \in pq : IsTimeoutOf(e, k)
        \/ Handling("TIMER_ICMP") /\ IsTimeoutOf(current, k)
        \/ \E r \in Requests : pc[r] \in {"inserted", "sent"} /\ Key(r) = k

(* handlePingTimeout never gives up on a ping before IcmpPingTimeout has   *)
(* passed since it was sent, even where several pings share a key.         *)
NoEarlyTimeout ==
    \A k \in DOMAIN pingSessions :
        Handling("TIMER_ICMP") /\ IsTimeoutOf(current, k) =>
            simClock >= pingSessions[k].sentAt + Timeout

AnswersTypeOK ==
    /\ answers \in Seq(PingResult) /\ pendingPingResults \in Seq(PingResult)
    /\ overwritten \subseteq Requests /\ arrived \subseteq Requests
    /\ copies \in Nat

(* What became of the sessions: told the UI, or about to be.               *)
Results == answers \o pendingPingResults

(* No request gets two results, whatever duplicate replies, late replies,  *)
(* timeouts and RemoveDevice calls race for its session: it has at most    *)
(* one session, and then no result yet.                                    *)
AtMostOneAnswer ==
    /\ \A i, j \in DOMAIN Results : Results[i].req = Results[j].req => i = j
    /\ \A k, l \in DOMAIN pingSessions :
         pingSessions[k].req = pingSessions[l].req => k = l
    /\ \A k \in DOMAIN pingSessions, i \in DOMAIN Results :
         pingSessions[k].req # Results[i].req

(* A success is never made up: some echo of that source to that            *)
(* destination, sent in the same millisecond, was really answered.  (It    *)
(* need not be the same request: the ICMP identifier is a millisecond.)    *)
SuccessHasReply ==
    \A i \in DOMAIN Results :
        Results[i].outcome = "reply" =>
            \E q \in arrived :
                LET r == Results[i].req IN
                /\ local[q].source = local[r].source
                /\ local[q].dest = local[r].dest
                /\ ICMPID(local[q].at) = ICMPID(local[r].at)

(* The sessions and their timeouts: nothing is stranded, nothing ends      *)
(* early.                                                                  *)
SessionsSound == TypeOK /\ SessionGuarded /\ NoEarlyTimeout

(* What the user is told: no request gets two results, and a success was   *)
(* an answered echo.                                                       *)
AnswersSound == AnswersTypeOK /\ AtMostOneAnswer /\ SuccessHasReply

(* Both: of a session that is stored somebody will tell the user, not too  *)
(* early, once, and the truth.                                             *)
PingsSound == SessionsSound /\ AnswersSound

Started(r) == pc[r] # "idle"
Answered(r) == \E i \in DOMAIN answers : answers[i].req = r

(* Every ping that was started gets a result, unless a later ping took     *)
(* over its session.                                                       *)
AnsweredUnlessOverwritten ==
    \A r \in Requests : Started(r) ~> (Answered(r) \/ r \in overwritten)

(* Stripped of their payload, the queue and the clock behave as the        *)
(* Scheduler module says (without its bounds).                             *)
Strip(e) == [id |-> e.id, timestamp |-> e.timestamp, type |-> e.type]
Engine == INSTANCE Scheduler WITH
    Timers <- {ProtoTimer},
    Interval <- [p \in {ProtoTimer} |-> Interval],
    StartOrder <- [p \in {ProtoTimer} |-> 1],
    Dispatched <- {"PACKET_RX", "TIMER_ICMP"},
    Undispatched <- {},
    Offsets <- Delays \cup {Timeout},
    MaxEvents <- 0,
    pq <- {Strip(e) : e \in pq},
    current <- IF current = None THEN None ELSE Strip(current)
EngineSpec == Engine!EngineSpec

(* Whatever the goroutines, the network and the timers do, a ping ends as  *)
(* PingPromise says: it stays open until it has its one result, which is   *)
(* a success only when an echo like it came back and a timeout only when   *)
(* its time is up, and only a ping that shares its key takes its place.    *)
SameID(t, u) == ICMPID(t) = ICMPID(u)
Elements(s) == {s[i] : i \in DOMAIN s}
Open == {pingSessions[k].req : k \in DOMAIN pingSessions}
Promise == INSTANCE PingPromise WITH
    Alike <- SameID,
    now <- simClock,
    call <- local,
    open <- Open,
    lost <- overwritten,
    heard <- arrived,
    due <- Elements(pendingPingResults),
    told <- Elements(answers)
PromiseSpec == Promise!Spec
=============================================================================
