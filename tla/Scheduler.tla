------------------------------ MODULE Scheduler ------------------------------
(***************************************************************************)
(* The discrete-event engine (engine/scheduler.go) and the goroutine that  *)
(* drives it (runSimulationLoop in main.go).                               *)
(*                                                                         *)
(* Two kinds of goroutine touch it.  The simulation loop is the only       *)
(* caller of Step: it pops the earliest event, moves the virtual clock to  *)
(* it, runs the handler and goes back.  The WebSocket goroutines only call *)
(* Schedule, at any moment, also while a handler runs.  Schedule and Step  *)
(* hold the scheduler's mutex, so each is one step.                        *)
(***************************************************************************)
EXTENDS Integers, FiniteSets

CONSTANTS
    Timers,       \* event types the loop passes to HandleTimerEvent
    Interval,     \* Interval[p]: the period HandleTimerEvent reschedules p with
    StartOrder,   \* StartOrder[p]: the rank of p in ScheduleProtocolTimers
    Dispatched,   \* one-shot types the loop passes to HandleSimulationEvent
    Undispatched, \* one-shot types the loop has no case for
    Offsets,      \* delays one-shot events are scheduled with
    None,         \* "the loop is between two events"
    MaxClock,     \* bound: Step never moves the clock past it
    MaxEvents     \* bound: no one-shot event is scheduled beyond this count

OneShots == Dispatched \cup Undispatched
NumTimers == Cardinality(Timers)
Event == [id : Nat, timestamp : Nat, type : Timers \cup OneShots]

ASSUME TimersAssumption ==
    /\ IsFiniteSet(Timers)
    /\ Interval \in [Timers -> Nat \ {0}]
    /\ StartOrder \in [Timers -> 1 .. NumTimers]
    /\ \A p, q \in Timers : StartOrder[p] = StartOrder[q] => p = q

ASSUME TypesAssumption ==
    /\ Timers \cap OneShots = {}
    /\ Offsets \subseteq Nat
    /\ None \notin Event

ASSUME BoundsAssumption == MaxClock \in Nat /\ MaxEvents \in Nat

VARIABLES
    pq,          \* the priority queue: a set of events, told apart by id
    simClock,    \* the virtual clock
    eventCount,  \* events scheduled so far; the id of the latest one
    current      \* the event the loop is handling, or None

vars == <<pq, simClock, eventCount, current>>

-----------------------------------------------------------------------------
(* --- Schedule ---------------------------------------------------------- *)
(* Schedule: one event, offset after the clock read under the same lock.   *)
Schedule(type, offset) ==
    /\ eventCount' = eventCount + 1
    /\ pq' = pq \cup {[id |-> eventCount + 1,
                       timestamp |-> simClock + offset,
                       type |-> type]}

(* Mutant: the heap property is lost, any event may come out.              *)
MutEarliest(e) == e \in pq

(* The heap orders by Timestamp alone: any of the earliest may come out.   *)
Earliest(e) == e \in pq /\ \A f \in pq : e.timestamp <= f.timestamp

(* main calls ScheduleProtocolTimers before it starts the loop.            *)
Init ==
    /\ pq = {[id |-> StartOrder[p], timestamp |-> Interval[p], type |-> p]
                : p \in Timers}
    /\ simClock = 0
    /\ eventCount = NumTimers
    /\ current = None

(* A WebSocket goroutine (StartPing, SendSIPOnWire, ...) or the handler of *)
(* the current event (TransmitFrame, scheduleSIPAck, ...) schedules a      *)
(* one-shot event.  Both go through the same mutex, so they are one action.*)
ScheduleOneShot(type, offset) ==
    /\ Schedule(type, offset)
    /\ UNCHANGED <<simClock, current>>

(* Step: pop the earliest event and move the clock straight to it.         *)
Step(e) ==
    /\ current = None
    /\ Earliest(e)
    /\ pq' = pq \ {e}
    /\ simClock' = e.timestamp
    /\ current' = e
    /\ UNCHANGED eventCount

(* Mutant: a timer whose protocol is switched off is not started again.    *)
MutHandleTimerEvent ==
    /\ current # None
    /\ current.type \in Timers
    /\ \/ Schedule(current.type, Interval[current.type])
       \/ UNCHANGED <<pq, eventCount>>
    /\ current' = None
    /\ UNCHANGED simClock

(* Mutant: the absolute due time is passed where an offset is expected.    *)
MutHandleTimerEventAbs ==
    /\ current # None
    /\ current.type \in Timers
    /\ Schedule(current.type, current.timestamp + Interval[current.type])
    /\ current' = None
    /\ UNCHANGED simClock

(* HandleTimerEvent / HandleExtendedTimer: the protocol cycle, then the    *)
(* same timer again, one interval after the clock.                         *)
HandleTimerEvent ==
    /\ current # None
    /\ current.type \in Timers
    /\ Schedule(current.type, Interval[current.type])
    /\ current' = None
    /\ UNCHANGED simClock

(* HandleSimulationEvent returns: packet and ping-timeout events.          *)
HandleSimulationEvent ==
    /\ current # None
    /\ current.type \in Dispatched
    /\ current' = None
    /\ UNCHANGED <<pq, simClock, eventCount>>

(* Mutant: an event the loop cannot dispatch is tried again and again.     *)
MutFallThrough ==
    /\ current # None
    /\ current.type \in Undispatched
    /\ UNCHANGED vars

(* The loop's switch has no case for the type: the event is only reported. *)
FallThrough ==
    /\ current # None
    /\ current.type \in Undispatched
    /\ current' = None
    /\ UNCHANGED <<pq, simClock, eventCount>>

(* The bound MaxClock is reached: nothing is left to explore.              *)
AtHorizon ==
    /\ current = None
    /\ \A e \in pq : e.timestamp > MaxClock
    /\ eventCount >= MaxEvents
    /\ UNCHANGED vars

Handle == HandleTimerEvent \/ HandleSimulationEvent \/ FallThrough
LoopNext == (\E e \in pq : e.timestamp <= MaxClock /\ Step(e)) \/ Handle
User == \E type \in OneShots, offset \in Offsets : ScheduleOneShot(type, offset)

Next ==
    \/ LoopNext
    \/ eventCount < MaxEvents /\ User
    \/ AtHorizon

(* The loop goroutine runs for ever; nothing obliges a user to do anything.*)
Spec == Init /\ [][Next]_vars
FairSpec == Spec /\ WF_vars(LoopNext)

(* The engine without the bounds: what a module that runs on it implements.*)
EngineNext == (\E e \in pq : Step(e)) \/ Handle \/ User
EngineSpec == Init /\ [][EngineNext]_vars

-----------------------------------------------------------------------------
TypeOK ==
    /\ pq \subseteq Event
    /\ simClock \in Nat
    /\ eventCount \in Nat
    /\ current \in Event \cup {None}

Pending(p) == {e \in pq : e.type = p}
Handling(p) == current # None /\ current.type = p

(* Whatever the goroutines schedule while a handler runs, no event is ever *)
(* left behind the clock: the earliest one out of Step is never in the     *)
(* past, and the event being handled carries the time the clock shows      *)
(* (Step: the event "MUST execute" at its timestamp).                      *)
NoEventInThePast ==
    /\ \A e \in pq : simClock <= e.timestamp
    /\ current # None => current.timestamp = simClock

(* Each protocol timer exists exactly once: pending in the queue, or being *)
(* handled.  A second copy would double a protocol's cycles for ever, a    *)
(* missing one would stop the protocol for good.                           *)
OneTimerPerProtocol ==
    \A p \in Timers :
        /\ Handling(p) => Pending(p) = {}
        /\ ~Handling(p) => /\ Pending(p) # {}
                           /\ \A e, f \in Pending(p) : e = f

(* A pending protocol timer is never further away than its interval: no    *)
(* burst of frames and pings can push a protocol's next cycle back.        *)
TimerWithinInterval ==
    \A p \in Timers : \A e \in Pending(p) :
        e.timestamp <= simClock + Interval[p]

(* The queue in short, checked together; each part is proved as well.      *)
QueueSound == TypeOK /\ NoEventInThePast /\ OneTimerPerProtocol /\ TimerWithinInterval

(* Simulated time never runs backwards (Step assigns simClock from the     *)
(* event, with no comparison).                                             *)
ClockMonotonic == [][simClock <= simClock']_vars

(* Every protocol timer that falls due before the horizon is handled at    *)
(* exactly its time, whatever one-shot events compete with it for the loop.*)
TimersFire ==
    \A p \in Timers, t \in 0 .. MaxClock :
        (\E e \in Pending(p) : e.timestamp = t)
            ~> (Handling(p) /\ simClock = t)
=============================================================================
