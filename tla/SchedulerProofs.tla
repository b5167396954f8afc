--------------------------- MODULE SchedulerProofs ---------------------------
(* Proofs of Scheduler's safety properties for every set of timers, every  *)
(* choice of intervals and delays, and every bound.                        *)
EXTENDS Scheduler, FiniteSetTheorems, TLAPS

(* The inductive invariant.  OneTimerPerProtocol and TimerWithinInterval   *)
(* need each other's types only; NoEventInThePast is what makes the        *)
(* interval bound survive a Step: the clock only moves forward.            *)
IInv == TypeOK /\ NoEventInThePast /\ OneTimerPerProtocol /\ TimerWithinInterval

(* What Schedule adds is an event of the type it was asked for, due no     *)
(* earlier than now and exactly offset later, and nothing else changes.    *)
LEMMA ScheduleAdds ==
    ASSUME TypeOK, NEW type \in Timers \cup OneShots, NEW offset \in Nat,
           Schedule(type, offset)
    PROVE  \E e \in Event :
             /\ e.type = type
             /\ e.timestamp = simClock + offset
             /\ pq' = pq \cup {e}
             /\ eventCount' \in Nat
  <1> DEFINE e == [id |-> eventCount + 1, timestamp |-> simClock + offset,
                   type |-> type]
  <1>1. e \in Event
    BY DEF TypeOK, Event
  <1>2. e.type = type /\ e.timestamp = simClock + offset
    OBVIOUS
  <1>3. pq' = pq \cup {e} /\ eventCount' \in Nat
    BY DEF Schedule, TypeOK
  <1> QED
    BY <1>1, <1>2, <1>3

(* Initially every timer is queued once, one interval away.                *)
LEMMA InitIInv == Init => IInv
  <1> SUFFICES ASSUME Init PROVE IInv
    OBVIOUS
  <1>1. NumTimers \in Nat
    BY FS_CardinalityType, TimersAssumption DEF NumTimers
  <1>2. \A p \in Timers : Interval[p] \in Nat /\ StartOrder[p] \in Nat
    BY <1>1, TimersAssumption
  <1>3. TypeOK
    BY <1>1, <1>2 DEF Init, TypeOK, Event
  <1>4. NoEventInThePast
    BY <1>2 DEF Init, NoEventInThePast
  <1>5. OneTimerPerProtocol
    <2> SUFFICES ASSUME NEW p \in Timers
                 PROVE  /\ ~Handling(p) /\ Pending(p) # {}
                        /\ \A e, f \in Pending(p) : e = f
      BY DEF OneTimerPerProtocol
    <2>1. ~Handling(p)
      BY DEF Init, Handling
    <2>2. Pending(p) = {[id |-> StartOrder[p], timestamp |-> Interval[p],
                         type |-> p]}
      BY DEF Init, Pending
    <2> QED
      BY <2>1, <2>2
  <1>6. TimerWithinInterval
    BY <1>2 DEF Init, TimerWithinInterval, Pending
  <1> QED
    BY <1>3, <1>4, <1>5, <1>6 DEF IInv

LEMMA NextIInv == IInv /\ [EngineNext]_vars => IInv'
  <1> SUFFICES ASSUME IInv, [EngineNext]_vars PROVE IInv'
    OBVIOUS
  <1> USE DEF IInv
  <1>n. None \notin Event /\ Timers \cap OneShots = {} /\ Offsets \subseteq Nat
    BY TypesAssumption
  <1>i. \A p \in Timers : Interval[p] \in Nat
    BY TimersAssumption
  <1>1. ASSUME NEW type \in OneShots, NEW offset \in Offsets,
               ScheduleOneShot(type, offset)
        PROVE  IInv'
    <2>1. PICK e \in Event : /\ e.type = type
                             /\ e.timestamp = simClock + offset
                             /\ pq' = pq \cup {e}
                             /\ eventCount' \in Nat
      BY <1>1, <1>n, ScheduleAdds DEF ScheduleOneShot
    <2>2. simClock' = simClock /\ current' = current
      BY <1>1 DEF ScheduleOneShot
    <2>3. TypeOK'
      BY <2>1, <2>2 DEF TypeOK
    <2>4. NoEventInThePast'
      BY <2>1, <2>2, <1>n DEF NoEventInThePast, TypeOK
    <2>5. \A p \in Timers : Pending(p)' = Pending(p) /\ Handling(p)' = Handling(p)
      BY <2>1, <2>2, <1>n DEF Pending, Handling
    <2>6. OneTimerPerProtocol' /\ TimerWithinInterval'
      BY <2>5, <2>2 DEF OneTimerPerProtocol, TimerWithinInterval
    <2> QED
      BY <2>3, <2>4, <2>6
  <1>2. ASSUME NEW e \in pq, Step(e) PROVE IInv'
    <2>1. /\ e \in Event /\ e.timestamp \in Nat /\ simClock <= e.timestamp
          /\ e # None /\ \A f \in pq : e.timestamp <= f.timestamp
      BY <1>2, <1>n DEF TypeOK, Event, Step, Earliest, NoEventInThePast
    <2>2. /\ pq' = pq \ {e} /\ simClock' = e.timestamp /\ current' = e
          /\ eventCount' = eventCount /\ current = None
      BY <1>2 DEF Step
    <2>3. TypeOK'
      BY <2>1, <2>2 DEF TypeOK
    <2>4. NoEventInThePast'
      BY <2>1, <2>2 DEF NoEventInThePast
    <2>5. OneTimerPerProtocol'
      BY <2>1, <2>2 DEF OneTimerPerProtocol, Pending, Handling
    <2>6. TimerWithinInterval'
      <3> SUFFICES ASSUME NEW p \in Timers, NEW f \in Pending(p)'
                   PROVE  f.timestamp <= simClock' + Interval[p]
        BY DEF TimerWithinInterval
      <3>1. f \in Pending(p) /\ f \in Event
        BY <2>2 DEF Pending, TypeOK
      <3>2. f.timestamp <= simClock + Interval[p] /\ f.timestamp \in Nat
        BY <3>1 DEF TimerWithinInterval, Event
      <3> QED
        BY <3>2, <2>1, <2>2, <1>i DEF TypeOK
    <2> QED
      BY <2>3, <2>4, <2>5, <2>6
  <1>3. CASE HandleTimerEvent
    <2>1. PICK q \in Timers : q = current.type /\ current # None /\ Interval[q] \in Nat
      BY <1>3, <1>i DEF HandleTimerEvent
    <2>2. PICK e \in Event : /\ e.type = q
                             /\ e.timestamp = simClock + Interval[q]
                             /\ pq' = pq \cup {e}
                             /\ eventCount' \in Nat
      BY <1>3, <2>1, ScheduleAdds DEF HandleTimerEvent
    <2>3. simClock' = simClock /\ current' = None
      BY <1>3 DEF HandleTimerEvent
    <2>4. TypeOK'
      BY <2>2, <2>3 DEF TypeOK
    <2>5. NoEventInThePast'
      BY <2>1, <2>2, <2>3 DEF NoEventInThePast, TypeOK
    <2>6. Pending(q) = {} /\ Pending(q)' = {e}
      BY <2>1, <2>2 DEF OneTimerPerProtocol, Pending, Handling
    <2>7. \A p \in Timers \ {q} : Pending(p)' = Pending(p) /\ ~Handling(p)
      BY <2>1, <2>2 DEF Pending, Handling
    <2>8. \A p \in Timers : ~Handling(p)'
      BY <2>3 DEF Handling
    <2>9. OneTimerPerProtocol'
      BY <2>6, <2>7, <2>8 DEF OneTimerPerProtocol
    <2>10. TimerWithinInterval'
      BY <2>1, <2>2, <2>3, <2>6, <2>7 DEF TimerWithinInterval, TypeOK
    <2> QED
      BY <2>4, <2>5, <2>9, <2>10
  <1>4. CASE HandleSimulationEvent \/ FallThrough
    <2>1. /\ pq' = pq /\ simClock' = simClock /\ eventCount' = eventCount
          /\ current' = None /\ current # None /\ current.type \notin Timers
      BY <1>4, <1>n DEF HandleSimulationEvent, FallThrough, OneShots
    <2>2. TypeOK' /\ NoEventInThePast'
      BY <2>1 DEF TypeOK, NoEventInThePast
    <2>3. \A p \in Timers : Pending(p)' = Pending(p) /\ ~Handling(p) /\ ~Handling(p)'
      BY <2>1 DEF Pending, Handling
    <2>4. OneTimerPerProtocol' /\ TimerWithinInterval'
      BY <2>1, <2>3 DEF OneTimerPerProtocol, TimerWithinInterval
    <2> QED
      BY <2>2, <2>4
  <1>5. CASE UNCHANGED vars
    BY <1>5 DEF vars, TypeOK, NoEventInThePast, OneTimerPerProtocol,
                TimerWithinInterval, Pending, Handling
  <1> QED
    BY <1>1, <1>2, <1>3, <1>4, <1>5 DEF EngineNext, Handle, User

(* The bounds of the model only take steps away from the engine.           *)
THEOREM BoundsOnlyRestrict == Spec => EngineSpec
  <1>1. [Next]_vars => [EngineNext]_vars
    BY DEF Next, LoopNext, EngineNext, AtHorizon
  <1> QED
    BY <1>1, PTL DEF Spec, EngineSpec

(* Without any bound, too, the queue is sound for ever.                    *)
THEOREM EngineStaysSound == EngineSpec => []QueueSound
  BY InitIInv, NextIInv, PTL DEF EngineSpec, IInv, QueueSound

THEOREM InductiveInvariant == Spec => []IInv
  BY InitIInv, NextIInv, BoundsOnlyRestrict, PTL DEF EngineSpec

(* The queue, the clock and the loop's event always have their types.      *)
THEOREM TypeCorrect == Spec => []TypeOK
  BY InductiveInvariant, PTL DEF IInv

(* Schedule and Step never leave an event behind the clock.                *)
THEOREM NeverInThePast == Spec => []NoEventInThePast
  BY InductiveInvariant, PTL DEF IInv

(* HandleTimerEvent neither loses nor doubles a protocol timer.            *)
THEOREM TimersExistOnce == Spec => []OneTimerPerProtocol
  BY InductiveInvariant, PTL DEF IInv

(* No load can push a protocol's next cycle beyond its interval.           *)
THEOREM TimersAreClose == Spec => []TimerWithinInterval
  BY InductiveInvariant, PTL DEF IInv

(* Step never moves the clock backwards, although it does not compare.     *)
THEOREM ClockNeverGoesBack == Spec => ClockMonotonic
  <1>1. IInv /\ [Next]_vars => [simClock <= simClock']_vars
    <2> SUFFICES ASSUME IInv, [Next]_vars PROVE simClock <= simClock'
      OBVIOUS
    <2>1. simClock \in Nat
      BY DEF IInv, TypeOK
    <2>2. ASSUME NEW e \in pq, Step(e) PROVE simClock <= simClock'
      BY <2>2 DEF Step, IInv, NoEventInThePast
    <2>3. CASE simClock' = simClock
      BY <2>1, <2>3
    <2> QED
      BY <2>2, <2>3 DEF Next, LoopNext, Handle, User, vars, AtHorizon,
         ScheduleOneShot, HandleTimerEvent, HandleSimulationEvent, FallThrough
  <1> QED
    BY <1>1, InductiveInvariant, PTL DEF Spec, ClockMonotonic

(* Timers and clock together, as the model checker checks them.            *)
THEOREM QueueStaysSound == Spec => []QueueSound
  BY InductiveInvariant, PTL DEF IInv, QueueSound
=============================================================================
