--------------------------- MODULE RoutingProofs ---------------------------
(***************************************************************************)
(* Routes and the packets that follow them.                                *)
(*                                                                         *)
(* ComputeSPF is right for every database: whatever LSAs are missing,      *)
(* whatever links go one way only, and in whatever order the maps are      *)
(* read, it finds the shortest paths to the routers, and no subnet.  The   *)
(* argument is Dijkstra's.  Nodes are visited in order of distance, and    *)
(* the links of a visited node are relaxed, so along any path from the     *)
(* root each node is at most one further than the one before; and each     *)
(* finite distance is the length of a path that was found.                 *)
(*                                                                         *)
(* Forward is sound for any ports, lists, routes, frames and commands: the *)
(* packets under way stay in a set that is closed under what ESP packets   *)
(* carry; those already encrypted waited or came so; and for each packet   *)
(* not under way during a change, what the stages behind it have seen to   *)
(* still holds of the configuration.  Routes to ports are those from       *)
(* before tunnels were negotiated, and a tunnel in use has one to no port, *)
(* so what is for the subnet behind it leaves only by a preferred route.   *)
(***************************************************************************)
EXTENDS OspfSpf, Forward, FiniteSetTheorems, SequenceTheorems, WellFoundedInduction, TLAPS

(***************************************************************************)
(* OspfSpf.                                                                *)
(***************************************************************************)
Known == DOMAIN lsdb

(* --- The invariant ---------------------------------------------------------- *)
SpfTypes ==
    /\ Known \subseteq Routers /\ Root \in Known
    /\ lsdb \in [Known -> Links]
    /\ distances \in [Known -> 0 .. Infinity]
    /\ visited \subseteq Known
    /\ iterations = Cardinality(visited) /\ iterations <= Cardinality(Known)
    /\ done \in BOOLEAN

(* A finite distance is the length of a path, which begins with the hop.   *)
Way(k, n) == \E p \in Paths(k, n) : n # Root => n \in DOMAIN nextHops /\ p[1] = nextHops[n]
Found == \A n \in Known : distances[n] < Infinity => Way(distances[n], n)

(* Distances grow by at most one with each node that is visited.           *)
Bounded ==
    /\ \A n \in Known : distances[n] < Infinity => distances[n] <= iterations
    /\ \A u \in visited : distances[u] < iterations

(* The visited nodes are the nearest, and their links are relaxed.         *)
Relaxed ==
    /\ distances[Root] = 0
    /\ \A u \in visited, n \in Known \ visited : distances[u] <= distances[n]
    /\ \A u \in visited : \A n \in lsdb[u] \cap Known : distances[n] <= distances[u] + 1

(* In the end all that can be reached has been visited.                    *)
Complete == done => \A n \in Known \ visited : distances[n] = Infinity

SpfInv == SpfTypes /\ Found /\ Bounded /\ Relaxed /\ Complete

-----------------------------------------------------------------------------
LEMMA Counting ==
    ASSUME SpfTypes
    PROVE  /\ IsFiniteSet(Known) /\ IsFiniteSet(visited)
           /\ Cardinality(Known) \in Nat /\ iterations \in Nat
           /\ Cardinality(Known) < Infinity /\ Infinity \in Nat
           /\ iterations = Cardinality(Known) => visited = Known
<1> USE SpfAssumption
<1>1. IsFiniteSet(Known) /\ Cardinality(Known) <= Cardinality(Routers)
  BY FS_Subset DEF SpfTypes
<1>2. IsFiniteSet(visited)
  BY <1>1, FS_Subset DEF SpfTypes
<1>3. Cardinality(Known) \in Nat /\ Cardinality(Routers) \in Nat /\ Cardinality(visited) \in Nat
  BY <1>1, <1>2, FS_CardinalityType
<1>4. Cardinality(visited) = Cardinality(Known) => visited = Known
  BY <1>1, FS_Subset DEF SpfTypes
<1> QED BY <1>1, <1>2, <1>3, <1>4 DEF SpfTypes

LEMMA LeastOf ==
    ASSUME NEW M, M \subseteq Nat, M # {}
    PROVE  \E m \in M : \A k \in M : m <= k
<1> DEFINE R == OpToRel(<, Nat)
<1>1. IsWellFoundedOn(R, Nat)
  BY NatLessThanWellFounded
<1>2. PICK m \in M : \A k \in M : <<k, m>> \notin R
  <2> HIDE DEF R
  <2> QED BY <1>1, WFMin, Zenon
<1>3. \A k \in M : ~(k < m)
  BY <1>2 DEF OpToRel
<1> QED BY <1>3

(* The routers cost one each, and a key that is missing is never improved. *)
LEMMA Improving ==
    ASSUME SpfTypes, NEW u \in Known, NEW n
    PROVE  Improves(u, n) => n \in Known /\ distances[u] + 1 < distances[n] /\ n \notin visited /\ n # u
<1> USE SpfAssumption
<1>1. distances[u] \in Nat /\ DOMAIN distances = Known
  BY DEF SpfTypes
<1>2. CASE n \in Known
  <2>1. Cost(n) = 1
    BY <1>2 DEF SpfTypes, Cost
  <2> QED BY <1>1, <1>2, <2>1 DEF Improves, Get
<1>3. CASE n \notin Known
  <2>1. Cost(n) \in {0, 1}
    BY DEF Cost
  <2> QED BY <1>1, <1>3, <2>1 DEF Improves, Get
<1> QED BY <1>2, <1>3

(* A way to u and a link of u make a way.                                  *)
LEMMA OneFurther ==
    ASSUME SpfTypes, NEW k \in Nat, NEW u \in Known, NEW n \in lsdb[u] \cap Known, NEW p \in Paths(k, u)
    PROVE  \E q \in Paths(k + 1, n) : q[1] = IF k = 0 THEN n ELSE p[1]
<1> DEFINE q == [i \in 0 .. k + 1 |-> IF i = k + 1 THEN n ELSE p[i]]
<1>1. p \in [0 .. k -> Known] /\ p[0] = Root /\ p[k] = u /\ \A i \in 1 .. k : p[i] \in lsdb[p[i - 1]]
  BY DEF Paths, Known
<1>2. q \in [0 .. k + 1 -> Known]
  BY <1>1
<1>3. q[0] = Root /\ q[k + 1] = n
  BY <1>1
<1>4. ASSUME NEW i \in 1 .. k + 1 PROVE q[i] \in lsdb[q[i - 1]]
  <2>1. CASE i = k + 1
    BY <1>1, <2>1
  <2>2. CASE i # k + 1
    BY <1>1, <2>2
  <2> QED BY <2>1, <2>2
<1>5. q[1] = IF k = 0 THEN n ELSE p[1]
  OBVIOUS
<1>6. q \in Paths(k + 1, n)
  BY <1>2, <1>3, <1>4 DEF Paths, Known
<1> QED BY <1>5, <1>6

-----------------------------------------------------------------------------
LEMMA SpfInitInv == SpfInit => SpfInv
<1> SUFFICES ASSUME SpfInit PROVE SpfInv
  OBVIOUS
<1> USE SpfAssumption
<1>1. Root \in Known /\ Known \subseteq Routers /\ lsdb \in [Known -> Links]
  BY DEF SpfInit, Known
<1>2. SpfTypes
  <2>1. Cardinality({}) = 0 /\ IsFiniteSet(Known)
    BY <1>1, FS_EmptySet, FS_Subset
  <2>2. Cardinality(Known) \in Nat
    BY <2>1, FS_CardinalityType
  <2>3. distances \in [Known -> 0 .. Infinity]
    BY DEF SpfInit, Known
  <2>4. visited = {} /\ iterations = 0 /\ done = FALSE
    BY DEF SpfInit
  <2>5. iterations = Cardinality(visited) /\ iterations <= Cardinality(Known)
    BY <2>1, <2>2, <2>4
  <2> QED BY <1>1, <2>3, <2>4, <2>5 DEF SpfTypes
<1>3. distances[Root] = 0 /\ \A n \in Known : n # Root => distances[n] = Infinity
  BY <1>1 DEF SpfInit, Known
<1>4. Paths(0, Root) # {}
  <2>1. [i \in 0 .. 0 |-> Root] \in Paths(0, Root)
    BY <1>1 DEF Paths, Known
  <2> QED BY <2>1
<1>5. Found
  BY <1>3, <1>4 DEF Found, Way
<1>6. Bounded
  BY <1>2, <1>3 DEF SpfInit, Bounded
<1>7. Relaxed /\ Complete
  BY <1>3 DEF SpfInit, Relaxed, Complete
<1> QED BY <1>2, <1>5, <1>6, <1>7 DEF SpfInv

(* What visiting u does to the distances.                                  *)
LEMMA Relaxing ==
    ASSUME SpfTypes, NEW u, Relax(u)
    PROVE  LET better == {n \in lsdb[u] \cap Known : Improves(u, n)} IN
           /\ u \in Known \ visited /\ distances[u] < Infinity
           /\ \A n \in Known \ visited : distances[u] <= distances[n]
           /\ better \subseteq Known \ (visited \cup {u})
           /\ DOMAIN distances' = Known /\ DOMAIN nextHops' = DOMAIN nextHops \cup better
           /\ \A n \in better : /\ distances'[n] = distances[u] + 1
                                /\ nextHops'[n] = NextHopVia(u, n)
                                /\ distances[u] + 1 < distances[n]
           /\ \A n \in Known \ better : distances'[n] = distances[n]
           /\ \A n \in DOMAIN nextHops \ better : nextHops'[n] = nextHops[n]
           /\ visited' = visited \cup {u} /\ iterations' = iterations + 1
           /\ lsdb' = lsdb /\ done' = done /\ ~done /\ iterations < Cardinality(Known)
<1> DEFINE better == {n \in lsdb[u] \cap Known : Improves(u, n)}
<1>0. DOMAIN distances = Known /\ \A n \in Known : distances[n] \in 0 .. Infinity
  BY DEF SpfTypes
<1>1. /\ u \in Known \ visited /\ distances[u] < Infinity
      /\ \A n \in Known \ visited : distances[u] <= distances[n]
  BY <1>0 DEF Relax, Nearest
<1>2. {n \in Get(lsdb, u, {}) : Improves(u, n)} = better
  BY <1>1, Improving DEF Get, Known
<1>3. /\ distances' = [n \in DOMAIN distances \cup better |->
                IF n \in better THEN distances[u] + Cost(n) ELSE distances[n]]
      /\ nextHops' = [n \in DOMAIN nextHops \cup better |->
                IF n \in better THEN NextHopVia(u, n) ELSE nextHops[n]]
  BY <1>2 DEF Relax
<1>4. \A n \in better : n \in Known \ (visited \cup {u}) /\ distances[u] + 1 < distances[n] /\ Cost(n) = 1
  BY <1>1, Improving, SpfAssumption DEF SpfTypes, Cost
<1>5. /\ visited' = visited \cup {u} /\ iterations' = iterations + 1
      /\ lsdb' = lsdb /\ done' = done /\ ~done /\ iterations < Cardinality(Known)
  BY DEF Relax, Known
<1> HIDE DEF better
<1>6. /\ DOMAIN distances' = Known /\ DOMAIN nextHops' = DOMAIN nextHops \cup better
      /\ \A n \in better : distances'[n] = distances[u] + 1 /\ nextHops'[n] = NextHopVia(u, n)
      /\ \A n \in Known \ better : distances'[n] = distances[n]
      /\ \A n \in DOMAIN nextHops \ better : nextHops'[n] = nextHops[n]
  BY <1>0, <1>3, <1>4
<1> QED BY <1>1, <1>4, <1>5, <1>6 DEF better

LEMMA RelaxStep ==
    ASSUME SpfInv, NEW u, Relax(u)
    PROVE  SpfInv'
<1> DEFINE better == {n \in lsdb[u] \cap Known : Improves(u, n)}
<1>1. /\ u \in Known \ visited /\ distances[u] < Infinity
      /\ \A n \in Known \ visited : distances[u] <= distances[n]
  BY Relaxing DEF SpfInv
<1>2. /\ better \subseteq Known \ (visited \cup {u})
      /\ DOMAIN distances' = Known /\ DOMAIN nextHops' = DOMAIN nextHops \cup better
      /\ \A n \in better : /\ distances'[n] = distances[u] + 1
                           /\ nextHops'[n] = NextHopVia(u, n)
                           /\ distances[u] + 1 < distances[n]
      /\ \A n \in Known \ better : distances'[n] = distances[n]
      /\ \A n \in DOMAIN nextHops \ better : nextHops'[n] = nextHops[n]
  BY Relaxing DEF SpfInv
<1>3. /\ visited' = visited \cup {u} /\ iterations' = iterations + 1
      /\ lsdb' = lsdb /\ Known' = Known /\ done' = done /\ ~done /\ iterations < Cardinality(Known)
  BY Relaxing DEF SpfInv, Known
<1>4. better = {n \in lsdb[u] \cap Known : Improves(u, n)}
  OBVIOUS
<1> HIDE DEF better
<1>5. SpfTypes
  BY DEF SpfInv
<1>6. /\ IsFiniteSet(visited) /\ Cardinality(Known) \in Nat /\ iterations \in Nat
      /\ Cardinality(Known) < Infinity /\ Infinity \in Nat
  BY <1>5, Counting
<1>7. \A n \in Known : distances[n] \in 0 .. Infinity
  BY <1>5 DEF SpfTypes
<1>8. distances[u] <= iterations
  BY <1>1 DEF SpfInv, Bounded
<1>9. \A n \in Known : distances'[n] \in 0 .. Infinity /\ distances'[n] <= distances[n]
  <2> SUFFICES ASSUME NEW n \in Known
               PROVE  distances'[n] \in 0 .. Infinity /\ distances'[n] <= distances[n]
    OBVIOUS
  <2>1. distances[n] \in 0 .. Infinity /\ distances[u] \in 0 .. Infinity
    BY <1>1, <1>7
  <2>2. CASE n \in better
    <3>1. distances'[n] = distances[u] + 1 /\ distances[u] + 1 < distances[n]
      BY <1>2, <2>2
    <3> QED BY <1>6, <2>1, <3>1
  <2>3. CASE n \notin better
    <3>1. distances'[n] = distances[n]
      BY <1>2, <2>3
    <3> QED BY <1>6, <2>1, <3>1
  <2> QED BY <2>2, <2>3
<1>10. SpfTypes'
  <2>1. Cardinality(visited') = Cardinality(visited) + 1
    BY <1>1, <1>3, <1>6, FS_AddElement
  <2>2. distances' \in [Known -> 0 .. Infinity]
    <3>1. distances' = [n \in Known |-> distances'[n]]
      <4>1. \E f : distances' = [n \in Known |-> f[n]]
        BY <1>2, <1>5, Relaxing DEF Relax, SpfTypes
      <4> QED BY <4>1
    <3> QED BY <1>9, <3>1
  <2> QED BY <1>1, <1>3, <1>5, <1>6, <2>1, <2>2 DEF SpfTypes
<1>11. Bounded'
  <2>1. \A n \in Known : distances'[n] < Infinity => distances'[n] <= iterations + 1
    BY <1>1, <1>2, <1>6, <1>7, <1>8 DEF SpfInv, Bounded
  <2>2. \A w \in visited \cup {u} : distances'[w] < iterations + 1
    BY <1>1, <1>2, <1>5, <1>6, <1>7, <1>8 DEF SpfInv, Bounded, SpfTypes
  <2> QED BY <1>3, <2>1, <2>2 DEF Bounded
<1>12. Relaxed'
  <2>0. /\ distances[Root] = 0
        /\ \A w \in visited, n \in Known \ visited : distances[w] <= distances[n]
        /\ \A w \in visited : \A n \in lsdb[w] \cap Known : distances[n] <= distances[w] + 1
        /\ Root \in Known /\ visited \subseteq Known
    BY DEF SpfInv, Relaxed, SpfTypes
  <2>1. distances'[Root] = 0
    BY <1>9, <2>0
  <2>2. \A w \in visited \cup {u} : w \in Known /\ w \notin better /\ distances'[w] = distances[w]
    BY <1>1, <1>2, <2>0
  <2>3. ASSUME NEW w \in visited \cup {u}, NEW n \in Known \ (visited \cup {u})
        PROVE  distances'[w] <= distances'[n]
    <3>1. distances[w] <= distances[u] /\ distances[w] <= distances[n]
      BY <1>1, <1>7, <2>0
    <3>2. distances'[n] = distances[n] \/ distances'[n] = distances[u] + 1
      BY <1>2
    <3>3. /\ distances[w] \in Nat /\ distances[u] \in Nat /\ distances[n] \in Nat
          /\ distances'[w] = distances[w]
      BY <1>1, <1>7, <2>2
    <3> QED BY <3>1, <3>2, <3>3
  <2>4. ASSUME NEW w \in visited \cup {u}, NEW n \in lsdb[w] \cap Known
        PROVE  distances'[n] <= distances'[w] + 1
    <3>1. /\ distances'[w] = distances[w] /\ distances[w] \in Nat /\ distances'[n] \in Nat
          /\ distances[n] \in Nat /\ distances'[n] <= distances[n]
      BY <1>7, <1>9, <2>2
    <3>2. CASE w \in visited
      BY <2>0, <3>1, <3>2
    <3>3. CASE w = u
      <4>1. CASE n \in better
        BY <1>2, <3>1, <3>3, <4>1
      <4>2. CASE n \in visited \cup {u}
        <5>1. distances[n] <= distances[u]
          BY <1>1, <2>0, <3>1, <4>2
        <5> QED BY <3>1, <3>3, <5>1
      <4>3. CASE n \notin better /\ n \notin visited \cup {u}
        <5>1. ~Improves(u, n)
          BY <1>4, <3>3, <4>3
        <5>2. Cost(n) = 1 /\ Get(distances, n, 0) = distances[n]
          BY <1>5, SpfAssumption DEF SpfTypes, Cost, Get
        <5> QED BY <3>1, <3>3, <4>3, <5>1, <5>2 DEF Improves
      <4> QED BY <4>1, <4>2, <4>3
    <3> QED BY <3>2, <3>3
  <2> QED BY <1>3, <2>1, <2>3, <2>4 DEF Relaxed
<1>13. Found'
  <2> SUFFICES ASSUME NEW n \in Known, distances'[n] < Infinity PROVE Way(distances[n], n)'
    BY <1>3 DEF Found
  <2>1. \A k, m : Paths(k, m)' = Paths(k, m)
    BY <1>3 DEF Paths
  <2>2. CASE n \in better
    <3>1. PICK p \in Paths(distances[u], u) : u # Root => u \in DOMAIN nextHops /\ p[1] = nextHops[u]
      BY <1>1 DEF SpfInv, Found, Way
    <3>2. distances[u] \in Nat /\ n \in lsdb[u] \cap Known
      BY <1>1, <1>4, <1>7, <2>2
    <3>3. PICK q \in Paths(distances[u] + 1, n) : q[1] = IF distances[u] = 0 THEN n ELSE p[1]
      BY <1>1, <1>5, <3>2, OneFurther
    <3>4. distances[u] = 0 <=> u = Root
      <4>1. distances[u] = 0 => p[0] = Root /\ p[0] = u
        BY DEF Paths
      <4>2. u = Root => distances[u] = 0
        BY DEF SpfInv, Relaxed
      <4> QED BY <4>1, <4>2
    <3>5. q[1] = NextHopVia(u, n)
      BY <3>1, <3>3, <3>4 DEF NextHopVia
    <3>6. n \in DOMAIN nextHops' /\ nextHops'[n] = q[1] /\ distances'[n] = distances[u] + 1
      BY <1>2, <2>2, <3>5
    <3> QED BY <2>1, <3>3, <3>6 DEF Way
  <2>3. CASE n \notin better
    <3>1. distances'[n] = distances[n]
      BY <1>2, <2>3
    <3>2. PICK p \in Paths(distances[n], n) : n # Root => n \in DOMAIN nextHops /\ p[1] = nextHops[n]
      BY <3>1 DEF SpfInv, Found, Way
    <3>3. n # Root => n \in DOMAIN nextHops' /\ nextHops'[n] = nextHops[n]
      BY <1>2, <2>3, <3>2
    <3> QED BY <2>1, <3>1, <3>2, <3>3 DEF Way
  <2> QED BY <2>2, <2>3
<1>14. Complete'
  BY <1>3 DEF Complete
<1> QED BY <1>10, <1>11, <1>12, <1>13, <1>14 DEF SpfInv

LEMMA FinishStep ==
    ASSUME SpfInv, Finish
    PROVE  SpfInv'
<1>1. /\ UNCHANGED <<lsdb, distances, nextHops, visited, iterations>> /\ done' = TRUE
      /\ iterations = Cardinality(Known) \/ \A u \in DOMAIN distances : ~Nearest(u)
  BY DEF Finish, Known
<1>2. SpfTypes /\ DOMAIN distances = Known
  BY DEF SpfInv, SpfTypes
<1>3. \A n \in Known \ visited : distances[n] = Infinity
  <2>1. CASE iterations = Cardinality(Known)
    BY <1>2, <2>1, Counting
  <2>2. CASE \A u \in Known : ~Nearest(u)
    <3> DEFINE M == {distances[n] : n \in {m \in Known \ visited : distances[m] < Infinity}}
    <3> SUFFICES ASSUME M # {} PROVE FALSE
      <4>1. \A n \in Known : distances[n] \in 0 .. Infinity
        BY <1>2 DEF SpfTypes
      <4> QED BY <4>1, SpfAssumption
    <3>1. M \subseteq Nat
      BY <1>2 DEF SpfTypes
    <3>2. PICK d \in M : \A k \in M : d <= k
      <4> HIDE DEF M
      <4> QED BY <3>1, LeastOf
    <3>3. PICK u \in Known \ visited : distances[u] < Infinity /\ distances[u] = d
      OBVIOUS
    <3>4. ASSUME NEW n \in Known \ visited PROVE distances[u] <= distances[n]
      <4>1. distances[n] \in 0 .. Infinity /\ distances[u] \in 0 .. Infinity
        BY <1>2 DEF SpfTypes
      <4>2. CASE distances[n] < Infinity
        BY <3>2, <3>3, <4>2
      <4>3. CASE ~(distances[n] < Infinity)
        BY <3>3, <4>1, <4>3, SpfAssumption
      <4> QED BY <4>2, <4>3
    <3> QED BY <1>2, <2>2, <3>3, <3>4 DEF Nearest
  <2> QED BY <1>1, <1>2, <2>1, <2>2
<1> QED BY <1>1, <1>3 DEF SpfInv, SpfTypes, Found, Way, Paths, Bounded, Relaxed, Complete, Known

LEMMA SpfInvHolds == SpfSpec => []SpfInv
<1>1. ASSUME SpfInv, [SpfNext]_spfVars PROVE SpfInv'
  <2>1. CASE UNCHANGED spfVars
    BY <1>1, <2>1 DEF spfVars, SpfInv, SpfTypes, Found, Way, Paths, Bounded, Relaxed, Complete, Known
  <2> QED BY <1>1, <2>1, RelaxStep, FinishStep DEF SpfNext, Finished
<1> QED BY <1>1, SpfInitInv, PTL DEF SpfSpec

(* --- The theorems ----------------------------------------------------------- *)
(* Whoever a path leads to is in the result, no further than the path is   *)
(* long: else look at the first node of the path of which that is false.   *)
LEMMA NoShorterWay ==
    ASSUME SpfInv, done, NEW n, NEW k \in Nat, NEW p \in Paths(k, n)
    PROVE  n \in Known /\ distances[n] < Infinity /\ distances[n] <= k
<1>0. SpfTypes /\ Relaxed /\ Bounded /\ \A m \in Known \ visited : distances[m] = Infinity
  BY DEF SpfInv, Complete
<1>1. p \in [0 .. k -> Known] /\ p[0] = Root /\ p[k] = n /\ \A i \in 1 .. k : p[i] \in lsdb[p[i - 1]]
  BY DEF Paths, Known
<1>2. /\ iterations \in Nat /\ iterations < Infinity /\ Infinity \in Nat
      /\ \A m \in Known : distances[m] \in Nat
  BY <1>0, Counting DEF SpfTypes
<1> DEFINE Reached(i) == p[i] \in visited /\ distances[p[i]] <= i
           M == {i \in 0 .. k : ~Reached(i)}
<1>3. Reached(0)
  <2>1. distances[Root] = 0 /\ Root \in Known
    BY <1>0 DEF Relaxed, SpfTypes
  <2>2. 0 # Infinity
    BY <1>2
  <2> QED BY <1>0, <1>1, <2>1, <2>2
<1>4. M = {}
  <2> SUFFICES ASSUME M # {} PROVE FALSE
    OBVIOUS
  <2>1. M \subseteq Nat
    OBVIOUS
  <2>2. PICK i \in M : \A j \in M : i <= j
    <3> HIDE DEF M
    <3> QED BY <2>1, LeastOf
  <2>3. i \in 1 .. k /\ i - 1 \in 0 .. k /\ i - 1 \notin M
    BY <1>3, <2>2
  <2>4. p[i - 1] \in visited /\ distances[p[i - 1]] <= i - 1
    BY <2>3
  <2>5. p[i] \in lsdb[p[i - 1]] \cap Known /\ p[i - 1] \in Known
    BY <1>1, <2>3
  <2>6. /\ distances[p[i]] <= distances[p[i - 1]] + 1
        /\ distances[p[i - 1]] < iterations
    BY <1>0, <2>4, <2>5 DEF Relaxed, Bounded
  <2>7. distances[p[i]] <= i /\ distances[p[i]] < Infinity
    BY <1>2, <2>3, <2>4, <2>5, <2>6
  <2>8. p[i] \in visited
    BY <1>0, <1>2, <2>5, <2>7
  <2> QED BY <2>2, <2>7, <2>8
<1>5. Reached(k)
  BY <1>4
<1> QED BY <1>0, <1>1, <1>2, <1>5 DEF Bounded, SpfTypes

(* For every database and every order of the maps, the result has exactly  *)
(* the routers there are paths to, at the length of the shortest, with a   *)
(* next hop on a shortest path.                                            *)
THEOREM SPFIsCorrect == SpfSpec => []SPFCorrect
<1>1. ASSUME SpfInv PROVE SPFCorrect
  <2>0. SpfTypes /\ DOMAIN distances = Known
    BY <1>1 DEF SpfInv, SpfTypes
  <2>1. SpfTypeOK
    BY <2>0 DEF SpfTypes, SpfTypeOK, Known
  <2>2. ASSUME NEW n \in Results
        PROVE  \E p \in Paths(distances[n], n) : p[1] = nextHops[n]
    BY <1>1, <2>0 DEF Results, SpfInv, Found, Way
  <2>3. ShortestPaths
    <3> SUFFICES ASSUME done, NEW n \in Routers \ {Root}
                 PROVE  /\ n \in Results => Paths(distances[n], n) # {}
                        /\ \A k \in 0 .. Cardinality(DOMAIN lsdb) - 1 :
                             Paths(k, n) # {} => n \in Results /\ distances[n] <= k
      BY DEF ShortestPaths
    <3>1. n \in Results => Paths(distances[n], n) # {}
      BY <2>2
    <3>2. ASSUME NEW k \in Nat, Paths(k, n) # {} PROVE n \in Results /\ distances[n] <= k
      BY <1>1, <2>0, <3>2, NoShorterWay DEF Results
    <3> QED BY <2>0, <3>1, <3>2, Counting DEF Known
  <2>4. NextHopOnShortestPath
    BY <2>2 DEF NextHopOnShortestPath
  <2> QED BY <2>1, <2>3, <2>4 DEF SPFCorrect
<1> QED BY <1>1, SpfInvHolds, PTL

(* No subnet is ever reached, however the database looks.                  *)
THEOREM NeverASubnet == SpfSpec => []NoSubnetReached
<1>1. ASSUME SpfInv PROVE NoSubnetReached
  BY <1>1, SpfAssumption DEF SpfInv, SpfTypes, Results, NoSubnetReached
<1> QED BY <1>1, SpfInvHolds, PTL

(***************************************************************************)
(* Forward.                                                                *)
(***************************************************************************)
(* --- Types ------------------------------------------------------------------ *)
Exits == Ports \cup {NoPort}
Route0 == [net : SUBSET Addrs, dist : Nat, hop : Addrs \cup {None}, port : Exits, proto : Protocols]
Policy == [up : BOOLEAN, in : ACLs \cup {None}, out : ACLs \cup {None}, outside : BOOLEAN]
OutsideIPs == {IfAddr[p] : p \in Uplinks}

ConfOK ==
    /\ IfacePolicies \in [Ports -> Policy]
    /\ \A p \in Ports : IfacePolicies[p].outside => p \in Uplinks
    /\ static \in Seq(Statics) /\ Overload \in BOOLEAN
    /\ CryptoMap \in Seq(Entries) /\ IfaceCryptoMap \subseteq Uplinks
    /\ DOMAIN IKEPeers \subseteq Addrs /\ \A a \in DOMAIN IKEPeers : IKEPeers[a] \subseteq Addrs
    /\ installing \subseteq DOMAIN IKEPeers
    /\ RoutingTable \in Seq(Route0)
    /\ setup \in 0 .. MaxSetup /\ edits \in 0 .. MaxEdits

TablesOK ==
    /\ DOMAIN PAT \subseteq Addrs /\ \A a \in DOMAIN PAT : PAT[a] \in OutsideIPs
    /\ ArpCache \subseteq Neighbours /\ asked \subseteq Addrs
    /\ traffic \in Traffic /\ toPing \subseteq Addrs

(* A set of packets, closed under what ESP packets carry.                  *)
IsPacket(k) ==
    /\ k.src \in Addrs /\ k.dst \in Addrs
    /\ k = [Packet(k.id, k.src, k.dst, k.kind, k.ttl) EXCEPT !.inner = k.inner]
Closed(Q) ==
    \A k \in Q : /\ IsPacket(k)
                 /\ k.kind = "esp" => \E r \in Q : k.inner = <<r>> /\ r.id = k.id

(* What a thread is at.                                                    *)
Incoming(Q) == [at : {"rx", "in"}, pkt : Q, port : Ports]
Outgoing(Q) == [at : {"nat", "out", "crypto", "arp"}, pkt : Q, out : Exits, hop : Addrs]
Works(Q) == {Idle} \cup Incoming(Q) \cup [at : {"route"}, pkt : Q] \cup Outgoing(Q)

PacketsOK(Q) ==
    /\ Closed(Q)
    /\ work \in [Threads -> Works(Q)]
    /\ \A f \in rx : f.port \in Ports /\ f.pkt \in Q
    /\ backlog \in Seq(Q)
    /\ PacketQueue \in [Addrs -> Seq(Q)]
    /\ \A f \in sent : f.pkt \in Q

FInv == ConfOK /\ TablesOK /\ \E Q : PacketsOK(Q)

LEMMA LargerSeq ==
    ASSUME NEW Q, NEW R, Q \subseteq R
    PROVE  Seq(Q) \subseteq Seq(R)
  OBVIOUS

LEMMA AssumptionParts ==
    /\ IfAddr \in [Ports -> Addrs] /\ Uplinks \subseteq Ports
    /\ Filters \subseteq Ports \X {"in", "out"}
    /\ Neighbours \subseteq Addrs
    /\ \A s \in Traffic : s.pings \subseteq Addrs /\ \A f \in s.frames : f.port \in Ports /\ f.pkt \in Arriving
    /\ Closed(Arriving)
    /\ Routes0 \in Seq(Route0)
    /\ \A e \in Entries : e.acl \in ACLs \cup {None} /\ e.peer \in Addrs /\ e.remote \subseteq Addrs
    /\ \A p \in Uplinks : IfAddr[p] \notin Inside
    /\ Statics \subseteq Addrs \X Addrs
    /\ MaxSetup \in Nat /\ MaxEdits \in Nat
    /\ None \notin ACLs /\ None \notin Addrs
    /\ NoPort \notin Ports
<1>1. Routes0 \in Seq(Route0)
  <2>1. Routes0 \in Seq([net : Nets, dist : Nat, hop : Addrs \cup {None}, port : Ports, proto : Protocols])
        /\ Nets \subseteq SUBSET Addrs
    BY ForwardAssumption DEF ForwardAssumption
  <2>2. [net : Nets, dist : Nat, hop : Addrs \cup {None}, port : Ports, proto : Protocols] \subseteq Route0
    BY <2>1 DEF Route0, Exits
  <2> QED
    BY <2>1, <2>2, LargerSeq, Zenon
<1>2. Closed(Arriving)
  BY ForwardAssumption DEF Closed, IsPacket
<1>3. \A e \in Entries : e.acl \in ACLs \cup {None} /\ e.peer \in Addrs /\ e.remote \subseteq Addrs
  BY ForwardAssumption DEF ForwardAssumption
<1> QED
  BY <1>1, <1>2, <1>3, ForwardAssumption

(* --- Packets and the sets they are in ---------------------------------------- *)
LEMMA AddPacket ==
    ASSUME NEW Q, Closed(Q), NEW k, IsPacket(k),
           k.kind = "esp" => \E r \in Q : k.inner = <<r>> /\ r.id = k.id
    PROVE  Closed(Q \cup {k})
  BY DEF Closed

LEMMA MakePacket ==
    ASSUME NEW id, NEW src \in Addrs, NEW dst \in Addrs, NEW kind, NEW ttl
    PROVE  IsPacket(Packet(id, src, dst, kind, ttl)) /\ Packet(id, src, dst, kind, ttl).kind = kind
  BY DEF IsPacket, Packet

(* Translation and the TTL change addresses only.                          *)
LEMMA Readdress ==
    ASSUME NEW Q, Closed(Q), NEW k \in Q, NEW a \in Addrs, NEW n
    PROVE  /\ Closed(Q \cup {[k EXCEPT !.src = a]}) /\ [k EXCEPT !.src = a].id = k.id
           /\ Closed(Q \cup {[k EXCEPT !.dst = a]}) /\ [k EXCEPT !.dst = a].id = k.id
           /\ Closed(Q \cup {[k EXCEPT !.ttl = n]}) /\ [k EXCEPT !.ttl = n].id = k.id
<1>1. IsPacket(k) /\ (k.kind = "esp" => \E r \in Q : k.inner = <<r>> /\ r.id = k.id)
  BY DEF Closed
<1>k. k = [id |-> k.id, src |-> k.src, dst |-> k.dst, kind |-> k.kind, ttl |-> k.ttl, inner |-> k.inner]
      /\ k.src \in Addrs /\ k.dst \in Addrs
  BY <1>1 DEF IsPacket, Packet
<1>2. ASSUME NEW x \in {[k EXCEPT !.src = a], [k EXCEPT !.dst = a], [k EXCEPT !.ttl = n]}
      PROVE  IsPacket(x) /\ x.kind = k.kind /\ x.inner = k.inner /\ x.id = k.id
  <2>1. \E s \in Addrs, d \in Addrs : \E l :
           x = [id |-> k.id, src |-> s, dst |-> d, kind |-> k.kind, ttl |-> l, inner |-> k.inner]
    BY <1>k
  <2> QED
    BY <2>1 DEF IsPacket, Packet
<1> QED
  BY <1>1, <1>2, AddPacket

(* What x is that carries packet k of Q out by port p.                     *)
Wraps(Q, k, p, x) ==
    /\ Closed(Q \cup {x})
    /\ x.id = k.id /\ x.kind = "esp" /\ x.inner = <<k>> /\ x.src = IfAddr[p]

LEMMA Wrap ==
    ASSUME NEW Q, Closed(Q), NEW k \in Q, NEW peer \in Addrs, NEW p \in Ports
    PROVE  Wraps(Q, k, p, EncapsulateESP(k, peer, p))
<1>0. PICK x : x = EncapsulateESP(k, peer, p)
  OBVIOUS
<1>1. k = [id |-> k.id, src |-> k.src, dst |-> k.dst, kind |-> k.kind, ttl |-> k.ttl, inner |-> k.inner]
  BY DEF Closed, IsPacket, Packet
<1>2. IfAddr[p] \in Addrs
  BY AssumptionParts
<1>w. x = [k EXCEPT !.src = IfAddr[p], !.dst = peer, !.kind = "esp", !.ttl = 64, !.inner = <<k>>]
  BY <1>0 DEF EncapsulateESP
<1>v. PICK i, s, d, c, l, n :
          k = [id |-> i, src |-> s, dst |-> d, kind |-> c, ttl |-> l, inner |-> n]
  BY <1>1
<1>x. x = [id |-> i, src |-> IfAddr[p], dst |-> peer, kind |-> "esp", ttl |-> 64, inner |-> <<k>>]
  BY <1>v, <1>w
<1>i. k.id = i
  BY <1>v
<1>3. IsPacket(x) /\ x.id = k.id /\ x.kind = "esp" /\ x.inner = <<k>> /\ x.src = IfAddr[p]
  BY <1>x, <1>i, <1>2 DEF IsPacket, Packet
<1>4. Closed(Q \cup {x})
  BY <1>3, AddPacket
<1> QED
  BY <1>0, <1>3, <1>4 DEF Wraps

LEMMA Larger ==
    ASSUME NEW Q, NEW R, Q \subseteq R
    PROVE  /\ Works(Q) \subseteq Works(R) /\ Seq(Q) \subseteq Seq(R)
           /\ [Threads -> Works(Q)] \subseteq [Threads -> Works(R)]
           /\ [Addrs -> Seq(Q)] \subseteq [Addrs -> Seq(R)]
<1>1. Works(Q) \subseteq Works(R)
  BY DEF Works, Incoming, Outgoing
<1>2. Seq(Q) \subseteq Seq(R)
  BY LargerSeq
<1> QED
  BY <1>1, <1>2

LEMMA WorkAt ==
    ASSUME NEW Q, PacketsOK(Q), NEW t \in Threads
    PROVE  /\ At(t, "rx") \/ At(t, "in") => work[t] \in Incoming(Q)
           /\ At(t, "route") => work[t].pkt \in Q
           /\ At(t, "nat") \/ At(t, "out") \/ At(t, "crypto") \/ At(t, "arp") => work[t] \in Outgoing(Q)
           /\ work[t] \in Works(Q)
  BY DEF PacketsOK, Works, Incoming, Outgoing, At, Idle

(* A thread goes on with a packet that may be new.                         *)
LEMMA GoesOn ==
    ASSUME NEW Q, PacketsOK(Q), NEW k, Closed(Q \cup {k}),
           NEW t \in Threads, NEW w \in Works(Q \cup {k}), GoOn(t, w)
    PROVE  Closed(Q \cup {k}) /\ work' \in [Threads -> Works(Q \cup {k})]
<1>1. work \in [Threads -> Works(Q \cup {k})]
  BY Larger DEF PacketsOK
<1> QED
  BY <1>1 DEF GoOn

LEMMA Passes ==
    ASSUME NEW Q, PacketsOK(Q), NEW k, Closed(Q \cup {k}),
           work' \in [Threads -> Works(Q \cup {k})],
           UNCHANGED <<rx, backlog, PacketQueue, sent>>
    PROVE  PacketsOK(Q \cup {k})'
  BY Larger DEF PacketsOK

LEMMA MovesNew ==
    ASSUME NEW Q, PacketsOK(Q), NEW k, Closed(Q \cup {k}),
           NEW t \in Threads, NEW w \in Works(Q \cup {k}), GoOn(t, w),
           UNCHANGED <<rx, backlog, PacketQueue, sent>>
    PROVE  \E R : PacketsOK(R)'
<1>1. PacketsOK(Q \cup {k})'
  BY GoesOn, Passes
<1> QED
  BY <1>1

LEMMA Moves ==
    ASSUME NEW Q, PacketsOK(Q), NEW t \in Threads, NEW w \in Works(Q), GoOn(t, w),
           UNCHANGED <<rx, backlog, PacketQueue, sent>>
    PROVE  \E R : PacketsOK(R)'
<1>1. work' \in [Threads -> Works(Q)]
  BY DEF GoOn, PacketsOK
<1>2. PacketsOK(Q)'
  BY <1>1 DEF PacketsOK
<1> QED
  BY <1>2

LEMMA ConfStays == ConfOK /\ Stay => ConfOK'
  BY DEF ConfOK, Stay, conf

LEMMA TablesStay == TablesOK /\ NoOutput /\ Stay /\ UNCHANGED <<PAT, toPing>> => TablesOK'
  BY DEF TablesOK, NoOutput, Stay

(* --- Translation and routes --------------------------------------------------- *)
LEMMA StaticAddrs ==
    ASSUME ConfOK, NEW from \in {1, 2}, NEW a, StaticHits(from, a) # {}
    PROVE  FirstStatic(from, a)[1] \in Addrs /\ FirstStatic(from, a)[2] \in Addrs
<1> DEFINE hits == StaticHits(from, a)
           First(i) == i \in hits /\ \A j \in hits : i <= j
<1>1. static \in Seq(Addrs \X Addrs)
  BY AssumptionParts, LargerSeq DEF ConfOK
<1>2. hits \subseteq 1 .. Len(static) /\ hits # {}
  BY DEF StaticHits
<1>3. \E i \in hits : First(i)
  <2>1. hits \in SUBSET Nat /\ hits # {}
    BY <1>2
  <2> HIDE DEF hits
  <2> QED
    BY <2>1, LeastOf
<1>4. First(CHOOSE i \in hits : \A j \in hits : i <= j)
  BY <1>3
<1> QED
  BY <1>1, <1>2, <1>4 DEF FirstStatic

LEMMA InboundOK ==
    ASSUME ConfOK, TablesOK, NEW Q, Closed(Q), NEW p \in Ports, NEW x \in Q,
           NEW k \in TranslateInbound(p, x)
    PROVE  Closed(Q \cup {k}) /\ k.id = x.id /\ k.kind = x.kind /\ k.inner = x.inner
<1>1. Q \cup {x} = Q
  OBVIOUS
<1>2. ASSUME NEW a \in Addrs, k = [x EXCEPT !.dst = a]
      PROVE  Closed(Q \cup {k}) /\ k.id = x.id /\ k.kind = x.kind /\ k.inner = x.inner
  <2>1. x = [id |-> x.id, src |-> x.src, dst |-> x.dst, kind |-> x.kind, ttl |-> x.ttl, inner |-> x.inner]
    BY DEF Closed, IsPacket, Packet
  <2>2. k.kind = x.kind /\ k.inner = x.inner
    BY <1>2, <2>1
  <2> QED
    BY <1>2, <2>2, Readdress
<1>3. k = x \/ \E a \in Addrs : k = [x EXCEPT !.dst = a]
  <2>1. StaticHits(2, x.dst) # {} => FirstStatic(2, x.dst)[1] \in Addrs
    BY StaticAddrs
  <2> QED
    BY <2>1 DEF TranslateInbound, PATHits, TablesOK
<1> QED
  BY <1>1, <1>2, <1>3

LEMMA OutsidePort ==
    ASSUME ConfOK, NEW p, NATOutside(p)
    PROVE  p \in Uplinks /\ p \in Ports /\ PickOutsideIP \subseteq OutsideIPs /\ OutsideIPs \subseteq Addrs
  BY AssumptionParts DEF ConfOK, NATOutside, PickOutsideIP, OutsideIPs

(* What of a packet an inbound translation leaves alone.                    *)
LEMMA InboundKeeps ==
    ASSUME ConfOK, TablesOK, NEW Q, Closed(Q), NEW p \in Ports, NEW x \in Q,
           NEW k \in TranslateInbound(p, x)
    PROVE  k.id = x.id /\ k.kind = x.kind
BY InboundOK, Zenon

(* What is translated has an address that is not private.                  *)
LEMMA OutboundOK ==
    ASSUME ConfOK, TablesOK, NEW Q, Closed(Q), NEW p, NEW x \in Q, NEW r \in TranslateOutbound(p, x)
    PROVE  /\ Closed(Q \cup {r[1]}) /\ r[1].id = x.id /\ r[1].kind = x.kind /\ r[1].inner = x.inner /\ r[1].dst = x.dst
           /\ DOMAIN r[2] \subseteq Addrs /\ \A a \in DOMAIN r[2] : r[2][a] \in OutsideIPs
           /\ NATOutside(p) /\ Overload /\ static = <<>> => r[1].src \in OutsideIPs
<1>1. x = [id |-> x.id, src |-> x.src, dst |-> x.dst, kind |-> x.kind, ttl |-> x.ttl, inner |-> x.inner]
      /\ x.src \in Addrs
  BY DEF Closed, IsPacket, Packet
<1>2. ASSUME NEW a \in Addrs
      PROVE  LET k == [x EXCEPT !.src = a]
             IN  /\ Closed(Q \cup {k}) /\ k.id = x.id /\ k.kind = x.kind /\ k.inner = x.inner
                 /\ k.dst = x.dst /\ k.src = a
  BY <1>1, Readdress
<1>3. CASE r = <<x, PAT>> /\ ~(NATOutside(p) /\ Overload /\ static = <<>>)
  <2>1. Q \cup {x} = Q
    OBVIOUS
  <2> QED
    BY <1>3, <2>1 DEF TablesOK
<1>4. ASSUME NEW a \in Addrs, r = <<[x EXCEPT !.src = a], PAT>>, a \in OutsideIPs \/ static # <<>>
      PROVE  /\ Closed(Q \cup {r[1]}) /\ r[1].id = x.id /\ r[1].kind = x.kind /\ r[1].inner = x.inner /\ r[1].dst = x.dst
             /\ DOMAIN r[2] \subseteq Addrs /\ \A b \in DOMAIN r[2] : r[2][b] \in OutsideIPs
             /\ NATOutside(p) /\ Overload /\ static = <<>> => r[1].src \in OutsideIPs
  BY <1>4, <1>2 DEF TablesOK
<1>5. ASSUME NEW g \in OutsideIPs, g \in Addrs,
             r = <<[x EXCEPT !.src = g], [a \in DOMAIN PAT \cup {x.src} |-> IF a = x.src THEN g ELSE PAT[a]]>>
      PROVE  /\ Closed(Q \cup {r[1]}) /\ r[1].id = x.id /\ r[1].kind = x.kind /\ r[1].inner = x.inner /\ r[1].dst = x.dst
             /\ DOMAIN r[2] \subseteq Addrs /\ \A b \in DOMAIN r[2] : r[2][b] \in OutsideIPs
             /\ NATOutside(p) /\ Overload /\ static = <<>> => r[1].src \in OutsideIPs
  BY <1>5, <1>1, <1>2 DEF TablesOK
<1>6. CASE ~NATOutside(p)
  BY <1>6, <1>3 DEF TranslateOutbound
<1>7. CASE NATOutside(p) /\ StaticHits(1, x.src) # {}
  <2>1. static # <<>>
    BY <1>7 DEF StaticHits
  <2>2. FirstStatic(1, x.src)[2] \in Addrs
    BY <1>7, StaticAddrs
  <2>3. r = <<[x EXCEPT !.src = FirstStatic(1, x.src)[2]], PAT>>
    BY <1>7 DEF TranslateOutbound
  <2> QED
    BY <2>1, <2>2, <2>3, <1>4
<1>8. CASE NATOutside(p) /\ StaticHits(1, x.src) = {} /\ ~Overload
  BY <1>8, <1>3 DEF TranslateOutbound
<1>9. CASE NATOutside(p) /\ StaticHits(1, x.src) = {} /\ Overload /\ x.src \in DOMAIN PAT
  <2>1. PAT[x.src] \in OutsideIPs /\ PAT[x.src] \in Addrs
    BY <1>9, OutsidePort DEF TablesOK
  <2>2. r = <<[x EXCEPT !.src = PAT[x.src]], PAT>>
    BY <1>9 DEF TranslateOutbound
  <2> QED
    BY <2>1, <2>2, <1>4
<1>10. CASE NATOutside(p) /\ StaticHits(1, x.src) = {} /\ Overload /\ x.src \notin DOMAIN PAT
  <2>1. PICK g \in PickOutsideIP :
            r = <<[x EXCEPT !.src = g], [a \in DOMAIN PAT \cup {x.src} |-> IF a = x.src THEN g ELSE PAT[a]]>>
    BY <1>10 DEF TranslateOutbound
  <2>2. g \in OutsideIPs /\ g \in Addrs
    BY <1>10, OutsidePort
  <2> QED
    BY <2>1, <2>2, <1>5
<1> QED
  BY <1>6, <1>7, <1>8, <1>9, <1>10

LEMMA RouteOK ==
    ASSUME ConfOK, NEW a \in Addrs, NEW r \in MatchRoute(a)
    PROVE  r.port \in Exits /\ (IF r.hop = None THEN a ELSE r.hop) \in Addrs
<1>1. r \in Route0
  BY DEF MatchRoute, ConfOK
<1> QED
  BY <1>1 DEF Route0

LEMMA TunnelOK ==
    ASSUME ConfOK, NEW p, NEW k, NEW peer \in MatchCryptoTunnel(p, k)
    PROVE  peer \in Addrs /\ p \in Uplinks /\ p \in Ports
  BY AssumptionParts DEF MatchCryptoTunnel, ConfOK

(* --- The steps of packets keep the types --------------------------------------- *)
LEMMA DeliverTypes ==
    ASSUME FInv, DeliverToRouter
    PROVE  FInv'
<1>1. PICK Q : PacketsOK(Q)
  BY DEF FInv
<1>2. PICK f \in rx :
        /\ rx' = rx \ {f}
        /\ GoOn(Loop, IF IsInterfaceUp(f.port) THEN [at |-> "rx", pkt |-> f.pkt, port |-> f.port] ELSE Idle)
  BY DEF DeliverToRouter
<1>3. f.pkt \in Q /\ f.port \in Ports
  BY <1>1 DEF PacketsOK
<1>4. [at |-> "rx", pkt |-> f.pkt, port |-> f.port] \in Works(Q) /\ Idle \in Works(Q)
  BY <1>3 DEF Works, Incoming
<1>5. work' \in [Threads -> Works(Q)]
  BY <1>1, <1>2, <1>4 DEF GoOn, PacketsOK
<1>6. PacketsOK(Q)'
  BY <1>1, <1>2, <1>5 DEF PacketsOK, DeliverToRouter, NoOutput
<1> QED
  BY <1>6, ConfStays, TablesStay DEF FInv, DeliverToRouter

LEMMA NatInTypes ==
    ASSUME FInv, NatIn
    PROVE  FInv'
<1>1. PICK Q : PacketsOK(Q)
  BY DEF FInv
<1> DEFINE w == work[Loop]
<1>2. PICK k \in TranslateInbound(w.port, w.pkt) : GoOn(Loop, [w EXCEPT !.at = "in", !.pkt = k])
  BY DEF NatIn
<1>3. Loop \in Threads
  BY DEF Threads
<1>4. w \in Incoming(Q)
  BY <1>1, <1>3, WorkAt DEF NatIn
<1>5. w.port \in Ports /\ w.pkt \in Q /\ Closed(Q)
  BY <1>1, <1>4 DEF Incoming, PacketsOK
<1>6. Closed(Q \cup {k})
  BY <1>2, <1>5, InboundOK DEF FInv
<1>7. [w EXCEPT !.at = "in", !.pkt = k] \in Works(Q \cup {k})
  BY <1>4 DEF Works, Incoming
<1>8. PacketsOK(Q \cup {k})'
  BY <1>1, <1>2, <1>3, <1>6, <1>7, GoesOn, Passes DEF NatIn, NoOutput
<1> QED
  BY <1>8, ConfStays, TablesStay DEF FInv, NatIn

LEMMA HandleTypes ==
    ASSUME FInv, HandleRouterIP
    PROVE  FInv'
<1>1. PICK Q : PacketsOK(Q)
  BY DEF FInv
<1>2. Loop \in Threads
  BY DEF Threads
<1>3. PICK k : k = work[Loop].pkt
  OBVIOUS
<1>4. k \in Q /\ Closed(Q) /\ k.src \in Addrs /\ k.dst \in Addrs
  BY <1>1, <1>2, <1>3, WorkAt DEF HandleRouterIP, Incoming, PacketsOK, Closed, IsPacket
<1>5. UNCHANGED <<rx, backlog, PacketQueue, sent>>
  BY DEF HandleRouterIP, NoOutput
<1>6. ASSUME NEW x, Closed(Q \cup {x}), ToRoute(Loop, x)
      PROVE  \E R : PacketsOK(R)'
  <2>1. [at |-> "route", pkt |-> x] \in Works(Q \cup {x})
    BY DEF Works
  <2> QED
    BY <1>1, <1>2, <1>5, <1>6, <2>1, MovesNew DEF ToRoute
<1>7. ASSUME Done(Loop)
      PROVE  \E R : PacketsOK(R)'
  <2>1. Idle \in Works(Q)
    BY DEF Works
  <2> QED
    BY <1>1, <1>2, <1>5, <1>7, <2>1, Moves DEF Done
<1>8. ASSUME NEW inner \in DecapsulateESP(k), k.kind = "esp"
      PROVE  Closed(Q \cup {inner})
  <2>1. inner \in Q
    BY <1>4, <1>8 DEF DecapsulateESP, Closed
  <2>2. Q \cup {inner} = Q
    BY <2>1
  <2> QED
    BY <1>4, <2>2
<1>9. Closed(Q \cup {Packet(k.id, k.dst, k.src, "reply", 64)})
  BY <1>4, MakePacket, AddPacket
<1>10. Closed(Q \cup {[k EXCEPT !.ttl = @ - 1]})
  BY <1>4, Readdress
<1>11. \/ Done(Loop)
       \/ k.kind = "esp" /\ \E inner \in DecapsulateESP(k) : ToRoute(Loop, inner)
       \/ ToRoute(Loop, Packet(k.id, k.dst, k.src, "reply", 64))
       \/ ToRoute(Loop, [k EXCEPT !.ttl = @ - 1])
  BY <1>3, Zenon DEF HandleRouterIP
<1>12. \E R : PacketsOK(R)'
  <2>1. CASE Done(Loop)
    BY <2>1, <1>7
  <2>2. CASE k.kind = "esp" /\ \E inner \in DecapsulateESP(k) : ToRoute(Loop, inner)
    BY <2>2, <1>6, <1>8
  <2>3. CASE ToRoute(Loop, Packet(k.id, k.dst, k.src, "reply", 64))
    BY <2>3, <1>6, <1>9
  <2>4. CASE ToRoute(Loop, [k EXCEPT !.ttl = @ - 1])
    BY <2>4, <1>6, <1>10
  <2> QED
    BY <1>11, <2>1, <2>2, <2>3, <2>4
<1> QED
  BY <1>12, ConfStays, TablesStay DEF FInv, HandleRouterIP

LEMMA RouteTypes ==
    ASSUME FInv, NEW t \in Threads, Route(t)
    PROVE  FInv'
<1>1. PICK Q : PacketsOK(Q)
  BY DEF FInv
<1>2. PICK k : k = work[t].pkt
  OBVIOUS
<1>3. k \in Q /\ k.dst \in Addrs
  BY <1>1, <1>2, WorkAt DEF Route, PacketsOK, Closed, IsPacket
<1>4. ASSUME NEW w \in Works(Q), GoOn(t, w)
      PROVE  \E R : PacketsOK(R)'
  BY <1>1, <1>4, Moves DEF Route, NoOutput
<1>5. ASSUME NEW r \in MatchRoute(k.dst)
      PROVE  [at |-> "nat", pkt |-> k, out |-> r.port, hop |-> IF r.hop = None THEN k.dst ELSE r.hop] \in Works(Q)
  <2>1. r.port \in Exits /\ (IF r.hop = None THEN k.dst ELSE r.hop) \in Addrs
    BY <1>3, RouteOK DEF FInv
  <2> QED
    BY <1>3, <2>1 DEF Works, Outgoing
<1>6. Idle \in Works(Q)
  BY DEF Works
<1>7. \/ GoOn(t, Idle)
      \/ \E r \in MatchRoute(k.dst) :
            GoOn(t, [at |-> "nat", pkt |-> k, out |-> r.port, hop |-> IF r.hop = None THEN k.dst ELSE r.hop])
  BY <1>2 DEF Route, Done
<1>8. \E R : PacketsOK(R)'
  BY <1>4, <1>5, <1>6, <1>7
<1> QED
  BY <1>8, ConfStays, TablesStay DEF FInv, Route

LEMMA NatOutTypes ==
    ASSUME FInv, NEW t \in Threads, NatOut(t)
    PROVE  FInv'
<1>1. PICK Q : PacketsOK(Q)
  BY DEF FInv
<1>w. PICK w : w = work[t]
  OBVIOUS
<1>2. PICK r \in TranslateOutbound(w.out, w.pkt) : GoOn(t, [w EXCEPT !.at = "out", !.pkt = r[1]]) /\ PAT' = r[2]
  BY <1>w DEF NatOut
<1>3. w \in Outgoing(Q) /\ Closed(Q)
  BY <1>1, <1>w, WorkAt DEF NatOut, PacketsOK
<1>4. w.pkt \in Q
  BY <1>3 DEF Outgoing
<1>5. /\ Closed(Q \cup {r[1]})
      /\ DOMAIN r[2] \subseteq Addrs /\ \A a \in DOMAIN r[2] : r[2][a] \in OutsideIPs
  BY <1>2, <1>3, <1>4, OutboundOK DEF FInv
<1>6. [w EXCEPT !.at = "out", !.pkt = r[1]] \in Works(Q \cup {r[1]})
  BY <1>3 DEF Works, Outgoing
<1>7. \E R : PacketsOK(R)'
  <2>1. UNCHANGED <<rx, backlog, PacketQueue, sent>>
    BY DEF NatOut, NoOutput
  <2> QED
    BY <1>1, <1>2, <1>5, <1>6, <2>1, MovesNew
<1>8. TablesOK'
  BY <1>2, <1>5 DEF FInv, TablesOK, NatOut, NoOutput, Stay, OutsideIPs
<1> QED
  BY <1>7, <1>8, ConfStays DEF FInv, NatOut

LEMMA AclOutTypes ==
    ASSUME FInv, NEW t \in Threads, AclOut(t)
    PROVE  FInv'
<1>1. PICK Q : PacketsOK(Q)
  BY DEF FInv
<1>2. PICK w : w = work[t]
  OBVIOUS
<1>3. w \in Outgoing(Q)
  BY <1>1, <1>2, WorkAt DEF AclOut
<1>4. Idle \in Works(Q) /\ [w EXCEPT !.at = "crypto"] \in Works(Q)
  BY <1>3 DEF Works, Outgoing
<1>5. PICK x \in Works(Q) : GoOn(t, x)
  BY <1>2, <1>4 DEF AclOut
<1>6. \E R : PacketsOK(R)'
  BY <1>1, <1>5, Moves DEF AclOut, NoOutput
<1> QED
  BY <1>6, ConfStays, TablesStay DEF FInv, AclOut

LEMMA EncryptTypes ==
    ASSUME FInv, NEW t \in Threads, Encrypt(t)
    PROVE  FInv'
<1>1. PICK Q : PacketsOK(Q)
  BY DEF FInv
<1>2. PICK w : w = work[t]
  OBVIOUS
<1>3. w \in Outgoing(Q) /\ Closed(Q)
  BY <1>1, <1>2, WorkAt DEF Encrypt, PacketsOK
<1>4. UNCHANGED <<rx, backlog, PacketQueue, sent>>
  BY DEF Encrypt, NoOutput
<1>5. ASSUME GoOn(t, [w EXCEPT !.at = "arp"])
      PROVE  \E R : PacketsOK(R)'
  <2>1. [w EXCEPT !.at = "arp"] \in Works(Q)
    BY <1>3 DEF Works, Outgoing
  <2> QED
    BY <1>1, <1>4, <1>5, <2>1, Moves
<1>6. ASSUME NEW peer \in MatchCryptoTunnel(w.out, w.pkt), NEW x, x = EncapsulateESP(w.pkt, peer, w.out),
             GoOn(t, [w EXCEPT !.at = "arp", !.hop = peer, !.pkt = x])
      PROVE  \E R : PacketsOK(R)'
  <2>1. peer \in Addrs /\ w.out \in Ports /\ w.pkt \in Q
    BY <1>3, TunnelOK DEF FInv, Outgoing
  <2>2. Closed(Q \cup {x})
    <3>1. Wraps(Q, w.pkt, w.out, x)
      BY <1>3, <1>6, <2>1, Wrap
    <3> QED
      BY <3>1 DEF Wraps
  <2>3. [w EXCEPT !.at = "arp", !.hop = peer, !.pkt = x] \in Works(Q \cup {x})
    BY <1>3, <2>1 DEF Works, Outgoing
  <2> QED
    BY <1>1, <1>4, <1>6, <2>2, <2>3, MovesNew
<1>7. \/ GoOn(t, [w EXCEPT !.at = "arp"])
      \/ \E peer \in MatchCryptoTunnel(w.out, w.pkt) :
            GoOn(t, [w EXCEPT !.at = "arp", !.hop = peer, !.pkt = EncapsulateESP(w.pkt, peer, w.out)])
  BY <1>2 DEF Encrypt
<1>8. \E R : PacketsOK(R)'
  BY <1>5, <1>6, <1>7
<1> QED
  BY <1>8, ConfStays, TablesStay DEF FInv, Encrypt

LEMMA SendTypes ==
    ASSUME FInv, NEW t \in Threads, Send(t)
    PROVE  FInv'
<1>1. PICK Q : PacketsOK(Q)
  BY DEF FInv
<1>k. PICK k, f : k = work[t].pkt /\ f = [port |-> work[t].out, pkt |-> k]
  OBVIOUS
<1>r. PICK re : re = Packet(<<"re", k.id>>, k.dst, k.src, "reply", 64)
  OBVIOUS
<1>2. k \in Q /\ Closed(Q) /\ k.src \in Addrs /\ k.dst \in Addrs
  BY <1>1, <1>k, WorkAt DEF Send, Outgoing, PacketsOK, Closed, IsPacket
<1>3. Closed(Q \cup {re})
  BY <1>r, <1>2, MakePacket, AddPacket
<1>4. work' \in [Threads -> Works(Q \cup {re})]
  <2>1. Idle \in Works(Q \cup {re}) /\ work \in [Threads -> Works(Q \cup {re})]
    BY <1>1, Larger DEF Works, PacketsOK
  <2> QED
    BY <2>1 DEF Send, Done, GoOn
<1>5. /\ sent' \subseteq sent \cup {f}
      /\ f.port \in Ports \/ rx' = rx
      /\ rx' \subseteq rx \cup {[port |-> f.port, pkt |-> re]}
  BY <1>k, <1>r DEF Send, ServerReplies
<1>6. /\ \A g \in rx' : g.port \in Ports /\ g.pkt \in Q \cup {re}
      /\ \A g \in sent' : g.pkt \in Q \cup {re}
  BY <1>1, <1>2, <1>5, <1>k DEF PacketsOK
<1>7. PacketsOK(Q \cup {re})'
  <2>1. backlog' \in Seq(Q \cup {re}) /\ PacketQueue' \in [Addrs -> Seq(Q \cup {re})]
    BY <1>1, Larger DEF Send, PacketsOK
  <2> QED
    BY <1>3, <1>4, <1>6, <2>1 DEF PacketsOK
<1>8. TablesOK'
  BY DEF FInv, TablesOK, Send, Stay, OutsideIPs
<1> QED
  BY <1>7, <1>8, ConfStays DEF FInv, Send

LEMMA QueueTypes ==
    ASSUME FInv, NEW t \in Threads, Queue(t)
    PROVE  FInv'
<1>1. PICK Q : PacketsOK(Q)
  BY DEF FInv
<1>2. work[t].pkt \in Q /\ work[t].hop \in Addrs
  BY <1>1, WorkAt DEF Queue, Outgoing
<1>3. PacketQueue' \in [Addrs -> Seq(Q)]
  BY <1>1, <1>2 DEF Queue, PacketsOK
<1>4. work' \in [Threads -> Works(Q)]
  BY <1>1 DEF Queue, Done, GoOn, PacketsOK, Works
<1>5. PacketsOK(Q)'
  BY <1>1, <1>3, <1>4 DEF PacketsOK, Queue
<1>6. TablesOK'
  BY <1>2 DEF FInv, TablesOK, Queue, Stay, OutsideIPs
<1> QED
  BY <1>5, <1>6, ConfStays DEF FInv, Queue

LEMMA RouterARPTypes ==
    ASSUME FInv, HandleRouterARP
    PROVE  FInv'
<1>1. PICK Q : PacketsOK(Q)
  BY DEF FInv
<1>2. PICK a \in asked \cap Neighbours :
        /\ asked' = asked \ {a} /\ ArpCache' = ArpCache \cup {a}
        /\ backlog' = PacketQueue[a] /\ PacketQueue' = [PacketQueue EXCEPT ![a] = <<>>]
  BY DEF HandleRouterARP
<1>3. a \in Addrs
  BY AssumptionParts
<1>4. backlog' \in Seq(Q) /\ PacketQueue' \in [Addrs -> Seq(Q)]
  BY <1>1, <1>2, <1>3 DEF PacketsOK
<1>5. PacketsOK(Q)'
  BY <1>1, <1>4 DEF PacketsOK, HandleRouterARP
<1>6. TablesOK'
  BY <1>2 DEF FInv, TablesOK, HandleRouterARP, Stay, OutsideIPs
<1> QED
  BY <1>5, <1>6, ConfStays DEF FInv, HandleRouterARP

LEMMA ForwardQueuedTypes ==
    ASSUME FInv, ForwardQueued
    PROVE  FInv'
<1>1. PICK Q : PacketsOK(Q)
  BY DEF FInv
<1>2. Head(backlog) \in Q /\ Tail(backlog) \in Seq(Q)
  BY <1>1 DEF ForwardQueued, PacketsOK
<1>3. work' \in [Threads -> Works(Q)]
  BY <1>1, <1>2 DEF ForwardQueued, ToRoute, GoOn, PacketsOK, Works
<1>4. PacketsOK(Q)'
  BY <1>1, <1>2, <1>3 DEF PacketsOK, ForwardQueued, NoOutput
<1> QED
  BY <1>4, ConfStays, TablesStay DEF FInv, ForwardQueued

LEMMA StartPingTypes ==
    ASSUME FInv, StartPing
    PROVE  FInv'
<1>1. PICK Q : PacketsOK(Q)
  BY DEF FInv
<1>2. Conn \in Threads
  BY DEF Threads
<1>3. PICK a \in toPing :
        /\ toPing' = toPing \ {a}
        /\ \/ UNCHANGED work
           \/ \E p \in Ports : ToRoute(Conn, Packet(<<"ping", a>>, IfAddr[p], a, "echo", 64))
  BY DEF StartPing
<1>4. a \in Addrs /\ IfAddr \in [Ports -> Addrs]
  BY AssumptionParts DEF FInv, TablesOK
<1>5. ASSUME UNCHANGED work
      PROVE  \E R : PacketsOK(R)'
  <2>1. PacketsOK(Q)'
    BY <1>1, <1>5 DEF PacketsOK, StartPing, NoOutput
  <2> QED
    BY <2>1
<1>6. ASSUME NEW p \in Ports, NEW x, x = Packet(<<"ping", a>>, IfAddr[p], a, "echo", 64), ToRoute(Conn, x)
      PROVE  \E R : PacketsOK(R)'
  <2>0. IfAddr[p] \in Addrs /\ a \in Addrs
    BY <1>4
  <2>k. IsPacket(x) /\ x.kind = "echo"
    BY <1>6, <2>0, MakePacket
  <2>1. Closed(Q \cup {x})
    BY <1>1, <2>k, AddPacket DEF PacketsOK
  <2>2. [at |-> "route", pkt |-> x] \in Works(Q \cup {x})
    BY DEF Works
  <2>3. UNCHANGED <<rx, backlog, PacketQueue, sent>>
    BY DEF StartPing, NoOutput
  <2> QED
    BY <1>1, <1>2, <1>6, <2>1, <2>2, <2>3, MovesNew DEF ToRoute
<1>7. \E R : PacketsOK(R)'
  BY <1>3, <1>5, <1>6
<1>8. TablesOK'
  BY <1>3 DEF FInv, TablesOK, StartPing, NoOutput, Stay, OutsideIPs
<1> QED
  BY <1>7, <1>8, ConfStays DEF FInv, StartPing

(* --- The start and the configuration keep the types ------------------------------ *)
LEMMA InitTypes == Init => FInv
<1> SUFFICES ASSUME Init PROVE FInv
  OBVIOUS
<1>1. DefaultPolicy \in Policy /\ DefaultPolicy.outside = FALSE
  BY DEF DefaultPolicy, Policy
<1>e. DOMAIN <<>> = {} /\ \A S : <<>> \in Seq(S)
  OBVIOUS
<1>2. ConfOK
  <2>1. IfacePolicies \in [Ports -> Policy] /\ \A p \in Ports : IfacePolicies[p].outside => p \in Uplinks
    BY <1>1 DEF Init
  <2>2. static \in Seq(Statics) /\ CryptoMap \in Seq(Entries)
    BY <1>e DEF Init
  <2>3. DOMAIN IKEPeers = {} /\ installing = {}
    BY <1>e DEF Init
  <2>4. IfaceCryptoMap \subseteq Uplinks /\ Overload \in BOOLEAN /\ RoutingTable = Routes0
    BY DEF Init
  <2>5. setup \in 0 .. MaxSetup /\ edits \in 0 .. MaxEdits
    BY AssumptionParts DEF Init
  <2>6. RoutingTable \in Seq(Route0)
    BY <2>4, AssumptionParts
  <2>7. DOMAIN IKEPeers \subseteq Addrs /\ \A a \in DOMAIN IKEPeers : IKEPeers[a] \subseteq Addrs
    BY <2>3
  <2> QED
    BY <2>1, <2>2, <2>3, <2>4, <2>5, <2>6, <2>7 DEF ConfOK
<1>3. TablesOK
  <2>1. DOMAIN PAT = {}
    BY <1>e DEF Init
  <2> QED
    BY <2>1, AssumptionParts DEF Init, TablesOK
<1>4. PacketsOK(Arriving)
  <2>1. work \in [Threads -> Works(Arriving)]
    BY DEF Init, Works
  <2>2. \A f \in rx : f.port \in Ports /\ f.pkt \in Arriving
    BY AssumptionParts DEF Init
  <2>3. backlog \in Seq(Arriving) /\ PacketQueue \in [Addrs -> Seq(Arriving)] /\ sent = {}
    BY <1>e DEF Init
  <2> QED
    BY <2>1, <2>2, <2>3, AssumptionParts DEF PacketsOK
<1> QED
  BY <1>2, <1>3, <1>4 DEF FInv

LEMMA PacketsStay ==
    ASSUME FInv, NoPacket
    PROVE  TablesOK' /\ (\E Q : PacketsOK(Q)')
<1>1. PICK Q : PacketsOK(Q)
  BY DEF FInv
<1>2. PacketsOK(Q)'
  BY <1>1 DEF NoPacket, PacketsOK
<1> QED
  BY <1>2 DEF FInv, NoPacket, TablesOK

LEMMA EditCounts ==
    ASSUME FInv, Edit
    PROVE  setup' \in 0 .. MaxSetup /\ edits' \in 0 .. MaxEdits /\ TablesOK' /\ (\E Q : PacketsOK(Q)')
<1>1. setup \in 0 .. MaxSetup /\ edits \in 0 .. MaxEdits /\ MaxSetup \in Nat /\ MaxEdits \in Nat
  BY AssumptionParts DEF FInv, ConfOK
<1>2. \/ setup < MaxSetup /\ setup' = setup + 1 /\ edits' = edits
      \/ edits < MaxEdits /\ edits' = edits + 1 /\ setup' = setup
  BY DEF Edit
<1>3. setup' \in 0 .. MaxSetup /\ edits' \in 0 .. MaxEdits
  BY <1>1, <1>2
<1> QED
  BY <1>3, PacketsStay DEF Edit

LEMMA SubnetOK ==
    ASSUME ConfOK, NEW peer
    PROVE  SubnetBehind(peer) \subseteq Addrs
<1> DEFINE es == {i \in 1 .. Len(CryptoMap) : CryptoMap[i].peer = peer}
           M == {Len(CryptoMap) - i : i \in es}
           Last(i) == i \in es /\ \A j \in es : i >= j
<1>1. CASE es = {}
  BY <1>1 DEF SubnetBehind
<1>2. CASE es # {}
  <2>1. Len(CryptoMap) \in Nat /\ es \subseteq 1 .. Len(CryptoMap)
    BY DEF ConfOK
  <2>2. M \in SUBSET Nat /\ M # {}
    BY <1>2, <2>1
  <2>3. PICK m \in M : \A k \in M : m <= k
    <3> HIDE DEF M
    <3> QED BY <2>2, LeastOf
  <2>4. PICK i \in es : m = Len(CryptoMap) - i
    BY <2>3
  <2>5. ASSUME NEW j \in es PROVE i >= j
    <3>1. Len(CryptoMap) - j \in M
      OBVIOUS
    <3>2. Len(CryptoMap) - i <= Len(CryptoMap) - j
      BY <3>1, <2>3, <2>4
    <3> QED
      BY <3>2, <2>1
  <2>6. Last(CHOOSE n \in es : \A j \in es : n >= j)
    BY <2>5
  <2>7. CryptoMap[CHOOSE n \in es : \A j \in es : n >= j] \in Entries
    BY <2>6, <2>1 DEF ConfOK
  <2> QED
    BY <1>2, <2>7, AssumptionParts DEF SubnetBehind
<1> QED
  BY <1>1, <1>2

LEMMA ConfiguresApart == Configure => Edit /\ NoPacket
  BY DEF Configure, CONFIG_ACL, APPLY_ACL, ApplyIfaceACL, INTERFACE_SHUTDOWN, CONFIG_NAT_STATIC,
         CONFIG_NAT_OVERLOAD, CONFIG_CRYPTO_MAP, NEGOTIATE_IKE, Edit

LEMMA ConfigureTypes ==
    ASSUME FInv, Configure
    PROVE  FInv'
<1>0. ConfOK
  BY DEF FInv
<1>1. ASSUME NEW a \in ACLs, NEW rule \in Rules, CONFIG_ACL(a, rule)
      PROVE  FInv'
  BY <1>0, <1>1, EditCounts DEF CONFIG_ACL, NoPeer, ConfOK, FInv
<1>2. ASSUME NEW f \in Filters, NEW a \in ACLs, APPLY_ACL(f[1], f[2], a)
      PROVE  FInv'
  <2>1. f[1] \in Ports /\ f[2] \in {"in", "out"}
    BY AssumptionParts
  <2>2. PICK pol \in Policy : SetIfacePolicy(f[1], pol) /\ pol.outside = FALSE
    <3>1. /\ [DefaultPolicy EXCEPT !.in = a] \in Policy /\ [DefaultPolicy EXCEPT !.in = a].outside = FALSE
          /\ [DefaultPolicy EXCEPT !.out = a] \in Policy /\ [DefaultPolicy EXCEPT !.out = a].outside = FALSE
      BY DEF DefaultPolicy, Policy
    <3> QED
      BY <1>2, <3>1 DEF APPLY_ACL
  <2>3. /\ IfacePolicies' \in [Ports -> Policy]
        /\ \A p \in Ports : IfacePolicies'[p].outside => p \in Uplinks
    BY <1>0, <2>1, <2>2 DEF SetIfacePolicy, ConfOK
  <2> QED
    BY <1>0, <1>2, <2>3, EditCounts DEF APPLY_ACL, NoPeer, ConfOK, FInv
<1>3. ASSUME NEW f \in Filters, NEW a \in ACLs, ApplyIfaceACL(f[1], f[2], a)
      PROVE  FInv'
  <2>1. f[1] \in Ports /\ f[2] \in {"in", "out"}
    BY AssumptionParts
  <2>2. /\ [IfacePolicies[f[1]] EXCEPT !.in = a] \in Policy
        /\ [IfacePolicies[f[1]] EXCEPT !.out = a] \in Policy
        /\ [IfacePolicies[f[1]] EXCEPT !.in = a].outside = IfacePolicies[f[1]].outside
        /\ [IfacePolicies[f[1]] EXCEPT !.out = a].outside = IfacePolicies[f[1]].outside
    BY <1>0, <2>1 DEF ConfOK, Policy
  <2>3. \/ IfacePolicies' = [IfacePolicies EXCEPT ![f[1]] = [IfacePolicies[f[1]] EXCEPT !.in = a]]
        \/ IfacePolicies' = [IfacePolicies EXCEPT ![f[1]] = [IfacePolicies[f[1]] EXCEPT !.out = a]]
    BY <1>3 DEF ApplyIfaceACL
  <2>4. /\ IfacePolicies' \in [Ports -> Policy]
        /\ \A p \in Ports : IfacePolicies'[p].outside => p \in Uplinks
    BY <1>0, <2>1, <2>2, <2>3 DEF ConfOK
  <2> QED
    BY <1>0, <1>3, <2>4, EditCounts DEF ApplyIfaceACL, NoPeer, ConfOK, FInv
<1>4. ASSUME NEW p \in Uplinks, NEW shutdown \in BOOLEAN, INTERFACE_SHUTDOWN(p, shutdown)
      PROVE  FInv'
  <2>1. p \in Ports
    BY AssumptionParts
  <2>2. PICK pol \in Policy : SetIfacePolicy(p, pol)
    BY <1>0, <1>4, <2>1 DEF INTERFACE_SHUTDOWN, SetInterfaceShutdown, Policy, ConfOK
  <2>3. /\ IfacePolicies' \in [Ports -> Policy]
        /\ \A q \in Ports : IfacePolicies'[q].outside => q \in Uplinks
    BY <1>0, <2>1, <2>2 DEF SetIfacePolicy, ConfOK
  <2> QED
    BY <1>0, <1>4, <2>3, EditCounts DEF INTERFACE_SHUTDOWN, NoPeer, ConfOK, FInv
<1>5. ASSUME NEW pair \in Statics, CONFIG_NAT_STATIC(pair)
      PROVE  FInv'
  <2>1. static' \in Seq(Statics)
    BY <1>0, <1>5 DEF CONFIG_NAT_STATIC, AddStaticNAT, ConfOK
  <2> QED
    BY <1>0, <1>5, <2>1, EditCounts DEF CONFIG_NAT_STATIC, NoPeer, ConfOK, FInv
<1>6. ASSUME NEW p \in Uplinks, CONFIG_NAT_OVERLOAD(p)
      PROVE  FInv'
  <2>1. p \in Ports
    BY AssumptionParts
  <2>2. PICK pol \in Policy : SetIfacePolicy(p, pol)
    BY <1>0, <1>6, <2>1 DEF CONFIG_NAT_OVERLOAD, EnableNATOverload, Policy, ConfOK
  <2>3. /\ IfacePolicies' \in [Ports -> Policy]
        /\ \A q \in Ports : IfacePolicies'[q].outside => q \in Uplinks
    BY <1>0, <2>1, <2>2 DEF SetIfacePolicy, ConfOK
  <2> QED
    BY <1>0, <1>6, <2>3, EditCounts DEF CONFIG_NAT_OVERLOAD, EnableNATOverload, NoPeer, ConfOK, FInv
<1>7. ASSUME NEW e \in Entries, NEW p \in Uplinks, CONFIG_CRYPTO_MAP(e, p)
      PROVE  FInv'
  <2>1. CryptoMap' \in Seq(Entries) /\ IfaceCryptoMap' \subseteq Uplinks
    BY <1>0, <1>7 DEF CONFIG_CRYPTO_MAP, AddCryptoMapEntry, ApplyCryptoMap, ConfOK
  <2> QED
    BY <1>0, <1>7, <2>1, EditCounts DEF CONFIG_CRYPTO_MAP, NoPeer, ConfOK, FInv
<1>8. ASSUME NEW e \in Entries, NEW psk \in PSKs, NEGOTIATE_IKE(e.peer, psk)
      PROVE  FInv'
  <2>1. e.peer \in Addrs
    BY AssumptionParts
  <2>2. SubnetBehind(e.peer) \subseteq Addrs
    BY <1>0, <2>1, SubnetOK
  <2>3. /\ DOMAIN IKEPeers' = DOMAIN IKEPeers \cup {e.peer}
        /\ \A a \in DOMAIN IKEPeers' : IKEPeers'[a] \subseteq Addrs
    BY <1>0, <1>8, <2>2 DEF NEGOTIATE_IKE, activatePeer, ConfOK
  <2>4. installing' \subseteq DOMAIN IKEPeers' /\ DOMAIN IKEPeers' \subseteq Addrs
    BY <1>0, <1>8, <2>1, <2>3 DEF NEGOTIATE_IKE, ConfOK
  <2> QED
    BY <1>0, <1>8, <2>3, <2>4, EditCounts DEF NEGOTIATE_IKE, conf, ConfOK, FInv
<1> QED
  BY <1>1, <1>2, <1>3, <1>4, <1>5, <1>6, <1>7, <1>8 DEF Configure

LEMMA InstallTypes ==
    ASSUME FInv, NEW peer \in installing, InstallVPNRoutes(peer)
    PROVE  FInv'
<1>1. ConfOK /\ peer \in Addrs /\ IKEPeers[peer] \subseteq Addrs
  BY DEF FInv, ConfOK
<1>2. VPNRoute(peer, IKEPeers[peer]) \in Route0
  <2> DEFINE n == IKEPeers[peer]
  <2>1. n \in SUBSET Addrs /\ peer \in Addrs \cup {None} /\ NoPort \in Exits /\ 1 \in Nat
    BY <1>1 DEF Exits
  <2> HIDE DEF n
  <2>s. "static" \in Protocols
    BY DEF Protocols
  <2>g. \A d \in Nat, x \in Exits, o \in Protocols :
           [net |-> n, dist |-> d, hop |-> peer, port |-> x, proto |-> o] \in Route0
    BY <2>1 DEF Route0
  <2>2. [net |-> n, dist |-> 1, hop |-> peer, port |-> NoPort, proto |-> "static"] \in Route0
    BY <2>1, <2>s, <2>g
  <2> QED
    BY <2>2 DEF VPNRoute, n
<1>3. ASSUME NEW r \in Route0 PROVE AddRoute(RoutingTable, r) \in Seq(Route0)
  <2>1. RoutingTable \in Seq(Route0)
    BY <1>1 DEF ConfOK
  <2>2. Append(RoutingTable, r) \in Seq(Route0)
    BY <2>1
  <2>3. ASSUME NEW same PROVE [i \in DOMAIN RoutingTable |-> IF i \in same THEN r ELSE RoutingTable[i]] \in Seq(Route0)
    BY <2>1
  <2> QED
    BY <2>2, <2>3 DEF AddRoute
<1>4. RoutingTable' \in Seq(Route0) /\ installing' \subseteq installing
  BY <1>1, <1>2, <1>3 DEF InstallVPNRoutes, ConfOK
<1> QED
  BY <1>1, <1>4, PacketsStay DEF InstallVPNRoutes, conf, ConfOK, FInv

LEMMA StutterTypes == FInv /\ UNCHANGED vars => FInv'
<1> SUFFICES ASSUME FInv, UNCHANGED vars PROVE FInv'
  OBVIOUS
<1>1. NoPacket
  BY DEF vars, NoPacket
<1> QED
  BY <1>1, PacketsStay DEF vars, conf, ConfOK, FInv

(* Any step of the router, its connections or its links keeps the types.  *)
LEMMA TypesStay == FInv /\ [Next]_vars => FInv'
<1> SUFFICES ASSUME FInv, [Next]_vars PROVE FInv'
  OBVIOUS
<1>1. CASE UNCHANGED vars
  BY <1>1, StutterTypes
<1>2. ASSUME NEW t \in Threads, Route(t) \/ NatOut(t) \/ AclOut(t) \/ Encrypt(t) \/ Send(t) \/ Queue(t)
      PROVE  FInv'
  BY <1>2, RouteTypes, NatOutTypes, AclOutTypes, EncryptTypes, SendTypes, QueueTypes
<1> QED
  BY <1>1, <1>2, DeliverTypes, NatInTypes, HandleTypes, RouterARPTypes, ForwardQueuedTypes,
     StartPingTypes, ConfigureTypes, InstallTypes DEF Next

LEMMA TypesHold == FInv => TypeOK
<1> SUFFICES ASSUME FInv PROVE TypeOK
  OBVIOUS
<1>1. PICK Q : PacketsOK(Q)
  BY DEF FInv
<1>2. \A t \in Threads : ~At(t, "idle") => work[t].pkt.dst \in Addrs
  <2> SUFFICES ASSUME NEW t \in Threads, ~At(t, "idle") PROVE work[t].pkt.dst \in Addrs
    OBVIOUS
  <2>1. work[t].pkt \in Q
    BY <1>1 DEF PacketsOK, Works, Incoming, Outgoing, At, Idle
  <2> QED
    BY <1>1, <2>1 DEF PacketsOK, Closed, IsPacket
<1>3. \A a \in DOMAIN PAT : OwnsIP(PAT[a])
  BY AssumptionParts DEF FInv, TablesOK, OutsideIPs, OwnsIP
<1>4. \A p \in Ports : IfacePolicies[p].in \in ACLs \cup {None} /\ IfacePolicies[p].out \in ACLs \cup {None}
  BY DEF FInv, ConfOK, Policy
<1> QED
  BY <1>2, <1>3, <1>4, AssumptionParts DEF FInv, ConfOK, TablesOK, TypeOK

(* --- Encrypted once ---------------------------------------------------------------- *)
(* What may be in an ESP packet already: an id that waited or came as one. *)
Again(id) == id \in waited \/ CameEncrypted(id)
Clear(k) == k.kind = "esp" => Again(k.id)
Once(k) == k.kind = "esp" /\ k.inner[1].kind = "esp" => Again(k.id)
OnceAt(w) == /\ w.at \notin {"idle", "arp"} => Clear(w.pkt)
             /\ w.at = "arp" => Once(w.pkt)
Waiting(q) == \A i \in DOMAIN q : q[i].id \in waited

EInv ==
    /\ \A f \in rx : Clear(f.pkt)
    /\ \A t \in Threads : OnceAt(work[t])
    /\ Waiting(backlog)
    /\ \A a \in Addrs : Waiting(PacketQueue[a])
    /\ \A f \in sent : Once(f.pkt)

LEMMA AgainStays ==
    ASSUME traffic' = traffic, waited \subseteq waited'
    PROVE  /\ \A k : Clear(k) => Clear(k)'
           /\ \A k : Once(k) => Once(k)'
           /\ \A w : OnceAt(w) => OnceAt(w)'
           /\ \A q : Waiting(q) => Waiting(q)'
  BY DEF Clear, Once, OnceAt, Waiting, Again, CameEncrypted

LEMMA OnceMoves ==
    ASSUME FInv, EInv, NEW t \in Threads, NEW w, GoOn(t, w), OnceAt(w), Stay,
           UNCHANGED <<rx, backlog, PacketQueue, sent, waited>>
    PROVE  EInv'
<1>1. DOMAIN work = Threads
  BY DEF FInv, PacketsOK
<1>2. \A u \in Threads : OnceAt(work'[u])
  BY <1>1 DEF GoOn, EInv
<1>3. traffic' = traffic /\ waited' = waited
  BY DEF Stay
<1>4. \A u \in Threads : OnceAt(work[u])'
  BY <1>2, <1>3 DEF OnceAt, Clear, Once, Again, CameEncrypted
<1> QED
  BY <1>3, <1>4 DEF EInv, Clear, Once, Again, CameEncrypted, Waiting

LEMMA InitOnce == Init => EInv
<1> SUFFICES ASSUME Init PROVE EInv
  OBVIOUS
<1>1. DOMAIN <<>> = {}
  OBVIOUS
<1> QED
  BY <1>1 DEF Init, EInv, Clear, Again, CameEncrypted, OnceAt, Idle, Waiting

LEMMA ArrivalOnce ==
    ASSUME FInv, EInv, DeliverToRouter \/ NatIn \/ HandleRouterIP
    PROVE  EInv'
<1>0. PICK Q : PacketsOK(Q)
  BY DEF FInv
<1>t. Loop \in Threads
  BY DEF Threads
<1>i. OnceAt(Idle)
  BY DEF OnceAt, Idle
<1>1. CASE DeliverToRouter
  <2>1. PICK f \in rx :
          /\ rx' = rx \ {f}
          /\ GoOn(Loop, IF IsInterfaceUp(f.port) THEN [at |-> "rx", pkt |-> f.pkt, port |-> f.port] ELSE Idle)
    BY <1>1 DEF DeliverToRouter
  <2>2. OnceAt([at |-> "rx", pkt |-> f.pkt, port |-> f.port])
    BY DEF EInv, OnceAt
  <2>3. PICK w : GoOn(Loop, w) /\ OnceAt(w)
    BY <1>i, <2>1, <2>2
  <2>4. /\ UNCHANGED <<traffic, waited, backlog, PacketQueue, sent>> /\ rx' \subseteq rx
    BY <1>1, <2>1 DEF DeliverToRouter, NoOutput, Stay
  <2>5. work' = [work EXCEPT ![Loop] = w] /\ DOMAIN work = Threads
    BY <2>3 DEF GoOn, FInv, PacketsOK
  <2>6. \A u \in Threads : OnceAt(work'[u])
    BY <2>3, <2>5 DEF EInv
  <2> QED
    BY <2>4, <2>6 DEF EInv, OnceAt, Clear, Once, Again, CameEncrypted, Waiting
<1>2. CASE NatIn
  <2>w. PICK w : w = work[Loop]
    OBVIOUS
  <2>1. PICK k \in TranslateInbound(w.port, w.pkt) : GoOn(Loop, [w EXCEPT !.at = "in", !.pkt = k])
    BY <1>2, <2>w DEF NatIn
  <2>2. w \in Incoming(Q)
    BY <1>0, <1>2, <1>t, <2>w, WorkAt DEF NatIn
  <2>p. w.port \in Ports /\ w.pkt \in Q /\ Closed(Q) /\ ConfOK /\ TablesOK
    BY <1>0, <2>2 DEF FInv, PacketsOK, Incoming
  <2>k. k \in TranslateInbound(w.port, w.pkt)
    BY <2>1
  <2>3. k.id = w.pkt.id /\ k.kind = w.pkt.kind
    BY <2>k, <2>p, InboundKeeps
  <2>4. Clear(w.pkt)
    BY <1>2, <1>t, <2>w DEF NatIn, At, EInv, OnceAt
  <2>5. OnceAt([w EXCEPT !.at = "in", !.pkt = k])
    BY <2>2, <2>3, <2>4 DEF OnceAt, Clear, Incoming
  <2> QED
    BY <1>2, <1>t, <2>1, <2>5, OnceMoves DEF NatIn, NoOutput
<1>3. CASE HandleRouterIP
  <2>k. PICK k : k = work[Loop].pkt
    OBVIOUS
  <2>1. k \in Q /\ Clear(k)
    BY <1>0, <1>3, <1>t, <2>k, WorkAt DEF HandleRouterIP, At, Incoming, EInv, OnceAt
  <2>2. ASSUME NEW x, Clear(x), ToRoute(Loop, x)
        PROVE  EInv'
    <3>1. OnceAt([at |-> "route", pkt |-> x])
      BY <2>2 DEF OnceAt
    <3> QED
      BY <1>3, <1>t, <2>2, <3>1, OnceMoves DEF ToRoute, HandleRouterIP, NoOutput
  <2>3. ASSUME Done(Loop) PROVE EInv'
    BY <1>3, <1>t, <1>i, <2>3, OnceMoves DEF Done, HandleRouterIP, NoOutput
  <2>4. ASSUME NEW x \in DecapsulateESP(k), k.kind = "esp" PROVE Clear(x)
    BY <1>0, <2>1, <2>4 DEF DecapsulateESP, Clear, PacketsOK, Closed
  <2>5. Clear(Packet(k.id, k.dst, k.src, "reply", 64))
    BY DEF Clear, Packet
  <2>6. Clear([k EXCEPT !.ttl = @ - 1])
    <3>1. k = [id |-> k.id, src |-> k.src, dst |-> k.dst, kind |-> k.kind, ttl |-> k.ttl, inner |-> k.inner]
      BY <1>0, <2>1 DEF PacketsOK, Closed, IsPacket, Packet
    <3> QED
      BY <2>1, <3>1 DEF Clear
  <2>7. \/ Done(Loop)
        \/ k.kind = "esp" /\ \E inner \in DecapsulateESP(k) : ToRoute(Loop, inner)
        \/ ToRoute(Loop, Packet(k.id, k.dst, k.src, "reply", 64))
        \/ ToRoute(Loop, [k EXCEPT !.ttl = @ - 1])
    BY <1>3, <2>k, Zenon DEF HandleRouterIP
  <2>8. CASE Done(Loop)
    BY <2>8, <2>3
  <2>9. CASE k.kind = "esp" /\ \E inner \in DecapsulateESP(k) : ToRoute(Loop, inner)
    BY <2>9, <2>2, <2>4
  <2>10. CASE ToRoute(Loop, Packet(k.id, k.dst, k.src, "reply", 64))
    BY <2>10, <2>2, <2>5
  <2>11. CASE ToRoute(Loop, [k EXCEPT !.ttl = @ - 1])
    BY <2>11, <2>2, <2>6
  <2> QED
    BY <2>7, <2>8, <2>9, <2>10, <2>11
<1> QED
  BY <1>1, <1>2, <1>3

LEMMA OutputOnce ==
    ASSUME FInv, EInv, NEW t \in Threads, Route(t) \/ NatOut(t) \/ AclOut(t) \/ Encrypt(t)
    PROVE  EInv'
<1>0. PICK Q : PacketsOK(Q)
  BY DEF FInv
<1>i. OnceAt(Idle)
  BY DEF OnceAt, Idle
<1>w. PICK w : w = work[t]
  OBVIOUS
<1>k. Clear(w.pkt)
  BY <1>w DEF Route, NatOut, AclOut, Encrypt, At, EInv, OnceAt
<1>u. Stay /\ UNCHANGED <<rx, backlog, PacketQueue, sent, waited>>
  BY DEF Route, NatOut, AclOut, Encrypt, NoOutput
<1>m. ASSUME NEW v, GoOn(t, v), OnceAt(v) PROVE EInv'
  BY <1>u, <1>m, OnceMoves
<1>1. CASE Route(t)
  <2>1. \/ GoOn(t, Idle)
        \/ \E p, h : GoOn(t, [at |-> "nat", pkt |-> w.pkt, out |-> p, hop |-> h])
    BY <1>1, <1>w DEF Route, Done
  <2>2. \A p, h : OnceAt([at |-> "nat", pkt |-> w.pkt, out |-> p, hop |-> h])
    BY <1>k DEF OnceAt
  <2> QED
    BY <1>i, <1>m, <2>1, <2>2
<1>2. CASE NatOut(t)
  <2>1. PICK r \in TranslateOutbound(w.out, w.pkt) : GoOn(t, [w EXCEPT !.at = "out", !.pkt = r[1]])
    BY <1>2, <1>w DEF NatOut
  <2>2. w \in Outgoing(Q) /\ w.pkt \in Q /\ Closed(Q)
    BY <1>0, <1>2, <1>w, WorkAt DEF NatOut, Outgoing, PacketsOK
  <2>f. ConfOK /\ TablesOK
    BY DEF FInv
  <2>r. r \in TranslateOutbound(w.out, w.pkt)
    BY <2>1
  <2>3. Closed(Q \cup {r[1]}) /\ r[1].id = w.pkt.id /\ r[1].kind = w.pkt.kind
    BY <2>r, <2>2, <2>f, OutboundOK
  <2>4. OnceAt([w EXCEPT !.at = "out", !.pkt = r[1]])
    BY <1>k, <2>2, <2>3 DEF OnceAt, Clear, Outgoing
  <2> QED
    BY <1>m, <2>1, <2>4
<1>3. CASE AclOut(t)
  <2>1. w \in Outgoing(Q)
    BY <1>0, <1>3, <1>w, WorkAt DEF AclOut
  <2>2. GoOn(t, Idle) \/ GoOn(t, [w EXCEPT !.at = "crypto"])
    BY <1>3, <1>w DEF AclOut
  <2>3. OnceAt([w EXCEPT !.at = "crypto"])
    BY <1>k, <2>1 DEF OnceAt, Outgoing
  <2> QED
    BY <1>i, <1>m, <2>2, <2>3
<1>4. CASE Encrypt(t)
  <2>1. w \in Outgoing(Q) /\ w.pkt \in Q /\ Closed(Q)
    BY <1>0, <1>4, <1>w, WorkAt DEF Encrypt, Outgoing, PacketsOK
  <2>2. \/ GoOn(t, [w EXCEPT !.at = "arp"])
        \/ \E peer \in MatchCryptoTunnel(w.out, w.pkt) :
              GoOn(t, [w EXCEPT !.at = "arp", !.hop = peer, !.pkt = EncapsulateESP(w.pkt, peer, w.out)])
    BY <1>4, <1>w DEF Encrypt
  <2>3. OnceAt([w EXCEPT !.at = "arp"])
    BY <1>k, <2>1 DEF OnceAt, Clear, Once, Outgoing
  <2>4. ASSUME NEW peer \in MatchCryptoTunnel(w.out, w.pkt), NEW x, x = EncapsulateESP(w.pkt, peer, w.out)
        PROVE  OnceAt([w EXCEPT !.at = "arp", !.hop = peer, !.pkt = x])
    <3>1. Closed(Q \cup {x}) /\ x.id = w.pkt.id /\ x.inner = <<w.pkt>>
      <4>1. peer \in Addrs /\ w.out \in Ports
        BY TunnelOK DEF FInv
      <4>2. Wraps(Q, w.pkt, w.out, x)
        BY <2>1, <2>4, <4>1, Wrap
      <4> QED
        BY <4>2 DEF Wraps
    <3>2. Once(x)
      BY <1>k, <3>1 DEF Once, Clear
    <3> QED
      BY <2>1, <3>2 DEF OnceAt, Outgoing
  <2> QED
    BY <1>m, <2>2, <2>3, <2>4
<1> QED
  BY <1>1, <1>2, <1>3, <1>4

LEMMA SendOnce ==
    ASSUME FInv, EInv, NEW t \in Threads, Send(t) \/ Queue(t)
    PROVE  EInv'
<1>0. PICK Q : PacketsOK(Q)
  BY DEF FInv
<1>w. PICK k : k = work[t].pkt
  OBVIOUS
<1>1. Once(k) /\ DOMAIN work = Threads
  BY <1>0, <1>w DEF Send, Queue, At, EInv, OnceAt, PacketsOK
<1>2. work' = [work EXCEPT ![t] = Idle] /\ traffic' = traffic /\ backlog' = backlog /\ waited \subseteq waited'
  BY DEF Send, Queue, Done, GoOn, Stay
<1>3. \A u \in Threads : OnceAt(work'[u])
  BY <1>1, <1>2 DEF EInv, OnceAt, Idle
<1>4. \A u \in Threads : OnceAt(work[u])'
  BY <1>2, <1>3 DEF OnceAt, Clear, Once, Again, CameEncrypted
<1>5. Waiting(backlog)'
  BY <1>2 DEF EInv, Waiting
<1>6. CASE Send(t)
  <2>1. UNCHANGED <<PacketQueue, waited>>
    BY <1>6 DEF Send
  <2>2. /\ \A f \in sent' : f \in sent \/ f.pkt = k
        /\ \A f \in rx' : f \in rx \/ f.pkt.kind = "reply"
    BY <1>6, <1>w DEF Send, ServerReplies, Packet
  <2>3. (\A f \in sent' : Once(f.pkt)) /\ (\A f \in rx' : Clear(f.pkt))
    BY <1>1, <2>2 DEF EInv, Clear
  <2>4. (\A f \in sent : Once(f.pkt))' /\ (\A f \in rx : Clear(f.pkt))'
    BY <1>2, <2>1, <2>3 DEF Once, Clear, Again, CameEncrypted
  <2>5. (\A a \in Addrs : Waiting(PacketQueue[a]))'
    BY <2>1 DEF EInv, Waiting
  <2> QED
    BY <1>4, <1>5, <2>4, <2>5 DEF EInv
<1>7. CASE Queue(t)
  <2>h. PICK h : h = work[t].hop
    OBVIOUS
  <2>1. UNCHANGED <<rx, sent>> /\ waited' = waited \cup {k.id}
    BY <1>7, <1>w DEF Queue
  <2>2. PacketQueue' = [PacketQueue EXCEPT ![h] = Append(@, k)] /\ PacketQueue \in [Addrs -> Seq(Q)]
    BY <1>0, <1>7, <1>w, <2>h DEF Queue, PacketsOK
  <2>3. ASSUME NEW a \in Addrs, NEW i \in DOMAIN PacketQueue'[a]
        PROVE  PacketQueue'[a][i].id \in waited'
    <3>1. \A j \in DOMAIN PacketQueue[a] : PacketQueue[a][j].id \in waited
      BY DEF EInv, Waiting
    <3>2. PacketQueue[a] \in Seq(Q)
      BY <2>2
    <3>3. CASE a = h
      <4>1. PacketQueue'[a] = Append(PacketQueue[a], k)
        BY <2>2, <3>3
      <4>2. i \in 1 .. Len(PacketQueue[a]) + 1
        BY <2>3, <3>2, <4>1
      <4>3. CASE i \in 1 .. Len(PacketQueue[a])
        BY <3>1, <3>2, <4>1, <4>3, <2>1
      <4>4. CASE i = Len(PacketQueue[a]) + 1
        BY <3>2, <4>1, <4>4, <2>1
      <4> QED
        BY <3>2, <4>2, <4>3, <4>4
    <3>4. CASE a # h
      BY <2>1, <2>2, <3>1, <3>4, <2>3
    <3> QED
      BY <3>3, <3>4
  <2>4. (\A a \in Addrs : Waiting(PacketQueue[a]))'
    BY <2>3 DEF Waiting
  <2>5. (\A f \in sent : Once(f.pkt))' /\ (\A f \in rx : Clear(f.pkt))'
    BY <1>2, <2>1 DEF EInv, Once, Clear, Again, CameEncrypted
  <2> QED
    BY <1>4, <1>5, <2>4, <2>5 DEF EInv
<1> QED
  BY <1>6, <1>7

LEMMA RestOnce ==
    ASSUME FInv, EInv,
           \/ HandleRouterARP \/ ForwardQueued \/ StartPing \/ Configure
           \/ \E peer \in installing : InstallVPNRoutes(peer)
           \/ UNCHANGED vars
    PROVE  EInv'
<1>0. PICK Q : PacketsOK(Q)
  BY DEF FInv
<1>t. Loop \in Threads /\ Conn \in Threads
  BY DEF Threads
<1>1. CASE NoPacket
  BY <1>1 DEF NoPacket, EInv, OnceAt, Clear, Once, Again, CameEncrypted, Waiting
<1>2. CASE HandleRouterARP
  <2>1. PICK a \in asked \cap Neighbours :
          backlog' = PacketQueue[a] /\ PacketQueue' = [PacketQueue EXCEPT ![a] = <<>>]
    BY <1>2 DEF HandleRouterARP
  <2>2. a \in Addrs /\ DOMAIN PacketQueue = Addrs /\ DOMAIN <<>> = {}
    BY <1>0, AssumptionParts DEF PacketsOK
  <2>3. UNCHANGED <<rx, work, sent, waited, traffic>>
    BY <1>2 DEF HandleRouterARP, Stay
  <2>4. \A b \in Addrs : PacketQueue'[b] = PacketQueue[b] \/ PacketQueue'[b] = <<>>
    BY <2>1, <2>2
  <2>5. Waiting(backlog)' /\ (\A b \in Addrs : Waiting(PacketQueue[b]))'
    BY <2>1, <2>2, <2>3, <2>4 DEF EInv, Waiting
  <2> QED
    BY <2>3, <2>5 DEF EInv, OnceAt, Clear, Once, Again, CameEncrypted
<1>3. CASE ForwardQueued
  <2>b. backlog # <<>> /\ backlog \in Seq(Q)
    BY <1>0, <1>3 DEF ForwardQueued, PacketsOK
  <2>1. Again(Head(backlog).id)
    BY <2>b DEF EInv, Waiting, Again, CameEncrypted
  <2>2. PICK k : k = Head(backlog)
    OBVIOUS
  <2>3. work' = [work EXCEPT ![Loop] = [at |-> "route", pkt |-> k]] /\ DOMAIN work = Threads
    BY <1>0, <1>3, <2>2 DEF ForwardQueued, ToRoute, GoOn, PacketsOK
  <2>4. \A u \in Threads : OnceAt(work'[u])
    BY <2>1, <2>2, <2>3 DEF EInv, OnceAt, Clear
  <2>5. UNCHANGED <<rx, sent, waited, traffic, PacketQueue>>
    BY <1>3 DEF ForwardQueued, NoOutput, Stay
  <2>6. \A i \in DOMAIN backlog' : backlog'[i].id \in waited
    <3>1. backlog' = Tail(backlog)
      BY <1>3 DEF ForwardQueued
    <3>2. \A i \in 1 .. Len(backlog) : backlog[i].id \in waited
      BY <2>b DEF EInv, Waiting
    <3> QED
      BY <2>b, <3>1, <3>2
  <2>7. Waiting(backlog)'
    BY <2>5, <2>6 DEF Waiting
  <2> QED
    BY <2>4, <2>5, <2>7 DEF EInv, OnceAt, Clear, Once, Again, CameEncrypted, Waiting
<1>4. CASE StartPing
  <2>1. UNCHANGED work \/ \E a, p : ToRoute(Conn, Packet(<<"ping", a>>, IfAddr[p], a, "echo", 64))
    BY <1>4 DEF StartPing
  <2>2. \A a, p : OnceAt([at |-> "route", pkt |-> Packet(<<"ping", a>>, IfAddr[p], a, "echo", 64)])
    BY DEF OnceAt, Clear, Packet
  <2>3. Stay /\ UNCHANGED <<rx, backlog, PacketQueue, sent, waited>>
    BY <1>4 DEF StartPing, NoOutput
  <2>4. CASE UNCHANGED work
    BY <2>3, <2>4 DEF Stay, EInv, OnceAt, Clear, Once, Again, CameEncrypted, Waiting
  <2>5. ASSUME NEW a, NEW p, ToRoute(Conn, Packet(<<"ping", a>>, IfAddr[p], a, "echo", 64))
        PROVE  EInv'
    <3>1. PICK w : w = [at |-> "route", pkt |-> Packet(<<"ping", a>>, IfAddr[p], a, "echo", 64)]
      OBVIOUS
    <3>2. GoOn(Conn, w) /\ OnceAt(w)
      BY <2>2, <2>5, <3>1 DEF ToRoute
    <3> QED
      BY <1>t, <2>3, <3>2, OnceMoves
  <2> QED
    BY <2>1, <2>4, <2>5
<1>5. (Configure \/ (\E peer \in installing : InstallVPNRoutes(peer)) \/ UNCHANGED vars) => NoPacket
  BY ConfiguresApart DEF vars, NoPacket, InstallVPNRoutes
<1> QED
  BY <1>1, <1>2, <1>3, <1>4, <1>5

LEMMA OnceStays == FInv /\ EInv /\ [Next]_vars => EInv'
<1> SUFFICES ASSUME FInv, EInv, [Next]_vars PROVE EInv'
  OBVIOUS
<1>1. ASSUME NEW t \in Threads, Route(t) \/ NatOut(t) \/ AclOut(t) \/ Encrypt(t) \/ Send(t) \/ Queue(t)
      PROVE  EInv'
  BY <1>1, OutputOnce, SendOnce
<1> QED
  BY <1>1, ArrivalOnce, RestOnce DEF Next

(* Packets under way and the tables keep their shape, and no packet is     *)
(* encrypted twice on its way out unless it waited for ARP in between or   *)
(* came encrypted, whatever is configured between its stages.              *)
THEOREM PacketsStaySound == Spec => []PacketsSound
<1>1. Init => FInv /\ EInv
  BY InitTypes, InitOnce
<1>2. FInv /\ EInv /\ [Next]_vars => (FInv /\ EInv)'
  BY TypesStay, OnceStays
<1>3. FInv /\ EInv => PacketsSound
  <2>1. EInv => EncryptedOnce
    BY DEF EInv, Once, Again, CameEncrypted, EncryptedOnce
  <2> QED
    BY <2>1, TypesHold DEF PacketsSound
<1> QED
  BY <1>1, <1>2, <1>3, PTL DEF Spec

(* --- Treated as configured ----------------------------------------------------------- *)
(* What the stages behind a thread's have seen to, if the configuration is *)
(* the same still.                                                         *)
Masked(p, k) == Overload /\ NATOutside(p) /\ static = <<>> => k.src \notin Inside
Permitted(p, k) == \E x \in Payload(k) : EvaluateACL(OutboundACL(p), x)
Tunnelled(p, k) == k.kind = "esp" \/ MatchCryptoTunnel(p, k) = {}
TreatedSoFar(w) ==
    w.pkt.id \notin touched =>
        /\ w.at \in {"out", "crypto", "arp"} => Masked(w.out, w.pkt)
        /\ w.at = "crypto" => EvaluateACL(OutboundACL(w.out), w.pkt)
        /\ w.at = "arp" => Permitted(w.out, w.pkt) /\ Tunnelled(w.out, w.pkt)
TInv == \A t \in Threads : TreatedSoFar(work[t])

LEMMA TreatmentStays ==
    ASSUME Stay
    PROVE  \A w : TreatedSoFar(w) => TreatedSoFar(w)'
<1>1. UNCHANGED <<IfacePolicies, acl, static, Overload, CryptoMap, IfaceCryptoMap, IKEPeers, touched>>
  BY DEF Stay, conf
<1>2. ASSUME NEW a, NEW proto, NEW k
      PROVE  FirstMatchPermits(a, proto, k)' <=> FirstMatchPermits(a, proto, k)
  BY <1>1 DEF FirstMatchPermits
<1>3. ASSUME NEW p, NEW k
      PROVE  /\ Masked(p, k)' <=> Masked(p, k)
             /\ EvaluateACL(OutboundACL(p), k)' <=> EvaluateACL(OutboundACL(p), k)
  <2>1. OutboundACL(p)' = OutboundACL(p)
    BY <1>1 DEF OutboundACL
  <2>2. ASSUME NEW a PROVE EvaluateACL(a, k)' <=> EvaluateACL(a, k)
    BY <1>2 DEF EvaluateACL
  <2> QED
    BY <1>1, <1>2, <2>1 DEF Masked, NATOutside, EvaluateACL
<1>4. ASSUME NEW e, NEW k
      PROVE  Interesting(e, k)' <=> Interesting(e, k)
  BY <1>2 DEF Interesting
<1>5. ASSUME NEW p, NEW k
      PROVE  MatchCryptoTunnel(p, k)' = MatchCryptoTunnel(p, k)
  BY <1>1, <1>4 DEF MatchCryptoTunnel
<1>6. ASSUME NEW p, NEW k
      PROVE  (Permitted(p, k)' <=> Permitted(p, k)) /\ (Tunnelled(p, k)' <=> Tunnelled(p, k))
  BY <1>3, <1>5 DEF Permitted, Tunnelled
<1> QED
  BY <1>1, <1>3, <1>6 DEF TreatedSoFar

LEMMA TreatedMoves ==
    ASSUME FInv, TInv, Stay, NEW t \in Threads, NEW w, GoOn(t, w), TreatedSoFar(w)
    PROVE  TInv'
<1>1. DOMAIN work = Threads
  BY DEF FInv, PacketsOK
<1>2. \A u \in Threads : TreatedSoFar(work'[u])
  BY <1>1 DEF GoOn, TInv
<1>3. ASSUME NEW u \in Threads PROVE TreatedSoFar(work[u])'
  <2>1. PICK x : x = work'[u]
    OBVIOUS
  <2>2. TreatedSoFar(x)'
    BY <1>2, <2>1, TreatmentStays
  <2> QED
    BY <2>1, <2>2 DEF TreatedSoFar
<1> QED
  BY <1>3 DEF TInv

LEMMA OutputTreated ==
    ASSUME FInv, TInv, NEW t \in Threads, NatOut(t) \/ AclOut(t) \/ Encrypt(t)
    PROVE  TInv'
<1>0. PICK Q : PacketsOK(Q)
  BY DEF FInv
<1>w. PICK w : w = work[t]
  OBVIOUS
<1>1. Stay /\ TreatedSoFar(w)
  BY <1>w DEF NatOut, AclOut, Encrypt, TInv
<1>2. w \in Outgoing(Q) /\ w.pkt \in Q /\ Closed(Q) /\ ConfOK /\ TablesOK
  BY <1>0, <1>w, WorkAt DEF NatOut, AclOut, Encrypt, Outgoing, PacketsOK, FInv
<1>m. ASSUME NEW v, GoOn(t, v), TreatedSoFar(v) PROVE TInv'
  BY <1>1, <1>m, TreatedMoves
<1>3. CASE NatOut(t)
  <2>1. PICK r \in TranslateOutbound(w.out, w.pkt) : GoOn(t, [w EXCEPT !.at = "out", !.pkt = r[1]])
    BY <1>3, <1>w DEF NatOut
  <2>2. Closed(Q \cup {r[1]}) /\ (NATOutside(w.out) /\ Overload /\ static = <<>> => r[1].src \in OutsideIPs)
    BY <1>2, <2>1, OutboundOK
  <2>3. Masked(w.out, r[1])
    BY <2>2, AssumptionParts DEF Masked, OutsideIPs
  <2>4. TreatedSoFar([w EXCEPT !.at = "out", !.pkt = r[1]])
    BY <1>2, <2>3 DEF TreatedSoFar, Outgoing
  <2> QED
    BY <1>m, <2>1, <2>4
<1>4. CASE AclOut(t)
  <2>1. \/ GoOn(t, Idle)
        \/ EvaluateACL(OutboundACL(w.out), w.pkt) /\ GoOn(t, [w EXCEPT !.at = "crypto"])
    BY <1>4, <1>w DEF AclOut
  <2>2. TreatedSoFar(Idle)
    BY DEF TreatedSoFar, Idle
  <2>3. ASSUME EvaluateACL(OutboundACL(w.out), w.pkt)
        PROVE  TreatedSoFar([w EXCEPT !.at = "crypto"])
    <3>2. w.at = "out"
      BY <1>4, <1>w DEF AclOut, At
    <3>3. PICK v : v = [w EXCEPT !.at = "crypto"]
      OBVIOUS
    <3>4. v.at = "crypto" /\ v.pkt = w.pkt /\ v.out = w.out
      BY <1>2, <3>3 DEF Outgoing
    <3> QED
      BY <1>1, <2>3, <3>2, <3>3, <3>4 DEF TreatedSoFar
  <2> QED
    BY <1>m, <2>1, <2>2, <2>3
<1>5. CASE Encrypt(t)
  <2>a. w.at = "crypto"
    BY <1>5, <1>w DEF Encrypt, At
  <2>1. \/ MatchCryptoTunnel(w.out, w.pkt) = {} /\ GoOn(t, [w EXCEPT !.at = "arp"])
        \/ \E peer \in MatchCryptoTunnel(w.out, w.pkt) :
              GoOn(t, [w EXCEPT !.at = "arp", !.hop = peer, !.pkt = EncapsulateESP(w.pkt, peer, w.out)])
    BY <1>5, <1>w DEF Encrypt
  <2>2. ASSUME MatchCryptoTunnel(w.out, w.pkt) = {}
        PROVE  TreatedSoFar([w EXCEPT !.at = "arp"])
    <3>1. PICK v : v = [w EXCEPT !.at = "arp"]
      OBVIOUS
    <3>2. v.at = "arp" /\ v.pkt = w.pkt /\ v.out = w.out
      BY <1>2, <3>1 DEF Outgoing
    <3>3. Tunnelled(w.out, w.pkt) /\ (EvaluateACL(OutboundACL(w.out), w.pkt) => Permitted(w.out, w.pkt))
      BY <2>2 DEF Tunnelled, Permitted, Payload
    <3> QED
      BY <1>1, <2>a, <3>1, <3>2, <3>3 DEF TreatedSoFar
  <2>3. ASSUME NEW peer \in MatchCryptoTunnel(w.out, w.pkt), NEW x, x = EncapsulateESP(w.pkt, peer, w.out)
        PROVE  TreatedSoFar([w EXCEPT !.at = "arp", !.hop = peer, !.pkt = x])
    <3>1. peer \in Addrs /\ w.out \in Ports /\ w.out \in Uplinks
      BY <1>2, TunnelOK
    <3>2. /\ Closed(Q \cup {x})
          /\ x.id = w.pkt.id /\ x.kind = "esp" /\ x.inner = <<w.pkt>> /\ x.src = IfAddr[w.out]
      <4>1. Wraps(Q, w.pkt, w.out, x)
        BY <1>2, <2>3, <3>1, Wrap
      <4> QED
        BY <4>1 DEF Wraps
    <3>i. IfAddr[w.out] \notin Inside
      BY <3>1, AssumptionParts
    <3>3. Masked(w.out, x) /\ Tunnelled(w.out, x)
      BY <3>2, <3>i DEF Masked, Tunnelled
    <3>4. PICK v : v = [w EXCEPT !.at = "arp", !.hop = peer, !.pkt = x]
      OBVIOUS
    <3>5. v.at = "arp" /\ v.pkt = x /\ v.out = w.out
      BY <1>2, <3>4 DEF Outgoing
    <3>6. w.pkt \in Payload(x)
      BY <3>2 DEF Payload
    <3>7. EvaluateACL(OutboundACL(w.out), w.pkt) => Permitted(w.out, x)
      BY <3>6 DEF Permitted
    <3> QED
      BY <1>1, <2>a, <3>2, <3>3, <3>4, <3>5, <3>7 DEF TreatedSoFar
  <2> QED
    BY <1>m, <2>1, <2>2, <2>3
<1> QED
  BY <1>3, <1>4, <1>5

(* Before the output stages there is nothing to have seen to.              *)
LEMMA EarlyTreated ==
    ASSUME NEW w, w.at \in {"idle", "rx", "in", "route", "nat"}
    PROVE  TreatedSoFar(w)
  BY DEF TreatedSoFar

LEMMA InputTreated ==
    ASSUME FInv, TInv,
           \/ DeliverToRouter \/ NatIn \/ HandleRouterIP \/ ForwardQueued \/ StartPing
           \/ \E t \in Threads : Route(t) \/ Send(t) \/ Queue(t)
    PROVE  TInv'
<1>0. PICK Q : PacketsOK(Q)
  BY DEF FInv
<1>t. Loop \in Threads /\ Conn \in Threads
  BY DEF Threads
<1>1. Stay
  BY DEF DeliverToRouter, NatIn, HandleRouterIP, ForwardQueued, StartPing, Route, Send, Queue
<1>m. ASSUME NEW t \in Threads, NEW w, GoOn(t, w), w.at \in {"idle", "rx", "in", "route", "nat"} PROVE TInv'
  BY <1>1, <1>m, TreatedMoves, EarlyTreated
<1>2. CASE UNCHANGED work
  BY <1>1, <1>2, TreatmentStays DEF TInv
<1>3. CASE \E t \in Threads : Done(t)
  <2>1. Idle.at = "idle"
    BY DEF Idle
  <2> QED
    BY <1>3, <1>m, <2>1 DEF Done
<1>4. CASE \E t \in Threads : \E k : ToRoute(t, k)
  <2>1. \A k : [at |-> "route", pkt |-> k].at = "route"
    OBVIOUS
  <2> QED
    BY <1>4, <1>m, <2>1 DEF ToRoute
<1>5. CASE \E f \in rx : GoOn(Loop, [at |-> "rx", pkt |-> f.pkt, port |-> f.port])
  BY <1>5, <1>m, <1>t
<1>6. CASE NatIn
  <2>1. work[Loop] \in Incoming(Q)
    BY <1>0, <1>6, <1>t, WorkAt DEF NatIn
  <2>2. PICK k : GoOn(Loop, [work[Loop] EXCEPT !.at = "in", !.pkt = k])
    BY <1>6 DEF NatIn
  <2>3. PICK v : v = [work[Loop] EXCEPT !.at = "in", !.pkt = k]
    OBVIOUS
  <2>4. v.at = "in"
    BY <2>1, <2>3 DEF Incoming
  <2> QED
    BY <1>m, <1>t, <2>2, <2>3, <2>4
<1>7. CASE \E t \in Threads : \E k, p, h : GoOn(t, [at |-> "nat", pkt |-> k, out |-> p, hop |-> h])
  <2>1. \A k, p, h : [at |-> "nat", pkt |-> k, out |-> p, hop |-> h].at = "nat"
    OBVIOUS
  <2> QED
    BY <1>7, <1>m, <2>1
<1>8. DeliverToRouter => \/ Done(Loop)
                          \/ \E f \in rx : GoOn(Loop, [at |-> "rx", pkt |-> f.pkt, port |-> f.port])
  BY DEF DeliverToRouter, Done
<1>9. HandleRouterIP => Done(Loop) \/ \E k : ToRoute(Loop, k)
  BY Zenon DEF HandleRouterIP
<1>10. ForwardQueued => \E k : ToRoute(Loop, k)
  BY DEF ForwardQueued
<1>11. StartPing => UNCHANGED work \/ \E k : ToRoute(Conn, k)
  BY DEF StartPing
<1>12. ASSUME NEW t \in Threads
       PROVE  /\ Route(t) => Done(t) \/ \E k, p, h : GoOn(t, [at |-> "nat", pkt |-> k, out |-> p, hop |-> h])
              /\ Send(t) \/ Queue(t) => Done(t)
  BY DEF Route, Send, Queue
<1> QED
  BY <1>t, <1>2, <1>3, <1>4, <1>5, <1>6, <1>7, <1>8, <1>9, <1>10, <1>11, <1>12

(* A packet under way during a change may be treated either way.           *)
LEMMA ChangeTreated ==
    ASSUME TInv, touched' = touched \cup UnderWay, UNCHANGED work
    PROVE  TInv'
<1> SUFFICES ASSUME NEW t \in Threads PROVE TreatedSoFar(work[t])'
  BY DEF TInv
<1>1. CASE At(t, "idle")
  BY <1>1 DEF At, TreatedSoFar
<1>2. CASE ~At(t, "idle")
  BY <1>2 DEF At, TreatedSoFar, UnderWay
<1> QED
  BY <1>1, <1>2

LEMMA TreatmentKept == FInv /\ TInv /\ [Next]_vars => TInv'
<1> SUFFICES ASSUME FInv, TInv, [Next]_vars PROVE TInv'
  OBVIOUS
<1>1. CASE UNCHANGED vars
  <2>1. Stay /\ UNCHANGED work
    BY <1>1 DEF vars, conf, Stay
  <2> QED
    BY <2>1, TreatmentStays DEF TInv
<1>2. CASE HandleRouterARP
  <2>1. Stay /\ UNCHANGED work
    BY <1>2 DEF HandleRouterARP
  <2> QED
    BY <2>1, TreatmentStays DEF TInv
<1>3. CASE Configure
  BY <1>3, ConfiguresApart, ChangeTreated DEF Edit, NoPacket
<1>4. ASSUME NEW peer \in installing, InstallVPNRoutes(peer) PROVE TInv'
  BY <1>4, ChangeTreated DEF InstallVPNRoutes, NoPacket
<1>5. ASSUME NEW t \in Threads, Route(t) \/ NatOut(t) \/ AclOut(t) \/ Encrypt(t) \/ Send(t) \/ Queue(t)
      PROVE  TInv'
  BY <1>5, OutputTreated, InputTreated
<1> QED
  BY <1>1, <1>2, <1>3, <1>4, <1>5, InputTreated DEF Next

LEMMA OnlySendSends ==
    ASSUME [Next]_vars, NEW f \in sent' \ sent
    PROVE  \E t \in Threads : Send(t)
<1>1. UNCHANGED vars => sent' = sent
  BY DEF vars
<1>2. Configure \/ (\E peer \in installing : InstallVPNRoutes(peer)) => sent' = sent
  BY ConfiguresApart DEF InstallVPNRoutes, NoPacket
<1>3. DeliverToRouter \/ NatIn \/ HandleRouterIP \/ HandleRouterARP \/ ForwardQueued \/ StartPing => sent' = sent
  BY DEF DeliverToRouter, NatIn, HandleRouterIP, HandleRouterARP, ForwardQueued, StartPing, NoOutput
<1>4. \A t \in Threads : Route(t) \/ NatOut(t) \/ AclOut(t) \/ Encrypt(t) \/ Queue(t) => sent' = sent
  BY DEF Route, NatOut, AclOut, Encrypt, Queue, NoOutput
<1> QED
  BY <1>1, <1>2, <1>3, <1>4 DEF Next

LEMMA SentAsTreated ==
    ASSUME TInv, [Next]_vars, NEW f \in sent' \ sent, f.pkt.id \notin touched
    PROVE  /\ IsInterfaceUp(f.port)
           /\ \E k \in Payload(f.pkt) : EvaluateACL(OutboundACL(f.port), k)
           /\ Overload /\ NATOutside(f.port) /\ static = <<>> => f.pkt.src \notin Inside
           /\ f.pkt.kind = "esp" \/ MatchCryptoTunnel(f.port, f.pkt) = {}
<1>2. PICK t \in Threads : Send(t)
  BY OnlySendSends
<1>w. PICK w : w = work[t]
  OBVIOUS
<1>3. f = [port |-> w.out, pkt |-> w.pkt] /\ IsInterfaceUp(f.port)
  BY <1>2, <1>w DEF Send
<1>4. f.port = w.out /\ f.pkt = w.pkt
  BY <1>3
<1>5. w.at = "arp" /\ TreatedSoFar(w)
  BY <1>2, <1>w DEF Send, At, TInv
<1> QED
  BY <1>3, <1>4, <1>5 DEF TreatedSoFar, Masked, Permitted, Tunnelled

(* A frame is sent as the configuration has it at that moment, unless it   *)
(* changed while the packet was on the way: by a port that is up, let      *)
(* through by the list in clear, masked by PAT and encrypted.              *)
THEOREM TreatmentIsKept == Spec => TreatedAsConfigured
<1>1. Init => FInv /\ TInv
  <2>1. Init => TInv
    BY DEF Init, TInv, TreatedSoFar, Idle
  <2> QED
    BY <2>1, InitTypes
<1>2. FInv /\ TInv /\ [Next]_vars => (FInv /\ TInv)'
  BY TypesStay, TreatmentKept
<1>3. TInv /\ [Next]_vars =>
        [\A f \in sent' \ sent : f.pkt.id \notin touched =>
          /\ IsInterfaceUp(f.port)
          /\ \E k \in Payload(f.pkt) : EvaluateACL(OutboundACL(f.port), k)
          /\ Overload /\ NATOutside(f.port) /\ static = <<>> => f.pkt.src \notin Inside
          /\ f.pkt.kind = "esp" \/ MatchCryptoTunnel(f.port, f.pkt) = {}]_vars
  BY SentAsTreated
<1> QED
  BY <1>1, <1>2, <1>3, PTL DEF Spec, TreatedAsConfigured

(* --- Tunnels swallow their packets ------------------------------------------------------ *)
(* Routes to a port were there before tunnels were negotiated, and a       *)
(* tunnel in use has its route to none.                                    *)
RoutesInv ==
    /\ \A i \in DOMAIN RoutingTable : RoutingTable[i].port # NoPort =>
          \E j \in DOMAIN Routes0 : RoutingTable[i] = Routes0[j]
    /\ \A peer \in DOMAIN IKEPeers \ installing : IKEPeers[peer] # {} =>
          \E i \in DOMAIN RoutingTable : /\ RoutingTable[i].net = IKEPeers[peer]
                                         /\ RoutingTable[i].port = NoPort
                                         /\ RoutingTable[i].dist = 1

(* A packet with a port to leave by is for no tunnel in use, an ESP packet *)
(* carries none that is.                                                   *)
ForOthers(k) == \A c \in Payload(k) : c.kind # "esp" => ~Swallowed(c.dst)
Passed(k) == k.id \in touched \/ PassesThrough(k) \/ ForOthers(k)
Ready(k) == k.kind = "esp" => Passed(k)
PassedAt(w) ==
    /\ w.at \in {"rx", "in"} => (w.pkt.kind = "esp" => CameEncrypted(w.pkt.id))
    /\ w.at \in {"route", "nat", "out", "crypto", "arp"} => Ready(w.pkt)
    /\ w.at \in {"nat", "out", "crypto", "arp"} => (w.out \in Ports => Passed(w.pkt))
AllReady(q) == \A i \in DOMAIN q : Ready(q[i])

SInv ==
    /\ RoutesInv
    /\ \A f \in rx : f.pkt.kind = "esp" => CameEncrypted(f.pkt.id)
    /\ \A t \in Threads : PassedAt(work[t])
    /\ AllReady(backlog)
    /\ \A a \in Addrs : AllReady(PacketQueue[a])

(* The route by which a packet leaves is preferred to that of a tunnel.    *)
LEMMA LeavesByOwnRoute ==
    ASSUME ConfOK, RoutesInv, NEW a, NEW r \in MatchRoute(a), r.port \in Ports
    PROVE  ~Swallowed(a)
<1> SUFFICES ASSUME NEW peer \in DOMAIN IKEPeers \ installing, a \in IKEPeers[peer]
             PROVE  Preferred(a, IKEPeers[peer])
  BY DEF Swallowed
<1>1. PICK n : n = IKEPeers[peer]
  OBVIOUS
<1>t. RoutingTable \in Seq(Route0) /\ DOMAIN RoutingTable = 1 .. Len(RoutingTable)
  BY DEF ConfOK
<1>2. PICK e \in DOMAIN RoutingTable :
          RoutingTable[e].net = n /\ RoutingTable[e].port = NoPort /\ RoutingTable[e].dist = 1
  BY <1>1 DEF RoutesInv
<1>m. a \in RoutingTable[e].net /\ e \in 1 .. Len(RoutingTable)
  BY <1>1, <1>2, <1>t
<1>3. PICK i \in 1 .. Len(RoutingTable) :
          /\ r = RoutingTable[i] /\ a \in RoutingTable[i].net
          /\ \A j \in {j \in 1 .. Len(RoutingTable) : a \in RoutingTable[j].net} \ {i} :
               \/ PrefixLen[RoutingTable[i].net] > PrefixLen[RoutingTable[j].net]
               \/ /\ PrefixLen[RoutingTable[i].net] = PrefixLen[RoutingTable[j].net]
                  /\ RoutingTable[i].dist < RoutingTable[j].dist
               \/ /\ PrefixLen[RoutingTable[i].net] = PrefixLen[RoutingTable[j].net]
                  /\ RoutingTable[i].dist = RoutingTable[j].dist /\ i < j
  BY DEF MatchRoute
<1>4. NoPort \notin Ports
  BY AssumptionParts
<1>5. e # i
  BY <1>2, <1>3, <1>4
<1>6. \/ PrefixLen[r.net] > PrefixLen[n]
      \/ PrefixLen[r.net] = PrefixLen[n] /\ (r.dist < 1 \/ r.dist = 1)
  <2>1. e \in {j \in 1 .. Len(RoutingTable) : a \in RoutingTable[j].net} \ {i}
    BY <1>5, <1>m
  <2>2. \/ PrefixLen[RoutingTable[i].net] > PrefixLen[RoutingTable[e].net]
        \/ /\ PrefixLen[RoutingTable[i].net] = PrefixLen[RoutingTable[e].net]
           /\ RoutingTable[i].dist < RoutingTable[e].dist
        \/ /\ PrefixLen[RoutingTable[i].net] = PrefixLen[RoutingTable[e].net]
           /\ RoutingTable[i].dist = RoutingTable[e].dist
    BY <1>3, <2>1, Zenon
  <2> QED
    BY <1>2, <1>3, <2>2, Zenon
<1>7. r.dist \in Nat
  <2>1. r \in Route0
    BY <1>3, <1>t
  <2> QED
    BY <2>1 DEF Route0
<1>8. PICK j \in DOMAIN Routes0 : r = Routes0[j]
  BY <1>3, <1>4, <1>t DEF RoutesInv
<1>9. r.dist < 1 \/ r.dist = 1 => r.dist <= 1
  BY <1>7
<1> QED
  BY <1>1, <1>3, <1>6, <1>8, <1>9 DEF Preferred

(* Readiness is about the packet's shape, tunnels and what was touched.    *)
LEMMA ReadinessStays ==
    ASSUME UNCHANGED <<IKEPeers, installing, traffic, touched>>
    PROVE  /\ \A id : CameEncrypted(id) => CameEncrypted(id)'
           /\ \A k : Passed(k) => Passed(k)'
           /\ \A k : Ready(k) => Ready(k)'
           /\ \A w : PassedAt(w) => PassedAt(w)'
           /\ \A q : AllReady(q) => AllReady(q)'
<1>1. \A id : CameEncrypted(id)' <=> CameEncrypted(id)
  BY DEF CameEncrypted
<1>2. \A a : Swallowed(a)' <=> Swallowed(a)
  BY DEF Swallowed, Preferred
<1>3. \A k : PassesThrough(k)' <=> PassesThrough(k)
  BY <1>1 DEF PassesThrough
<1>4. \A k : ForOthers(k)' <=> ForOthers(k)
  BY <1>2 DEF ForOthers, Payload
<1>5. \A k : Passed(k)' <=> Passed(k)
  BY <1>3, <1>4 DEF Passed
<1>6. \A k : Ready(k)' <=> Ready(k)
  BY <1>5 DEF Ready
<1> QED
  BY <1>1, <1>5, <1>6 DEF PassedAt, AllReady

(* A thread goes on with a packet that is as far as it should be.          *)
LEMMA PassedMoves ==
    ASSUME FInv, SInv, Stay, NEW t \in Threads, NEW w, GoOn(t, w), PassedAt(w),
           UNCHANGED <<backlog, PacketQueue>>,
           \A f \in rx' : f.pkt.kind = "esp" => CameEncrypted(f.pkt.id)
    PROVE  SInv'
<1>1. DOMAIN work = Threads
  BY DEF FInv, PacketsOK
<1>2. \A u \in Threads : PassedAt(work'[u])
  BY <1>1 DEF GoOn, SInv
<1>3. UNCHANGED <<RoutingTable, IKEPeers, installing, traffic, touched>>
  BY DEF Stay
<1>4. ASSUME NEW u \in Threads PROVE PassedAt(work[u])'
  <2>1. PICK x : x = work'[u]
    OBVIOUS
  <2>2. PassedAt(x)'
    BY <1>2, <1>3, <2>1, ReadinessStays
  <2> QED
    BY <2>1, <2>2 DEF PassedAt
<1>5. AllReady(backlog)' /\ (\A a \in Addrs : AllReady(PacketQueue[a]))'
  <2>1. \A q : AllReady(q) => AllReady(q)'
    BY <1>3, ReadinessStays
  <2>2. PICK b, pq : b = backlog /\ pq = PacketQueue
    OBVIOUS
  <2>3. AllReady(b)' /\ \A a \in Addrs : AllReady(pq[a])'
    BY <2>1, <2>2 DEF SInv
  <2> QED
    BY <2>2, <2>3 DEF AllReady
<1>6. (\A f \in rx : f.pkt.kind = "esp" => CameEncrypted(f.pkt.id))'
  BY <1>3 DEF CameEncrypted
<1>7. RoutesInv'
  BY <1>3 DEF SInv, RoutesInv
<1> QED
  BY <1>4, <1>5, <1>6, <1>7 DEF SInv

LEMMA InitPassed == Init => SInv
<1> SUFFICES ASSUME Init PROVE SInv
  OBVIOUS
<1>1. DOMAIN <<>> = {}
  OBVIOUS
<1>3. RoutesInv
  BY <1>1 DEF Init, RoutesInv
<1>4. \A f \in rx : f.pkt.kind = "esp" => CameEncrypted(f.pkt.id)
  BY DEF Init, CameEncrypted
<1>5. \A t \in Threads : PassedAt(work[t])
  BY DEF Init, PassedAt, Idle
<1>6. AllReady(backlog) /\ \A a \in Addrs : AllReady(PacketQueue[a])
  BY <1>1 DEF Init, AllReady
<1> QED
  BY <1>3, <1>4, <1>5, <1>6 DEF SInv

(* What comes in encrypted goes on as such, or what it carries does.       *)
LEMMA ArrivalPassed ==
    ASSUME FInv, SInv, DeliverToRouter \/ NatIn \/ HandleRouterIP
    PROVE  SInv'
<1>0. PICK Q : PacketsOK(Q)
  BY DEF FInv
<1>t. Loop \in Threads
  BY DEF Threads
<1>i. PassedAt(Idle)
  BY DEF PassedAt, Idle
<1>u. Stay /\ UNCHANGED <<backlog, PacketQueue>> /\ rx' \subseteq rx
  BY DEF DeliverToRouter, NatIn, HandleRouterIP, NoOutput
<1>m. ASSUME NEW w, GoOn(Loop, w), PassedAt(w) PROVE SInv'
  <2>1. \A f \in rx' : f.pkt.kind = "esp" => CameEncrypted(f.pkt.id)
    BY <1>u DEF SInv
  <2> QED
    BY <1>m, <1>t, <1>u, <2>1, PassedMoves
<1>1. CASE DeliverToRouter
  <2>1. PICK f \in rx :
          GoOn(Loop, IF IsInterfaceUp(f.port) THEN [at |-> "rx", pkt |-> f.pkt, port |-> f.port] ELSE Idle)
    BY <1>1 DEF DeliverToRouter
  <2>2. PassedAt([at |-> "rx", pkt |-> f.pkt, port |-> f.port])
    BY DEF SInv, PassedAt
  <2> QED
    BY <1>i, <1>m, <2>1, <2>2
<1>2. CASE NatIn
  <2>w. PICK w : w = work[Loop]
    OBVIOUS
  <2>1. PICK k \in TranslateInbound(w.port, w.pkt) : GoOn(Loop, [w EXCEPT !.at = "in", !.pkt = k])
    BY <1>2, <2>w DEF NatIn
  <2>2. w \in Incoming(Q) /\ w.at = "rx" /\ PassedAt(w)
    BY <1>0, <1>2, <1>t, <2>w, WorkAt DEF NatIn, At, SInv
  <2>p. w.port \in Ports /\ w.pkt \in Q /\ Closed(Q) /\ ConfOK /\ TablesOK
    BY <1>0, <2>2 DEF FInv, PacketsOK, Incoming
  <2>k. k \in TranslateInbound(w.port, w.pkt)
    BY <2>1
  <2>3. k.id = w.pkt.id /\ k.kind = w.pkt.kind
    BY <2>k, <2>p, InboundKeeps
  <2>4. w.pkt.kind = "esp" => CameEncrypted(w.pkt.id)
    BY <2>2 DEF PassedAt
  <2>5. PICK v : v = [w EXCEPT !.at = "in", !.pkt = k]
    OBVIOUS
  <2>6. v.at = "in" /\ v.pkt = k
    BY <2>2, <2>5 DEF Incoming
  <2>7. PassedAt(v)
    BY <2>3, <2>4, <2>6 DEF PassedAt
  <2> QED
    BY <1>m, <2>1, <2>5, <2>7
<1>3. CASE HandleRouterIP
  <2>k. PICK k : k = work[Loop].pkt
    OBVIOUS
  <2>1. k \in Q /\ (k.kind = "esp" => CameEncrypted(k.id))
    BY <1>0, <1>3, <1>t, <2>k, WorkAt DEF HandleRouterIP, At, Incoming, SInv, PassedAt
  <2>2. ASSUME NEW x, x.kind = "esp" => CameEncrypted(x.id), ToRoute(Loop, x)
        PROVE  SInv'
    <3>1. PassedAt([at |-> "route", pkt |-> x])
      BY <2>2 DEF PassedAt, Ready, Passed, PassesThrough
    <3> QED
      BY <1>m, <2>2, <3>1 DEF ToRoute
  <2>4. ASSUME NEW x \in DecapsulateESP(k), k.kind = "esp" PROVE x.kind = "esp" => CameEncrypted(x.id)
    BY <1>0, <2>1, <2>4 DEF DecapsulateESP, PacketsOK, Closed
  <2>5. Packet(k.id, k.dst, k.src, "reply", 64).kind # "esp"
    BY DEF Packet
  <2>6. ASSUME NEW x, x = [k EXCEPT !.ttl = @ - 1] PROVE x.kind = "esp" => CameEncrypted(x.id)
    <3>1. k = [id |-> k.id, src |-> k.src, dst |-> k.dst, kind |-> k.kind, ttl |-> k.ttl, inner |-> k.inner]
      BY <1>0, <2>1 DEF PacketsOK, Closed, IsPacket, Packet
    <3> QED
      BY <2>1, <2>6, <3>1
  <2>7. \/ Done(Loop)
        \/ k.kind = "esp" /\ \E inner \in DecapsulateESP(k) : ToRoute(Loop, inner)
        \/ ToRoute(Loop, Packet(k.id, k.dst, k.src, "reply", 64))
        \/ ToRoute(Loop, [k EXCEPT !.ttl = @ - 1])
    BY <1>3, <2>k, Zenon DEF HandleRouterIP
  <2>8. CASE Done(Loop)
    BY <2>8, <1>m, <1>i DEF Done
  <2>9. CASE k.kind = "esp" /\ \E inner \in DecapsulateESP(k) : ToRoute(Loop, inner)
    BY <2>9, <2>2, <2>4
  <2>10. CASE ToRoute(Loop, Packet(k.id, k.dst, k.src, "reply", 64))
    BY <2>10, <2>2, <2>5
  <2>11. CASE ToRoute(Loop, [k EXCEPT !.ttl = @ - 1])
    BY <2>11, <2>2, <2>6
  <2> QED
    BY <2>7, <2>8, <2>9, <2>10, <2>11
<1> QED
  BY <1>1, <1>2, <1>3

(* The route decides, translation keeps the destination, and encryption    *)
(* keeps the packet inside.                                                *)
LEMMA OutputPassed ==
    ASSUME FInv, SInv, NEW t \in Threads, Route(t) \/ NatOut(t) \/ AclOut(t) \/ Encrypt(t)
    PROVE  SInv'
<1>0. PICK Q : PacketsOK(Q)
  BY DEF FInv
<1>i. PassedAt(Idle)
  BY DEF PassedAt, Idle
<1>w. PICK w : w = work[t]
  OBVIOUS
<1>k. PassedAt(w)
  BY <1>w DEF SInv
<1>f. ConfOK /\ TablesOK /\ RoutesInv
  BY DEF FInv, SInv
<1>u. Stay /\ UNCHANGED <<rx, backlog, PacketQueue>>
  BY DEF Route, NatOut, AclOut, Encrypt, NoOutput
<1>m. ASSUME NEW v, GoOn(t, v), PassedAt(v) PROVE SInv'
  <2>1. \A f \in rx' : f.pkt.kind = "esp" => CameEncrypted(f.pkt.id)
    BY <1>u DEF SInv
  <2> QED
    BY <1>m, <1>u, <2>1, PassedMoves
<1>1. CASE Route(t)
  <2>k. PICK k : k = w.pkt
    OBVIOUS
  <2>0. Ready(k)
    BY <1>1, <1>w, <1>k, <2>k DEF Route, At, PassedAt
  <2>1. \/ GoOn(t, Idle)
        \/ \E r \in MatchRoute(k.dst) :
              GoOn(t, [at |-> "nat", pkt |-> k, out |-> r.port, hop |-> IF r.hop = None THEN k.dst ELSE r.hop])
    BY <1>1, <1>w, <2>k DEF Route, Done
  <2>2. ASSUME NEW r \in MatchRoute(k.dst), NEW h
        PROVE  PassedAt([at |-> "nat", pkt |-> k, out |-> r.port, hop |-> h])
    <3>1. ASSUME r.port \in Ports PROVE Passed(k)
      <4>1. ~Swallowed(k.dst)
        BY <1>f, <3>1, LeavesByOwnRoute
      <4>2. k.kind # "esp" => ForOthers(k)
        BY <4>1 DEF ForOthers, Payload
      <4> QED
        BY <2>0, <4>2 DEF Ready, Passed
    <3> QED
      BY <2>0, <3>1 DEF PassedAt
  <2> QED
    BY <1>i, <1>m, <2>1, <2>2
<1>2. CASE NatOut(t)
  <2>1. PICK r \in TranslateOutbound(w.out, w.pkt) : GoOn(t, [w EXCEPT !.at = "out", !.pkt = r[1]])
    BY <1>2, <1>w DEF NatOut
  <2>2. w \in Outgoing(Q) /\ w.pkt \in Q /\ Closed(Q) /\ w.at = "nat"
    BY <1>0, <1>2, <1>w, WorkAt DEF NatOut, Outgoing, PacketsOK, At
  <2>r. r \in TranslateOutbound(w.out, w.pkt)
    BY <2>1
  <2>3. /\ Closed(Q \cup {r[1]}) /\ r[1].id = w.pkt.id /\ r[1].kind = w.pkt.kind
        /\ r[1].inner = w.pkt.inner /\ r[1].dst = w.pkt.dst
    <3>1. ASSUME NEW p, NEW x \in Q, NEW z \in TranslateOutbound(p, x)
          PROVE  /\ Closed(Q \cup {z[1]}) /\ z[1].id = x.id /\ z[1].kind = x.kind
                 /\ z[1].inner = x.inner /\ z[1].dst = x.dst
      <4>1. Closed(Q)
        BY <2>2
      <4> QED
        BY <4>1, <1>f, OutboundOK
    <3> QED
      BY <2>r, <2>2, <3>1
  <2>4. PICK x, y : x = w.pkt /\ y = r[1]
    OBVIOUS
  <2>5. ForOthers(x) => ForOthers(y)
    BY <2>3, <2>4 DEF ForOthers, Payload
  <2>6. Passed(x) => Passed(y)
    BY <2>3, <2>4, <2>5 DEF Passed, PassesThrough
  <2>7. PICK v : v = [w EXCEPT !.at = "out", !.pkt = r[1]]
    OBVIOUS
  <2>8. v.at = "out" /\ v.pkt = y /\ v.out = w.out
    BY <2>2, <2>4, <2>7 DEF Outgoing
  <2>9. Ready(x) /\ (w.out \in Ports => Passed(x))
    BY <1>k, <2>2, <2>4 DEF PassedAt
  <2>10. Ready(y) /\ (w.out \in Ports => Passed(y))
    BY <2>3, <2>4, <2>6, <2>9 DEF Ready
  <2>11. PassedAt(v)
    BY <2>8, <2>10 DEF PassedAt
  <2> QED
    BY <1>m, <2>1, <2>7, <2>11
<1>3. CASE AclOut(t)
  <2>1. w \in Outgoing(Q) /\ w.at = "out"
    BY <1>0, <1>3, <1>w, WorkAt DEF AclOut, At
  <2>2. GoOn(t, Idle) \/ GoOn(t, [w EXCEPT !.at = "crypto"])
    BY <1>3, <1>w DEF AclOut
  <2>3. PICK v : v = [w EXCEPT !.at = "crypto"]
    OBVIOUS
  <2>4. v.at = "crypto" /\ v.pkt = w.pkt /\ v.out = w.out
    BY <2>1, <2>3 DEF Outgoing
  <2>5. PassedAt(v)
    BY <1>k, <2>1, <2>4 DEF PassedAt
  <2> QED
    BY <1>i, <1>m, <2>2, <2>3, <2>5
<1>4. CASE Encrypt(t)
  <2>1. w \in Outgoing(Q) /\ w.pkt \in Q /\ Closed(Q) /\ w.at = "crypto"
    BY <1>0, <1>4, <1>w, WorkAt DEF Encrypt, Outgoing, PacketsOK, At
  <2>2. \/ GoOn(t, [w EXCEPT !.at = "arp"])
        \/ \E peer \in MatchCryptoTunnel(w.out, w.pkt) :
              GoOn(t, [w EXCEPT !.at = "arp", !.hop = peer, !.pkt = EncapsulateESP(w.pkt, peer, w.out)])
    BY <1>4, <1>w DEF Encrypt
  <2>p. PICK k : k = w.pkt
    OBVIOUS
  <2>c. Ready(k) /\ (w.out \in Ports => Passed(k))
    BY <1>k, <2>1, <2>p DEF PassedAt
  <2>3. ASSUME NEW v, v = [w EXCEPT !.at = "arp"] PROVE PassedAt(v)
    <3>1. v.at = "arp" /\ v.pkt = k /\ v.out = w.out
      BY <2>1, <2>3, <2>p DEF Outgoing
    <3> QED
      BY <2>c, <3>1 DEF PassedAt
  <2>4. ASSUME NEW peer \in MatchCryptoTunnel(w.out, w.pkt), NEW x, x = EncapsulateESP(w.pkt, peer, w.out),
               NEW v, v = [w EXCEPT !.at = "arp", !.hop = peer, !.pkt = x]
        PROVE  PassedAt(v)
    <3>0. peer \in Addrs /\ w.out \in Ports
      BY <1>f, TunnelOK
    <3>e. x = EncapsulateESP(k, peer, w.out)
      BY <2>4, <2>p
    <3>1. x.id = k.id /\ x.kind = "esp" /\ x.inner = <<k>>
      <4>1. Wraps(Q, k, w.out, x)
        BY <2>1, <2>p, <3>0, <3>e, Wrap
      <4> QED
        BY <4>1 DEF Wraps
    <3>2. Passed(k)
      BY <2>c, <3>0
    <3>3. Passed(x)
      <4>1. CASE k.id \in touched
        BY <3>1, <4>1 DEF Passed
      <4>2. CASE PassesThrough(k)
        BY <3>1, <4>2 DEF Passed, PassesThrough
      <4>3. CASE ForOthers(k)
        <5>1. k \in Payload(k) /\ Payload(x) \subseteq {x, k}
          BY <3>1 DEF Payload
        <5>2. ForOthers(x)
          BY <3>1, <4>3, <5>1 DEF ForOthers
        <5> QED
          BY <5>2 DEF Passed
      <4> QED
        BY <3>2, <4>1, <4>2, <4>3 DEF Passed
    <3>4. v.at = "arp" /\ v.pkt = x /\ v.out = w.out
      BY <2>1, <2>4 DEF Outgoing
    <3> QED
      BY <3>3, <3>4 DEF PassedAt, Ready
  <2> QED
    BY <1>m, <2>2, <2>3, <2>4
<1> QED
  BY <1>1, <1>2, <1>3, <1>4

(* A packet that is queued waits as it is; a server's reply is in clear.   *)
LEMMA SendPassed ==
    ASSUME FInv, SInv, NEW t \in Threads, Send(t) \/ Queue(t)
    PROVE  SInv'
<1>0. PICK Q : PacketsOK(Q)
  BY DEF FInv
<1>i. PassedAt(Idle)
  BY DEF PassedAt, Idle
<1>s. Stay /\ GoOn(t, Idle) /\ UNCHANGED backlog
  BY DEF Send, Queue, Done
<1>1. CASE Send(t)
  <2>1. \A f \in rx' : f \in rx \/ f.pkt.kind = "reply"
    BY <1>1 DEF Send, ServerReplies, Packet
  <2>2. \A f \in rx' : f.pkt.kind = "esp" => CameEncrypted(f.pkt.id)
    BY <2>1 DEF SInv
  <2>3. UNCHANGED PacketQueue
    BY <1>1 DEF Send
  <2> QED
    BY <1>i, <1>s, <2>2, <2>3, PassedMoves
<1>2. CASE Queue(t)
  <2>k. PICK k, h : k = work[t].pkt /\ h = work[t].hop
    OBVIOUS
  <2>1. Ready(k)
    BY <1>2, <2>k DEF Queue, At, SInv, PassedAt
  <2>2. /\ PacketQueue' = [PacketQueue EXCEPT ![h] = Append(PacketQueue[h], k)]
        /\ PacketQueue \in [Addrs -> Seq(Q)] /\ rx' = rx
    BY <1>0, <1>2, <2>k DEF Queue, PacketsOK
  <2>3. UNCHANGED <<RoutingTable, IKEPeers, installing, traffic, touched>>
    BY <1>s DEF Stay
  <2>4. ASSUME NEW a \in Addrs PROVE AllReady(PacketQueue'[a])
    <3>1. AllReady(PacketQueue[a]) /\ PacketQueue[a] \in Seq(Q)
      BY <2>2 DEF SInv
    <3>2. PacketQueue'[a] = PacketQueue[a] \/ PacketQueue'[a] = Append(PacketQueue[a], k)
      BY <2>2
    <3>3. AllReady(Append(PacketQueue[a], k))
      <4>1. PICK q : q = PacketQueue[a]
        OBVIOUS
      <4>2. q \in Seq(Q) /\ \A i \in 1 .. Len(q) : Ready(q[i])
        BY <3>1, <4>1 DEF AllReady
      <4>3. ASSUME NEW i \in DOMAIN Append(q, k) PROVE Ready(Append(q, k)[i])
        <5>1. i \in 1 .. Len(q) \/ i = Len(q) + 1
          BY <4>2, <4>3
        <5>2. /\ i \in 1 .. Len(q) => Append(q, k)[i] = q[i]
              /\ i = Len(q) + 1 => Append(q, k)[i] = k
          BY <4>2
        <5> QED
          BY <2>1, <4>2, <5>1, <5>2
      <4> QED
        BY <4>1, <4>3 DEF AllReady
    <3> QED
      BY <3>1, <3>2, <3>3
  <2>5. ASSUME NEW a \in Addrs PROVE AllReady(PacketQueue[a])'
    <3>1. PICK q : q = PacketQueue'[a]
      OBVIOUS
    <3>2. AllReady(q)'
      BY <2>3, <2>4, <3>1, ReadinessStays
    <3> QED
      BY <3>1, <3>2 DEF AllReady
  <2>6. AllReady(backlog)'
    <3>1. PICK q : q = backlog
      OBVIOUS
    <3>2. AllReady(q)'
      BY <2>3, <3>1, ReadinessStays DEF SInv
    <3> QED
      BY <1>s, <3>1, <3>2 DEF AllReady
  <2>7. ASSUME NEW u \in Threads PROVE PassedAt(work[u])'
    <3>1. work'[u] = work[u] \/ work'[u] = Idle
      BY <1>0, <1>s DEF GoOn, PacketsOK
    <3>2. PICK x : x = work'[u]
      OBVIOUS
    <3>3. PassedAt(x)'
      BY <1>i, <2>3, <3>1, <3>2, ReadinessStays DEF SInv
    <3> QED
      BY <3>2, <3>3 DEF PassedAt
  <2>8. (\A f \in rx : f.pkt.kind = "esp" => CameEncrypted(f.pkt.id))'
    BY <2>2, <2>3 DEF SInv, CameEncrypted
  <2>9. RoutesInv'
    BY <2>3 DEF SInv, RoutesInv
  <2> QED
    BY <2>5, <2>6, <2>7, <2>8, <2>9 DEF SInv
<1> QED
  BY <1>1, <1>2

LEMMA QueuedPassed ==
    ASSUME FInv, SInv, HandleRouterARP \/ ForwardQueued \/ StartPing
    PROVE  SInv'
<1>0. PICK Q : PacketsOK(Q)
  BY DEF FInv
<1>t. Loop \in Threads /\ Conn \in Threads
  BY DEF Threads
<1>1. UNCHANGED <<RoutingTable, IKEPeers, installing, traffic, touched, rx>>
  BY DEF HandleRouterARP, ForwardQueued, StartPing, Stay
<1>2. ASSUME NEW q, AllReady(q) PROVE AllReady(q)'
  BY <1>1, <1>2, ReadinessStays
<1>3. RoutesInv' /\ (\A f \in rx : f.pkt.kind = "esp" => CameEncrypted(f.pkt.id))'
  BY <1>1 DEF SInv, RoutesInv, CameEncrypted
<1>4. ASSUME NEW w, PassedAt(w), NEW t \in Threads, work' = [work EXCEPT ![t] = w] \/ UNCHANGED work
      PROVE  (\A u \in Threads : PassedAt(work[u]))'
  <2> SUFFICES ASSUME NEW u \in Threads PROVE PassedAt(work[u])'
    OBVIOUS
  <2>1. work'[u] = work[u] \/ work'[u] = w
    BY <1>0, <1>4 DEF PacketsOK
  <2>2. PICK x : x = work'[u]
    OBVIOUS
  <2>3. PassedAt(x)'
    BY <1>1, <1>4, <2>1, <2>2, ReadinessStays DEF SInv
  <2> QED
    BY <2>2, <2>3 DEF PassedAt
<1>i. PassedAt(Idle)
  BY DEF PassedAt, Idle
<1>5. (\A q : AllReady(q) => AllReady(q)') /\ DOMAIN <<>> = {}
  BY <1>2
<1>6. ASSUME NEW b, b = backlog', AllReady(b),
             NEW pq, pq = PacketQueue', \A a \in Addrs : AllReady(pq[a]),
             (\A u \in Threads : PassedAt(work[u]))'
      PROVE  SInv'
  <2>1. AllReady(b)' /\ \A a \in Addrs : AllReady(pq[a])'
    BY <1>5, <1>6
  <2>2. AllReady(backlog)' /\ (\A a \in Addrs : AllReady(PacketQueue[a]))'
    BY <1>6, <2>1 DEF AllReady
  <2> QED
    BY <1>3, <1>6, <2>2 DEF SInv
<1>7. CASE HandleRouterARP
  <2>1. PICK a \in asked \cap Neighbours :
          backlog' = PacketQueue[a] /\ PacketQueue' = [PacketQueue EXCEPT ![a] = <<>>]
    BY <1>7 DEF HandleRouterARP
  <2>2. a \in Addrs /\ DOMAIN PacketQueue = Addrs
    BY <1>0, AssumptionParts DEF PacketsOK
  <2>3. AllReady(<<>>)
    BY <1>5 DEF AllReady
  <2>4. \A b \in Addrs : PacketQueue'[b] = PacketQueue[b] \/ PacketQueue'[b] = <<>>
    BY <2>1, <2>2
  <2>5. AllReady(backlog') /\ \A b \in Addrs : AllReady(PacketQueue'[b])
    BY <2>1, <2>2, <2>3, <2>4 DEF SInv
  <2>6. UNCHANGED work
    BY <1>7 DEF HandleRouterARP
  <2> QED
    BY <1>4, <1>6, <1>i, <1>t, <2>5, <2>6
<1>8. CASE ForwardQueued
  <2>b. backlog # <<>> /\ backlog \in Seq(Q) /\ AllReady(backlog)
    BY <1>0, <1>8 DEF ForwardQueued, PacketsOK, SInv
  <2>r. \A i \in 1 .. Len(backlog) : Ready(backlog[i])
    BY <2>b DEF AllReady
  <2>1. PICK k : k = Head(backlog)
    OBVIOUS
  <2>2. Ready(k)
    BY <2>b, <2>r, <2>1
  <2>3. work' = [work EXCEPT ![Loop] = [at |-> "route", pkt |-> k]]
        /\ backlog' = Tail(backlog) /\ PacketQueue' = PacketQueue
    BY <1>8, <2>1 DEF ForwardQueued, ToRoute, GoOn, NoOutput
  <2>4. PassedAt([at |-> "route", pkt |-> k])
    BY <2>2 DEF PassedAt
  <2>5. AllReady(Tail(backlog))
    <3>1. \A i \in DOMAIN Tail(backlog) : i + 1 \in 1 .. Len(backlog) /\ Tail(backlog)[i] = backlog[i + 1]
      BY <2>b
    <3> QED
      BY <2>r, <3>1 DEF AllReady
  <2>6. (\A u \in Threads : PassedAt(work[u]))'
    BY <1>4, <1>t, <2>3, <2>4
  <2>7. \A a \in Addrs : AllReady(PacketQueue[a])
    BY DEF SInv
  <2> QED
    BY <1>6, <2>3, <2>5, <2>6, <2>7
<1>9. CASE StartPing
  <2>1. UNCHANGED work \/ \E a, p : ToRoute(Conn, Packet(<<"ping", a>>, IfAddr[p], a, "echo", 64))
    BY <1>9 DEF StartPing
  <2>2. UNCHANGED <<backlog, PacketQueue>> /\ AllReady(backlog) /\ \A a \in Addrs : AllReady(PacketQueue[a])
    BY <1>9 DEF StartPing, NoOutput, SInv
  <2>3. ASSUME NEW a, NEW p, ToRoute(Conn, Packet(<<"ping", a>>, IfAddr[p], a, "echo", 64))
        PROVE  (\A u \in Threads : PassedAt(work[u]))'
    <3>1. PICK w : w = [at |-> "route", pkt |-> Packet(<<"ping", a>>, IfAddr[p], a, "echo", 64)]
      OBVIOUS
    <3>2. work' = [work EXCEPT ![Conn] = w]
      BY <2>3, <3>1 DEF ToRoute, GoOn
    <3>3. PassedAt(w)
      BY <3>1 DEF PassedAt, Ready, Packet
    <3> QED
      BY <1>4, <1>t, <3>2, <3>3
  <2>4. UNCHANGED work => (\A u \in Threads : PassedAt(work[u]))'
    BY <1>4, <1>i, <1>t
  <2> QED
    BY <1>6, <2>1, <2>2, <2>3, <2>4
<1> QED
  BY <1>7, <1>8, <1>9

(* A change touches every packet under way; a tunnel is not in use before  *)
(* its route is there.                                                     *)
LEMMA ChangePassed ==
    ASSUME FInv, SInv, NoPacket, touched' = touched \cup UnderWay, RoutesInv'
    PROVE  SInv'
<1>0. PICK Q : PacketsOK(Q)
  BY DEF FInv
<1>1. UNCHANGED <<traffic, rx, work, backlog, PacketQueue>>
  BY DEF NoPacket
<1>2. \A id : CameEncrypted(id)' <=> CameEncrypted(id)
  BY <1>1 DEF CameEncrypted
<1>3. ASSUME NEW k, k.id \in UnderWay PROVE Passed(k)'
  BY <1>3 DEF Passed
<1>4. ASSUME NEW t \in Threads PROVE PassedAt(work[t])'
  <2>w. PICK w : w = work[t]
    OBVIOUS
  <2>1. CASE w.at = "idle"
    <3>1. PassedAt(w)'
      BY <2>1 DEF PassedAt
    <3> QED
      BY <1>1, <2>w, <3>1 DEF PassedAt
  <2>2. CASE w.at # "idle"
    <3>1. w.pkt.id \in UnderWay
      BY <2>2, <2>w DEF UnderWay, At
    <3>2. Passed(w.pkt)'
      BY <1>3, <3>1
    <3>3. PICK k : k = w.pkt
      OBVIOUS
    <3>4. Passed(k)' /\ Ready(k)'
      BY <1>3, <3>1, <3>3 DEF Ready
    <3>5. w.at \in {"rx", "in"} => (k.kind = "esp" => CameEncrypted(k.id)')
      BY <1>2, <2>w, <3>3 DEF SInv, PassedAt
    <3>6. PassedAt(w)'
      BY <3>3, <3>4, <3>5 DEF PassedAt
    <3> QED
      BY <1>1, <2>w, <3>6 DEF PassedAt
  <2> QED
    BY <2>1, <2>2
<1>5. \A i \in DOMAIN backlog : backlog[i].id \in UnderWay
  BY DEF UnderWay
<1>6. ASSUME NEW q, \A i \in DOMAIN q : q[i].id \in UnderWay PROVE AllReady(q)'
  BY <1>3, <1>6 DEF AllReady, Ready
<1>7. AllReady(backlog)'
  <2>1. PICK q : q = backlog
    OBVIOUS
  <2>2. AllReady(q)'
    BY <1>5, <1>6, <2>1
  <2> QED
    BY <1>1, <2>1, <2>2 DEF AllReady
<1>8. ASSUME NEW a \in Addrs PROVE AllReady(PacketQueue[a])'
  <2>1. PICK q : q = PacketQueue[a]
    OBVIOUS
  <2>2. \A i \in DOMAIN q : q[i].id \in UnderWay
    BY <2>1 DEF UnderWay
  <2>3. AllReady(q)'
    BY <1>6, <2>2
  <2> QED
    BY <1>1, <2>1, <2>3 DEF AllReady
<1>9. (\A f \in rx : f.pkt.kind = "esp" => CameEncrypted(f.pkt.id))'
  BY <1>1, <1>2 DEF SInv, CameEncrypted
<1> QED
  BY <1>4, <1>7, <1>8, <1>9 DEF SInv

LEMMA ConfigurePassed ==
    ASSUME FInv, SInv, Configure
    PROVE  SInv'
<1>1. NoPacket /\ touched' = touched \cup UnderWay
  BY ConfiguresApart DEF Edit
<1>2. CASE NoPeer
  <2>1. RoutesInv'
    BY <1>2 DEF NoPeer, SInv, RoutesInv
  <2> QED
    BY <1>1, <2>1, ChangePassed
<1>3. ASSUME NEW peer, NEW psk, NEGOTIATE_IKE(peer, psk)
      PROVE  RoutesInv'
  <2>1. UNCHANGED RoutingTable /\ installing' = installing \cup {peer}
    BY <1>3 DEF NEGOTIATE_IKE
  <2>2. \A a \in DOMAIN IKEPeers' \ installing' :
            a \in DOMAIN IKEPeers \ installing /\ IKEPeers'[a] = IKEPeers[a]
    BY <1>3, <2>1 DEF NEGOTIATE_IKE, activatePeer
  <2> QED
    BY <2>1, <2>2 DEF SInv, RoutesInv
<1>4. NoPeer \/ \E peer, psk : NEGOTIATE_IKE(peer, psk)
  BY DEF Configure, CONFIG_ACL, APPLY_ACL, ApplyIfaceACL, INTERFACE_SHUTDOWN, CONFIG_NAT_STATIC,
         CONFIG_NAT_OVERLOAD, CONFIG_CRYPTO_MAP
<1> QED
  BY <1>1, <1>2, <1>3, <1>4, ChangePassed

LEMMA InstallPassed ==
    ASSUME FInv, SInv, NEW peer \in installing, InstallVPNRoutes(peer)
    PROVE  SInv'
<1>1. NoPacket /\ touched' = touched \cup UnderWay /\ UNCHANGED IKEPeers
  BY DEF InstallVPNRoutes
<1>2. PICK n, table : n = IKEPeers[peer] /\ table = RoutingTable'
  OBVIOUS
<1>3. RoutingTable \in Seq(Route0) /\ DOMAIN RoutingTable = 1 .. Len(RoutingTable)
  BY DEF FInv, ConfOK
<1>4. PICK r : r = VPNRoute(peer, n)
  OBVIOUS
<1>5. r.net = n /\ r.port = NoPort /\ r.dist = 1
  BY <1>4 DEF VPNRoute
<1>6. installing' = installing \ {peer}
      /\ table = IF n = {} THEN RoutingTable ELSE AddRoute(RoutingTable, r)
  BY <1>2, <1>4 DEF InstallVPNRoutes
<1>7. /\ \A i \in DOMAIN table : table[i] = r \/ (i \in DOMAIN RoutingTable /\ table[i] = RoutingTable[i])
      /\ \A i \in DOMAIN RoutingTable : i \in DOMAIN table
            /\ (table[i] = RoutingTable[i] \/ (table[i] = r /\ RoutingTable[i].net = n))
      /\ n # {} => \E i \in DOMAIN table : table[i] = r
  <2>1. CASE n = {}
    BY <1>6, <2>1
  <2> DEFINE same == {i \in 1 .. Len(RoutingTable) :
                        RoutingTable[i].net = r.net /\ RoutingTable[i].proto = r.proto}
  <2>2. CASE n # {} /\ same = {}
    <3>1. table = Append(RoutingTable, r)
      BY <1>6, <2>2 DEF AddRoute
    <3>2. /\ DOMAIN table = 1 .. Len(RoutingTable) + 1
          /\ \A i \in 1 .. Len(RoutingTable) : table[i] = RoutingTable[i]
          /\ table[Len(RoutingTable) + 1] = r
      BY <1>3, <3>1
    <3>3. Len(RoutingTable) \in Nat
      BY <1>3
    <3> QED
      BY <1>3, <3>2, <3>3
  <2>3. CASE n # {} /\ same # {}
    <3>1. table = [i \in DOMAIN RoutingTable |-> IF i \in same THEN r ELSE RoutingTable[i]]
      BY <1>6, <2>3 DEF AddRoute
    <3> QED
      BY <1>3, <1>5, <2>3, <3>1
  <2> QED
    BY <2>1, <2>2, <2>3
<1>8. \A i \in DOMAIN table : table[i].port # NoPort => \E j \in DOMAIN Routes0 : table[i] = Routes0[j]
  BY <1>5, <1>7 DEF SInv, RoutesInv
<1>9. ASSUME NEW a \in DOMAIN IKEPeers \ installing', IKEPeers[a] # {}
      PROVE  \E i \in DOMAIN table :
                table[i].net = IKEPeers[a] /\ table[i].port = NoPort /\ table[i].dist = 1
  <2>1. CASE a = peer
    BY <1>2, <1>5, <1>7, <1>9, <2>1
  <2>2. CASE a # peer
    <3>1. PICK i \in DOMAIN RoutingTable :
              /\ RoutingTable[i].net = IKEPeers[a]
              /\ RoutingTable[i].port = NoPort /\ RoutingTable[i].dist = 1
      BY <1>6, <1>9, <2>2 DEF SInv, RoutesInv
    <3> QED
      BY <1>5, <1>7, <3>1
  <2> QED
    BY <2>1, <2>2
<1>10. RoutesInv'
  BY <1>1, <1>2, <1>8, <1>9 DEF RoutesInv
<1> QED
  BY <1>1, <1>10, ChangePassed

LEMMA PassedStays == FInv /\ SInv /\ [Next]_vars => SInv'
<1> SUFFICES ASSUME FInv, SInv, [Next]_vars PROVE SInv'
  OBVIOUS
<1>1. CASE UNCHANGED vars
  BY <1>1 DEF vars, SInv, RoutesInv, PassedAt, AllReady, Ready, Passed, PassesThrough, CameEncrypted,
              ForOthers, Swallowed, Preferred, Payload
<1>2. ASSUME NEW t \in Threads, Route(t) \/ NatOut(t) \/ AclOut(t) \/ Encrypt(t) \/ Send(t) \/ Queue(t)
      PROVE  SInv'
  BY <1>2, OutputPassed, SendPassed
<1> QED
  BY <1>1, <1>2, ArrivalPassed, QueuedPassed, ConfigurePassed, InstallPassed DEF Next

LEMMA SentPassed ==
    ASSUME SInv, [Next]_vars, NEW f \in sent' \ sent
    PROVE  Passed(f.pkt)
<1>1. PICK t \in Threads : Send(t)
  BY OnlySendSends
<1>w. PICK w : w = work[t]
  OBVIOUS
<1>2. f = [port |-> w.out, pkt |-> w.pkt] /\ f.port \in Ports
  BY <1>1, <1>w DEF Send
<1>3. f.port = w.out /\ f.pkt = w.pkt
  BY <1>2
<1>4. w.at = "arp" /\ PassedAt(w)
  BY <1>1, <1>w DEF Send, At, SInv
<1> QED
  BY <1>2, <1>3, <1>4 DEF PassedAt

(* Once a negotiated tunnel has its route, no packet for the subnet behind *)
(* its peer is sent, in clear or in an ESP packet of the router, unless it *)
(* was under way during a change or another route was preferred.           *)
THEOREM TunnelsSwallow == Spec => TunnelRouteSwallows
<1>1. Init => FInv /\ SInv
  BY InitTypes, InitPassed
<1>2. FInv /\ SInv /\ [Next]_vars => (FInv /\ SInv)'
  BY TypesStay, PassedStays
<1>3. SInv /\ [Next]_vars =>
        [\A f \in sent' \ sent : f.pkt.id \notin touched /\ ~PassesThrough(f.pkt) =>
          \A k \in Payload(f.pkt) : k.kind # "esp" => ~Swallowed(k.dst)]_vars
  BY SentPassed DEF Passed, ForOthers
<1> QED
  BY <1>1, <1>2, <1>3, PTL DEF Spec, TunnelRouteSwallows

(* --- Replies reach the sender that asked ------------------------------------------------ *)
(* The packets that wait, for an ARP reply or for the loop.                *)
Waits == {backlog[i] : i \in DOMAIN backlog}
           \cup UNION {{PacketQueue[a][i] : i \in DOMAIN PacketQueue[a]} : a \in Addrs}

(* No two inside addresses share a global one.                             *)
Unshared == \A g \in Addrs : \A a, b \in Sharers(g) : a = b

(* Translations lead from a sender of the request that id answers to a.    *)
Descends(id, a) ==
    \E s \in Asker(id) : \E C \in SUBSET Addrs :
        s \in C /\ a \in C /\ \A b \in C \ {s} : C \cap Sharers(b) # {}

(* A request has a source that descends from its sender, the reply to it   *)
(* is for such an address; the router's own and an arriving reply answer   *)
(* no request that arrived.                                                *)
Traced(k) ==
    /\ k.kind = "echo" =>
          /\ Requests(k.id) = {}
          /\ Unshared /\ Requests(<<"re", k.id>>) # {} => Descends(<<"re", k.id>>, k.src)
    /\ k.kind = "reply" /\ Unshared /\ Requests(k.id) # {} => Descends(k.id, k.dst)
Leaving(k) == Traced(k) /\ (k.kind = "reply" /\ Requests(k.id) # {} => ~OwnsIP(k.dst))

(* An ESP packet that comes in carries what it carried when it arrived.    *)
Carried(k) ==
    k.kind = "esp" => \E f \in traffic.frames : f.pkt.kind = "esp" /\ f.pkt.inner = k.inner
TracedAt(w) ==
    /\ w.at \in {"rx", "in"} => Traced(w.pkt) /\ Carried(w.pkt)
    /\ w.at \in {"route", "nat", "out", "crypto", "arp"} => Leaving(w.pkt)

AInv ==
    /\ \A f \in rx : Traced(f.pkt) /\ Carried(f.pkt)
    /\ \A t \in Threads : TracedAt(work[t])
    /\ \A k \in Waits : Leaving(k)
    /\ \A f \in sent : Leaving(f.pkt)

LEMMA WaitsQueue ==
    ASSUME FInv, NEW t \in Threads, Queue(t)
    PROVE  Waits' \subseteq Waits \cup {work[t].pkt}
<1>0. PICK Q : PacketsOK(Q)
  BY DEF FInv
<1>k. PICK k, h : k = work[t].pkt /\ h = work[t].hop
  OBVIOUS
<1>1. /\ PacketQueue' = [PacketQueue EXCEPT ![h] = Append(PacketQueue[h], k)]
      /\ PacketQueue \in [Addrs -> Seq(Q)] /\ backlog' = backlog
  BY <1>0, <1>k DEF Queue, PacketsOK
<1>2. ASSUME NEW a \in Addrs, NEW i \in DOMAIN PacketQueue'[a]
      PROVE  PacketQueue'[a][i] = k \/ (i \in DOMAIN PacketQueue[a] /\ PacketQueue'[a][i] = PacketQueue[a][i])
  <2>1. PICK q : q = PacketQueue[a] /\ q \in Seq(Q)
    BY <1>1
  <2>2. PacketQueue'[a] = q \/ PacketQueue'[a] = Append(q, k)
    BY <1>1, <2>1
  <2>3. ASSUME NEW j \in DOMAIN Append(q, k) PROVE Append(q, k)[j] = k \/ (j \in DOMAIN q /\ Append(q, k)[j] = q[j])
    BY <2>1
  <2> QED
    BY <1>2, <2>1, <2>2, <2>3
<1> QED
  BY <1>1, <1>2, <1>k DEF Waits

LEMMA WaitsARP ==
    ASSUME FInv, HandleRouterARP
    PROVE  Waits' \subseteq Waits
<1>0. PICK Q : PacketsOK(Q)
  BY DEF FInv
<1>1. PICK a \in asked \cap Neighbours :
        backlog' = PacketQueue[a] /\ PacketQueue' = [PacketQueue EXCEPT ![a] = <<>>]
  BY DEF HandleRouterARP
<1>2. a \in Addrs /\ DOMAIN PacketQueue = Addrs
  BY <1>0, AssumptionParts DEF PacketsOK
<1>3. \A b \in Addrs : PacketQueue'[b] = PacketQueue[b] \/ PacketQueue'[b] = <<>>
  BY <1>1, <1>2
<1>4. DOMAIN <<>> = {}
  OBVIOUS
<1> QED
  BY <1>1, <1>2, <1>3, <1>4 DEF Waits

LEMMA WaitsForwarded ==
    ASSUME FInv, ForwardQueued
    PROVE  Waits' \subseteq Waits /\ Head(backlog) \in Waits
<1>0. PICK Q : PacketsOK(Q)
  BY DEF FInv
<1>1. backlog # <<>> /\ backlog \in Seq(Q) /\ backlog' = Tail(backlog) /\ PacketQueue' = PacketQueue
  BY <1>0 DEF ForwardQueued, PacketsOK, NoOutput
<1>2. \A i \in DOMAIN Tail(backlog) : i + 1 \in DOMAIN backlog /\ Tail(backlog)[i] = backlog[i + 1]
  BY <1>1
<1>3. 1 \in DOMAIN backlog /\ Head(backlog) = backlog[1]
  BY <1>1
<1> QED
  BY <1>1, <1>2, <1>3 DEF Waits

(* The ways an outbound translation may go.                                *)
Recorded(a, g) == [b \in DOMAIN PAT \cup {a} |-> IF b = a THEN g ELSE PAT[b]]
TranslatedTo(a, g, table) ==
    \/ StaticHits(1, a) # {} /\ g = FirstStatic(1, a)[2] /\ table = PAT
    \/ a \in DOMAIN PAT /\ g = PAT[a] /\ table = PAT
    \/ a \notin DOMAIN PAT /\ g \in PickOutsideIP /\ table = Recorded(a, g)

LEMMA Translations ==
    ASSUME NEW p, NEW x, NEW r \in TranslateOutbound(p, x)
    PROVE  \/ r[1] = x /\ r[2] = PAT
           \/ NATOutside(p) /\ \E g : r[1] = [x EXCEPT !.src = g] /\ TranslatedTo(x.src, g, r[2])
<1>t. ASSUME NEW g, NEW table, r = <<[x EXCEPT !.src = g], table>>, NATOutside(p), TranslatedTo(x.src, g, table)
      PROVE  NATOutside(p) /\ \E h : r[1] = [x EXCEPT !.src = h] /\ TranslatedTo(x.src, h, r[2])
  <2>1. r[1] = [x EXCEPT !.src = g] /\ r[2] = table
    BY <1>t
  <2> QED
    BY <1>t, <2>1
<1>1. CASE ~NATOutside(p)
  BY <1>1 DEF TranslateOutbound
<1>2. CASE NATOutside(p) /\ StaticHits(1, x.src) # {}
  <2>1. r = <<[x EXCEPT !.src = FirstStatic(1, x.src)[2]], PAT>>
    BY <1>2 DEF TranslateOutbound
  <2>2. TranslatedTo(x.src, FirstStatic(1, x.src)[2], PAT)
    BY <1>2 DEF TranslatedTo
  <2> QED
    BY <1>2, <1>t, <2>1, <2>2
<1>3. CASE NATOutside(p) /\ StaticHits(1, x.src) = {} /\ ~Overload
  BY <1>3 DEF TranslateOutbound
<1>4. CASE NATOutside(p) /\ StaticHits(1, x.src) = {} /\ Overload /\ x.src \in DOMAIN PAT
  <2>1. r = <<[x EXCEPT !.src = PAT[x.src]], PAT>>
    BY <1>4 DEF TranslateOutbound
  <2>2. TranslatedTo(x.src, PAT[x.src], PAT)
    BY <1>4 DEF TranslatedTo
  <2> QED
    BY <1>4, <1>t, <2>1, <2>2
<1>5. CASE NATOutside(p) /\ StaticHits(1, x.src) = {} /\ Overload /\ x.src \notin DOMAIN PAT
  <2>1. PICK g \in PickOutsideIP : r = <<[x EXCEPT !.src = g], Recorded(x.src, g)>>
    BY <1>5 DEF TranslateOutbound, Recorded
  <2>2. TranslatedTo(x.src, g, Recorded(x.src, g))
    BY <1>5 DEF TranslatedTo
  <2> QED
    BY <1>5, <1>t, <2>1, <2>2
<1> QED
  BY <1>1, <1>2, <1>3, <1>4, <1>5

(* Translations are only added.                                            *)
LEMMA TranslationGrows ==
    ASSUME NEW p, NEW x, NEW r \in TranslateOutbound(p, x)
    PROVE  DOMAIN PAT \subseteq DOMAIN r[2] /\ \A a \in DOMAIN PAT : r[2][a] = PAT[a]
<1>1. r[2] = PAT \/ \E a, g : a \notin DOMAIN PAT /\ r[2] = Recorded(a, g)
  <2>1. r[2] = PAT \/ \E g : TranslatedTo(x.src, g, r[2])
    BY Translations, Zenon
  <2> QED
    BY <2>1 DEF TranslatedTo
<1>2. ASSUME NEW a, NEW g, a \notin DOMAIN PAT
      PROVE  DOMAIN PAT \subseteq DOMAIN Recorded(a, g) /\ \A b \in DOMAIN PAT : Recorded(a, g)[b] = PAT[b]
  BY <1>2 DEF Recorded
<1> QED
  BY <1>1, <1>2

LEMMA TablesGrow ==
    ASSUME FInv, [Next]_vars
    PROVE  /\ UNCHANGED traffic
           /\ DOMAIN PAT \subseteq DOMAIN PAT' /\ \A a \in DOMAIN PAT : PAT'[a] = PAT[a]
           /\ static' = static \/ \E pair \in Statics : static' = Append(static, pair)
<1> DEFINE grows == /\ UNCHANGED traffic
                    /\ DOMAIN PAT \subseteq DOMAIN PAT' /\ \A a \in DOMAIN PAT : PAT'[a] = PAT[a]
                    /\ static' = static \/ \E pair \in Statics : static' = Append(static, pair)
<1>1. CASE UNCHANGED vars
  BY <1>1 DEF vars, conf
<1>2. CASE DeliverToRouter \/ NatIn \/ HandleRouterIP \/ HandleRouterARP \/ ForwardQueued \/ StartPing
  <2>1. CASE DeliverToRouter
    BY <2>1 DEF DeliverToRouter, Stay, conf
  <2>2. CASE NatIn
    BY <2>2 DEF NatIn, Stay, conf
  <2>3. CASE HandleRouterIP
    BY <2>3 DEF HandleRouterIP, Stay, conf
  <2>4. CASE HandleRouterARP
    BY <2>4 DEF HandleRouterARP, Stay, conf
  <2>5. CASE ForwardQueued
    BY <2>5 DEF ForwardQueued, Stay, conf
  <2>6. CASE StartPing
    BY <2>6 DEF StartPing, Stay, conf
  <2> QED
    BY <1>2, <2>1, <2>2, <2>3, <2>4, <2>5, <2>6
<1>3. ASSUME NEW t \in Threads, Route(t) \/ AclOut(t) \/ Encrypt(t) \/ Send(t) \/ Queue(t)
      PROVE  grows
  <2>1. CASE Route(t)
    BY <2>1, Zenon DEF Route, Stay, conf
  <2>2. CASE AclOut(t)
    BY <2>2, Zenon DEF AclOut, Stay, conf
  <2>3. CASE Encrypt(t)
    BY <2>3, Zenon DEF Encrypt, Stay, conf
  <2>4. CASE Send(t)
    BY <2>4, Zenon DEF Send, Stay, conf
  <2>5. CASE Queue(t)
    BY <2>5, Zenon DEF Queue, Stay, conf
  <2> QED
    BY <1>3, <2>1, <2>2, <2>3, <2>4, <2>5
<1>4. ASSUME NEW t \in Threads, NatOut(t)
      PROVE  grows
  <2>1. PICK r \in TranslateOutbound(work[t].out, work[t].pkt) : PAT' = r[2]
    BY <1>4 DEF NatOut
  <2>2. UNCHANGED <<static, traffic>>
    BY <1>4 DEF NatOut, Stay, conf
  <2> QED
    BY <2>1, <2>2, TranslationGrows
<1>5. CASE Configure
  <2>1. NoPacket
    BY <1>5, ConfiguresApart
  <2>2. static' = static \/ \E pair \in Statics : static' = Append(static, pair)
    BY <1>5 DEF Configure, CONFIG_ACL, APPLY_ACL, ApplyIfaceACL, INTERFACE_SHUTDOWN, CONFIG_NAT_STATIC,
                AddStaticNAT, CONFIG_NAT_OVERLOAD, CONFIG_CRYPTO_MAP, NEGOTIATE_IKE, conf
  <2> QED
    BY <2>1, <2>2 DEF NoPacket
<1>6. ASSUME NEW peer \in installing, InstallVPNRoutes(peer)
      PROVE  grows
  <2>1. NoPacket /\ UNCHANGED conf
    BY <1>6 DEF InstallVPNRoutes
  <2> QED
    BY <2>1 DEF NoPacket, conf
<1> QED
  BY <1>1, <1>2, <1>3, <1>4, <1>5, <1>6 DEF Next

LEMMA SharersGrow ==
    ASSUME FInv, [Next]_vars
    PROVE  \A g : /\ Sharers(g) \subseteq Sharers(g)'
                  /\ StaticHits(2, g) # {} => StaticHits(2, g)' # {}
<1> SUFFICES ASSUME NEW g PROVE Sharers(g) \subseteq Sharers(g)' /\ (StaticHits(2, g) # {} => StaticHits(2, g)' # {})
  OBVIOUS
<1>s. static \in Seq(Statics)
  BY DEF FInv, ConfOK
<1>1. PATHits(g) \subseteq PATHits(g)'
  BY TablesGrow DEF PATHits
<1>2. \A i \in 1 .. Len(static) : i \in 1 .. Len(static') /\ static'[i] = static[i]
  <2>1. CASE static' = static
    BY <2>1
  <2>2. ASSUME NEW pair \in Statics, static' = Append(static, pair)
        PROVE  \A i \in 1 .. Len(static) : i \in 1 .. Len(static') /\ static'[i] = static[i]
    BY <1>s, <2>2
  <2> QED
    BY <2>1, <2>2, TablesGrow
<1>3. \A i \in StaticHits(2, g) : i \in StaticHits(2, g)' /\ static'[i] = static[i]
  BY <1>2 DEF StaticHits
<1> QED
  BY <1>1, <1>3 DEF Sharers

(* What is traced stays so: only translations are added.                   *)
LEMMA TraceStays ==
    ASSUME FInv, [Next]_vars
    PROVE  /\ \A id : Requests(id)' = Requests(id)
           /\ Unshared' => Unshared
           /\ \A id, a : Descends(id, a) => Descends(id, a)'
           /\ \A k : (Traced(k) => Traced(k)') /\ (Leaving(k) => Leaving(k)') /\ (Carried(k) => Carried(k)')
           /\ \A w : TracedAt(w) => TracedAt(w)'
<1>1. UNCHANGED traffic
  BY TablesGrow
<1>2. \A id : Requests(id)' = Requests(id)
  BY <1>1 DEF Requests
<1>3. Unshared' => Unshared
  BY SharersGrow DEF Unshared
<1>4. ASSUME NEW id, NEW a, Descends(id, a)
      PROVE  Descends(id, a)'
  <2>1. PICK s \in Asker(id), C \in SUBSET Addrs :
          s \in C /\ a \in C /\ \A b \in C \ {s} : C \cap Sharers(b) # {}
    BY <1>4 DEF Descends
  <2>2. \A b \in C \ {s} : C \cap Sharers(b)' # {}
    BY <2>1, SharersGrow
  <2>3. s \in Asker(id)'
    BY <1>2 DEF Asker
  <2> QED
    BY <2>1, <2>2, <2>3 DEF Descends
<1>5. ASSUME NEW k
      PROVE  (Traced(k) => Traced(k)') /\ (Leaving(k) => Leaving(k)') /\ (Carried(k) => Carried(k)')
  <2>1. Traced(k) => Traced(k)'
    BY <1>2, <1>3, <1>4 DEF Traced
  <2>2. Leaving(k) => Leaving(k)'
    BY <1>2, <2>1 DEF Leaving
  <2>3. Carried(k) => Carried(k)'
    BY <1>1 DEF Carried
  <2> QED
    BY <2>1, <2>2, <2>3
<1>6. ASSUME NEW w, TracedAt(w) PROVE TracedAt(w)'
  <2>1. PICK k : k = w.pkt
    OBVIOUS
  <2>2. (Traced(k) => Traced(k)') /\ (Leaving(k) => Leaving(k)') /\ (Carried(k) => Carried(k)')
    BY <1>5
  <2>3. (w.at \in {"rx", "in"} => Traced(k) /\ Carried(k))
        /\ (w.at \in {"route", "nat", "out", "crypto", "arp"} => Leaving(k))
    BY <1>6, <2>1 DEF TracedAt
  <2> QED
    BY <2>1, <2>2, <2>3 DEF TracedAt
<1> QED
  BY <1>2, <1>3, <1>4, <1>5, <1>6

LEMMA RequestsArrive ==
    ASSUME traffic \in Traffic, NEW f \in traffic.frames, NEW k \in Payload(f.pkt)
    PROVE  k \in Arriving
<1>1. f.pkt \in Arriving
  BY AssumptionParts
<1>2. \A x \in Arriving : x.kind = "esp" => x.inner[1] \in Arriving
  BY AssumptionParts DEF Closed
<1> QED
  BY <1>1, <1>2 DEF Payload

(* The packets that arrive, in ESP packets too, are of the senders.        *)
LEMMA ArrivalsTraced ==
    ASSUME traffic \in Traffic, NEW f \in traffic.frames, NEW k \in Payload(f.pkt)
    PROVE  Traced(k) /\ Leaving(k)
<1>a. \A g \in traffic.frames : \A r \in Payload(g.pkt) : r \in Arriving
  BY RequestsArrive
<1>1. k \in Arriving /\ k.src \in Addrs
  <2>1. k \in Arriving
    BY <1>a
  <2> QED
    BY <2>1, AssumptionParts DEF Closed, IsPacket
<1>2. Requests(k.id) = {}
  <2> SUFFICES ASSUME NEW r \in Requests(k.id) PROVE FALSE
    OBVIOUS
  <2>1. r \in Arriving /\ <<"re", r.id>> = k.id
    BY <1>a DEF Requests
  <2> QED
    BY <1>1, <2>1, SourcesAssumption
<1>3. ASSUME k.kind = "echo" PROVE Descends(<<"re", k.id>>, k.src)
  <2>1. k.src \in Asker(<<"re", k.id>>)
    BY <1>3 DEF Asker, Requests
  <2>2. {k.src} \in SUBSET Addrs /\ {k.src} \ {k.src} = {}
    BY <1>1
  <2> QED
    BY <2>1, <2>2 DEF Descends
<1> QED
  BY <1>2, <1>3 DEF Traced, Leaving

(* A thread goes on with a packet that is traced; so are those that are    *)
(* new on the wire, in a queue or sent.                                    *)
LEMMA TracedMoves ==
    ASSUME FInv, AInv, [Next]_vars, NEW w, TracedAt(w)',
           \A t \in Threads : work'[t] = work[t] \/ work'[t] = w,
           \A f \in rx' \ rx : Traced(f.pkt)' /\ Carried(f.pkt)',
           \A k \in Waits' \ Waits : Leaving(k)',
           \A f \in sent' \ sent : Leaving(f.pkt)'
    PROVE  AInv'
<1>1. ASSUME NEW t \in Threads PROVE TracedAt(work[t])'
  <2>1. PICK v : v = work'[t]
    OBVIOUS
  <2>2. v = w \/ TracedAt(v)
    BY <2>1 DEF AInv
  <2>3. TracedAt(v)'
    BY <2>2, TraceStays
  <2> QED
    BY <2>1, <2>3 DEF TracedAt
<1>2. ASSUME NEW f \in rx' PROVE Traced(f.pkt)' /\ Carried(f.pkt)'
  <2>1. PICK k : k = f.pkt
    OBVIOUS
  <2>2. f \in rx => Traced(k) /\ Carried(k)
    BY <2>1 DEF AInv
  <2>3. f \in rx => Traced(k)' /\ Carried(k)'
    BY <2>2, TraceStays
  <2> QED
    BY <2>1, <2>3
<1>3. ASSUME NEW k \in Waits' PROVE Leaving(k)'
  BY TraceStays DEF AInv
<1>4. ASSUME NEW f \in sent' PROVE Leaving(f.pkt)'
  <2>1. PICK k : k = f.pkt
    OBVIOUS
  <2>2. f \in sent => Leaving(k)
    BY <2>1 DEF AInv
  <2>3. f \in sent => Leaving(k)'
    BY <2>2, TraceStays
  <2> QED
    BY <2>1, <2>3
<1> QED
  BY <1>1, <1>2, <1>3, <1>4 DEF AInv

LEMMA InitTraced == Init => AInv
<1> SUFFICES ASSUME Init PROVE AInv
  OBVIOUS
<1>1. traffic \in Traffic /\ rx = traffic.frames
  BY DEF Init
<1>2. ASSUME NEW f \in rx PROVE Traced(f.pkt) /\ Carried(f.pkt)
  <2>1. f.pkt \in Payload(f.pkt)
    BY DEF Payload
  <2> QED
    BY <1>1, <2>1, ArrivalsTraced DEF Carried
<1>3. \A t \in Threads : TracedAt(work[t])
  BY DEF Init, TracedAt, Idle
<1>4. DOMAIN <<>> = {}
  OBVIOUS
<1>5. Waits = {} /\ sent = {}
  BY <1>4 DEF Init, Waits
<1> QED
  BY <1>2, <1>3, <1>5 DEF AInv

(* What a step of the loop or of a connection changes of the queues.       *)
LEMMA WaitsStay == UNCHANGED <<backlog, PacketQueue>> => Waits' = Waits
  BY DEF Waits

(* A frame is taken as it came.                                            *)
LEMMA DeliverTraced ==
    ASSUME FInv, AInv, [Next]_vars, DeliverToRouter
    PROVE  AInv'
<1>0. PICK Q : PacketsOK(Q)
  BY DEF FInv
<1>1. PICK f \in rx : /\ rx' = rx \ {f}
                      /\ GoOn(Loop, IF IsInterfaceUp(f.port) THEN [at |-> "rx", pkt |-> f.pkt, port |-> f.port]
                                    ELSE Idle)
  BY DEF DeliverToRouter
<1>2. UNCHANGED <<backlog, PacketQueue, sent>>
  BY DEF DeliverToRouter, NoOutput
<1>3. TracedAt(Idle)
  BY DEF TracedAt, Idle
<1>4. TracedAt([at |-> "rx", pkt |-> f.pkt, port |-> f.port])
  BY DEF TracedAt, AInv
<1>5. PICK w : /\ w \in {Idle, [at |-> "rx", pkt |-> f.pkt, port |-> f.port]}
               /\ work' = [work EXCEPT ![Loop] = w]
  BY <1>1 DEF GoOn
<1>6. TracedAt(w)'
  BY <1>3, <1>4, <1>5, TraceStays
<1>7. \A t \in Threads : work'[t] = work[t] \/ work'[t] = w
  BY <1>0, <1>5 DEF PacketsOK
<1> QED
  BY <1>1, <1>2, <1>6, <1>7, TracedMoves, WaitsStay

(* Inbound translation changes the destination to one that shares it, and  *)
(* does so on an outside port if there is one.                             *)
LEMMA InboundSharers ==
    ASSUME ConfOK, NEW Q, Closed(Q), NEW p \in Ports, NEW x \in Q, NEW k \in TranslateInbound(p, x)
    PROVE  /\ k.src = x.src /\ k.id = x.id /\ k.kind = x.kind /\ k.inner = x.inner
           /\ k.dst = x.dst \/ k.dst \in Sharers(x.dst)
           /\ NATOutside(p) /\ Sharers(x.dst) # {} => k.dst \in Sharers(x.dst)
<1>1. x = [id |-> x.id, src |-> x.src, dst |-> x.dst, kind |-> x.kind, ttl |-> x.ttl, inner |-> x.inner]
  BY DEF Closed, IsPacket, Packet
<1>2. ASSUME NEW a, k = [x EXCEPT !.dst = a]
      PROVE  k.dst = a /\ k.src = x.src /\ k.id = x.id /\ k.kind = x.kind /\ k.inner = x.inner
  BY <1>1, <1>2
<1>3. ASSUME NEW a \in Sharers(x.dst), k = [x EXCEPT !.dst = a]
      PROVE  /\ k.src = x.src /\ k.id = x.id /\ k.kind = x.kind /\ k.inner = x.inner
             /\ k.dst \in Sharers(x.dst)
  BY <1>2, <1>3
<1>4. CASE ~NATOutside(p)
  BY <1>4 DEF TranslateInbound
<1>5. CASE NATOutside(p) /\ StaticHits(2, x.dst) # {}
  <2> DEFINE hits == StaticHits(2, x.dst)
             First(i) == i \in hits /\ \A j \in hits : i <= j
  <2>1. hits \in SUBSET Nat /\ hits # {}
    BY <1>5 DEF StaticHits
  <2>2. \E i \in hits : First(i)
    <3> HIDE DEF hits
    <3> QED
      BY <2>1, LeastOf
  <2>3. First(CHOOSE i \in hits : \A j \in hits : i <= j)
    BY <2>2
  <2>4. FirstStatic(2, x.dst)[1] \in Sharers(x.dst)
    BY <2>3 DEF FirstStatic, Sharers
  <2>5. k = [x EXCEPT !.dst = FirstStatic(2, x.dst)[1]]
    BY <1>5 DEF TranslateInbound
  <2> QED
    BY <1>3, <2>4, <2>5
<1>6. CASE NATOutside(p) /\ StaticHits(2, x.dst) = {} /\ PATHits(x.dst) # {}
  <2>1. PICK a \in PATHits(x.dst) : k = [x EXCEPT !.dst = a]
    BY <1>6 DEF TranslateInbound
  <2>2. a \in Sharers(x.dst)
    BY DEF Sharers
  <2> QED
    BY <1>3, <2>1, <2>2
<1>7. CASE NATOutside(p) /\ StaticHits(2, x.dst) = {} /\ PATHits(x.dst) = {}
  BY <1>7 DEF TranslateInbound, Sharers
<1> QED
  BY <1>4, <1>5, <1>6, <1>7

(* No address stands for the source of a request that arrived.             *)
LEMMA SendersApart ==
    ASSUME FInv, NEW id, NEW s \in Asker(id)
    PROVE  Sharers(s) = {}
<1>1. PICK k \in Requests(id) : s = k.src
  BY DEF Asker
<1>2. PICK f \in traffic.frames : k \in Payload(f.pkt) /\ k.kind = "echo"
  BY DEF Requests
<1>4. k \in Arriving
  BY <1>2, RequestsArrive DEF FInv, TablesOK
<1>5. ~OwnsIP(s) /\ \A pair \in Statics : s # pair[2]
  BY <1>1, <1>2, <1>4, SourcesAssumption
<1>6. PATHits(s) = {}
  BY <1>5, AssumptionParts DEF FInv, TablesOK, PATHits, OutsideIPs, OwnsIP
<1>7. StaticHits(2, s) = {}
  <2>1. static \in Seq(Statics)
    BY DEF FInv, ConfOK
  <2>2. \A i \in 1 .. Len(static) : static[i] \in Statics
    BY <2>1
  <2> QED
    BY <1>5, <2>2 DEF StaticHits
<1> QED
  BY <1>6, <1>7 DEF Sharers

(* Whom a global address stands for, it came from.                         *)
LEMMA BackToSender ==
    ASSUME FInv, Unshared, NEW id, NEW b \in Addrs, Descends(id, b), NEW a \in Sharers(b)
    PROVE  Descends(id, a)
<1>1. PICK s \in Asker(id), C \in SUBSET Addrs :
        s \in C /\ b \in C /\ \A c \in C \ {s} : C \cap Sharers(c) # {}
  BY DEF Descends
<1>2. b # s
  BY SendersApart
<1>3. PICK c \in C : c \in Sharers(b)
  BY <1>1, <1>2
<1>4. c = a
  BY <1>3 DEF Unshared
<1> QED
  BY <1>1, <1>3, <1>4 DEF Descends

(* A translated source stands for the one before.                          *)
LEMMA OnFromSender ==
    ASSUME NEW id, NEW a, NEW g \in Addrs, Descends(id, a)', a \in Sharers(g)'
    PROVE  Descends(id, g)'
<1>1. PICK s \in Asker(id)', C \in SUBSET Addrs :
        s \in C /\ a \in C /\ \A b \in C \ {s} : C \cap Sharers(b)' # {}
  BY DEF Descends
<1>2. ASSUME NEW b \in (C \cup {g}) \ {s} PROVE (C \cup {g}) \cap Sharers(b)' # {}
  <2>1. PICK S : S = Sharers(b)'
    OBVIOUS
  <2>2. CASE b = g
    BY <1>1, <2>1, <2>2
  <2>3. CASE b # g
    BY <1>1, <1>2, <2>1, <2>3
  <2> QED
    BY <2>2, <2>3
<1>3. PICK D : D = C \cup {g}
  OBVIOUS
<1>4. D \in SUBSET Addrs /\ g \in D /\ s \in D /\ \A b \in D \ {s} : D \cap Sharers(b)' # {}
  BY <1>1, <1>2, <1>3
<1> QED
  BY <1>1, <1>4 DEF Descends

(* A translated reply is still for an address of the chain.                *)
LEMMA NatInTraced ==
    ASSUME FInv, AInv, [Next]_vars, NatIn
    PROVE  AInv'
<1>0. PICK Q : PacketsOK(Q)
  BY DEF FInv
<1>t. Loop \in Threads
  BY DEF Threads
<1>w. PICK w : w = work[Loop]
  OBVIOUS
<1>1. PICK k \in TranslateInbound(w.port, w.pkt) : GoOn(Loop, [w EXCEPT !.at = "in", !.pkt = k])
  BY <1>w DEF NatIn
<1>2. w \in Incoming(Q) /\ w.at = "rx" /\ TracedAt(w)
  BY <1>0, <1>t, <1>w, WorkAt DEF NatIn, At, AInv
<1>x. PICK x : x = w.pkt
  OBVIOUS
<1>3. w.port \in Ports /\ x \in Q /\ Closed(Q) /\ ConfOK /\ x.dst \in Addrs
  BY <1>0, <1>2, <1>x DEF FInv, PacketsOK, Incoming, Closed, IsPacket
<1>p. PICK p \in Ports : p = w.port
  BY <1>3
<1>q. k \in TranslateInbound(p, x)
  BY <1>1, <1>p, <1>x
<1>4. /\ k.src = x.src /\ k.id = x.id /\ k.kind = x.kind /\ k.inner = x.inner
      /\ k.dst = x.dst \/ k.dst \in Sharers(x.dst)
  BY <1>p, <1>q, <1>3, InboundSharers
<1>5. Traced(x) /\ Carried(x)
  BY <1>2, <1>x DEF TracedAt
<1>6. Unshared /\ Descends(k.id, x.dst) => Descends(k.id, k.dst)
  <2>1. PICK id, a, b : id = k.id /\ a = k.dst /\ b = x.dst /\ b \in Addrs
    BY <1>3
  <2>2. ASSUME Unshared, Descends(id, b), a \in Sharers(b) PROVE Descends(id, a)
    BY <2>1, <2>2, BackToSender
  <2> QED
    BY <1>4, <2>1, <2>2
<1>7. Traced(k) /\ Carried(k)
  BY <1>4, <1>5, <1>6 DEF Traced, Carried
<1>8. PICK v : v = [w EXCEPT !.at = "in", !.pkt = k]
  OBVIOUS
<1>9. v.at = "in" /\ v.pkt = k
  BY <1>2, <1>8 DEF Incoming
<1>10. TracedAt(v)'
  <2>1. TracedAt(v)
    BY <1>7, <1>9 DEF TracedAt
  <2> QED
    BY <2>1, TraceStays
<1>11. work' = [work EXCEPT ![Loop] = v] /\ DOMAIN work = Threads
  BY <1>0, <1>1, <1>8 DEF GoOn, PacketsOK
<1>12. UNCHANGED <<rx, backlog, PacketQueue, sent>>
  BY DEF NatIn, NoOutput
<1> QED
  BY <1>10, <1>11, <1>12, TracedMoves, WaitsStay

(* What goes on from the router: what a tunnel carried, the router's own   *)
(* reply, or the packet itself when it is not for the router.              *)
LEMMA HandleTraced ==
    ASSUME FInv, AInv, [Next]_vars, HandleRouterIP
    PROVE  AInv'
<1>0. PICK Q : PacketsOK(Q)
  BY DEF FInv
<1>t. Loop \in Threads
  BY DEF Threads
<1>k. PICK k : k = work[Loop].pkt
  OBVIOUS
<1>1. k \in Q /\ Traced(k) /\ Carried(k)
  BY <1>0, <1>t, <1>k, WorkAt DEF HandleRouterIP, At, Incoming, AInv, TracedAt
<1>2. UNCHANGED <<rx, backlog, PacketQueue, sent>>
  BY DEF HandleRouterIP, NoOutput
<1>m. ASSUME NEW w, GoOn(Loop, w), TracedAt(w) PROVE AInv'
  <2>1. work' = [work EXCEPT ![Loop] = w] /\ DOMAIN work = Threads
    BY <1>0, <1>m DEF GoOn, PacketsOK
  <2>2. TracedAt(w)'
    BY <1>m, TraceStays
  <2> QED
    BY <1>2, <2>1, <2>2, TracedMoves, WaitsStay
<1>3. ASSUME NEW x, Leaving(x), ToRoute(Loop, x) PROVE AInv'
  <2>1. TracedAt([at |-> "route", pkt |-> x])
    BY <1>3 DEF TracedAt
  <2> QED
    BY <1>m, <1>3, <2>1 DEF ToRoute
<1>4. ASSUME NEW x \in DecapsulateESP(k), k.kind = "esp" PROVE Leaving(x)
  <2>1. PICK f \in traffic.frames : f.pkt.kind = "esp" /\ f.pkt.inner = k.inner
    BY <1>1, <1>4 DEF Carried
  <2>2. f.pkt.inner # <<>> /\ x = f.pkt.inner[1]
    <3>1. PICK r : k.inner = <<r>>
      BY <1>0, <1>1, <1>4 DEF PacketsOK, Closed
    <3> QED
      BY <1>4, <2>1, <3>1 DEF DecapsulateESP
  <2>3. x \in Payload(f.pkt)
    BY <2>1, <2>2 DEF Payload
  <2> QED
    BY <2>3, ArrivalsTraced DEF FInv, TablesOK
<1>5. ASSUME k.kind = "echo" PROVE Leaving(Packet(k.id, k.dst, k.src, "reply", 64))
  <2>1. PICK x : x = Packet(k.id, k.dst, k.src, "reply", 64)
    OBVIOUS
  <2>2. x.kind = "reply" /\ x.id = k.id
    BY <2>1 DEF Packet
  <2>3. Requests(x.id) = {}
    BY <1>1, <1>5, <2>2 DEF Traced
  <2>4. Leaving(x)
    BY <2>2, <2>3 DEF Leaving, Traced
  <2> QED
    BY <2>1, <2>4
<1>6. ASSUME ~OwnsIP(k.dst), NEW x, x = [k EXCEPT !.ttl = @ - 1] PROVE Leaving(x)
  <2>1. k = [id |-> k.id, src |-> k.src, dst |-> k.dst, kind |-> k.kind, ttl |-> k.ttl, inner |-> k.inner]
    BY <1>0, <1>1 DEF PacketsOK, Closed, IsPacket, Packet
  <2>2. x.id = k.id /\ x.src = k.src /\ x.dst = k.dst /\ x.kind = k.kind
    BY <1>6, <2>1
  <2> QED
    BY <1>1, <1>6, <2>2 DEF Leaving, Traced
<1>7. \/ GoOn(Loop, Idle)
      \/ k.kind = "esp" /\ \E inner \in DecapsulateESP(k) : ToRoute(Loop, inner)
      \/ k.kind = "echo" /\ ToRoute(Loop, Packet(k.id, k.dst, k.src, "reply", 64))
      \/ ~OwnsIP(k.dst) /\ ToRoute(Loop, [k EXCEPT !.ttl = @ - 1])
  BY <1>k, Zenon DEF HandleRouterIP, Done
<1>8. TracedAt(Idle)
  BY DEF TracedAt, Idle
<1>9. CASE GoOn(Loop, Idle)
  BY <1>8, <1>9, <1>m
<1>10. CASE k.kind = "esp" /\ \E inner \in DecapsulateESP(k) : ToRoute(Loop, inner)
  BY <1>3, <1>4, <1>10
<1>11. CASE k.kind = "echo" /\ ToRoute(Loop, Packet(k.id, k.dst, k.src, "reply", 64))
  BY <1>3, <1>5, <1>11
<1>12. CASE ~OwnsIP(k.dst) /\ ToRoute(Loop, [k EXCEPT !.ttl = @ - 1])
  BY <1>3, <1>6, <1>12
<1> QED
  BY <1>7, <1>9, <1>10, <1>11, <1>12

(* The address a translation records shares the one it stands for.         *)
LEMMA TranslatedShares ==
    ASSUME ConfOK, TablesOK, NEW a \in Addrs, NEW g, NEW table, TranslatedTo(a, g, table),
           PAT' = table, static' = static
    PROVE  g \in Addrs /\ a \in Sharers(g)' /\ (OwnsIP(g) \/ StaticHits(2, g) # {})
<1> DEFINE goal == g \in Addrs /\ a \in Sharers(g)' /\ (OwnsIP(g) \/ StaticHits(2, g) # {})
<1>o. \A h \in OutsideIPs : OwnsIP(h) /\ h \in Addrs
  BY AssumptionParts DEF OutsideIPs, OwnsIP
<1>1. ASSUME g \in OutsideIPs, a \in DOMAIN PAT', PAT'[a] = g
      PROVE  goal
  BY <1>1, <1>o DEF Sharers, PATHits
<1>2. CASE StaticHits(1, a) # {} /\ g = FirstStatic(1, a)[2]
  <2> DEFINE hits == StaticHits(1, a)
             First(i) == i \in hits /\ \A j \in hits : i <= j
  <2>1. hits \in SUBSET Nat /\ hits # {}
    BY <1>2 DEF StaticHits
  <2>2. \E i \in hits : First(i)
    <3> HIDE DEF hits
    <3> QED
      BY <2>1, LeastOf
  <2>3. First(CHOOSE i \in hits : \A j \in hits : i <= j)
    BY <2>2
  <2>4. PICK i \in hits : g = static[i][2]
    BY <1>2, <2>3 DEF FirstStatic
  <2>5. i \in 1 .. Len(static) /\ static[i][1] = a
    BY <2>4 DEF StaticHits
  <2>6. i \in StaticHits(2, g) /\ StaticHits(2, g)' = StaticHits(2, g)
    BY <2>4, <2>5 DEF StaticHits
  <2>7. a \in Sharers(g)'
    BY <2>5, <2>6 DEF Sharers
  <2>8. g \in Addrs
    BY <1>2, StaticAddrs
  <2> QED
    BY <2>6, <2>7, <2>8
<1>3. CASE a \in DOMAIN PAT /\ g = PAT[a] /\ table = PAT
  BY <1>1, <1>3 DEF TablesOK
<1>4. CASE a \notin DOMAIN PAT /\ g \in PickOutsideIP /\ table = Recorded(a, g)
  <2>1. PICK p \in Ports : NATOutside(p) /\ g = IfAddr[p]
    BY <1>4 DEF PickOutsideIP
  <2>2. g \in OutsideIPs
    BY <2>1, OutsidePort DEF OutsideIPs
  <2> QED
    BY <1>1, <1>4, <2>2 DEF Recorded
<1> QED
  BY <1>2, <1>3, <1>4 DEF TranslatedTo

(* Routing, lists and tunnels leave the addresses alone; a translated      *)
(* source descends from the one before.                                    *)
LEMMA OutputTraced ==
    ASSUME FInv, AInv, [Next]_vars, NEW t \in Threads, Route(t) \/ NatOut(t) \/ AclOut(t) \/ Encrypt(t)
    PROVE  AInv'
<1>0. PICK Q : PacketsOK(Q)
  BY DEF FInv
<1>i. TracedAt(Idle)
  BY DEF TracedAt, Idle
<1>w. PICK w : w = work[t]
  OBVIOUS
<1>x. PICK x : x = w.pkt
  OBVIOUS
<1>k. Leaving(x)
  <2>1. w.at \in {"route", "nat", "out", "crypto"}
    BY <1>w, Zenon DEF Route, NatOut, AclOut, Encrypt, At
  <2>2. TracedAt(w)
    BY <1>w DEF AInv
  <2> QED
    BY <1>x, <2>1, <2>2 DEF TracedAt
<1>u. UNCHANGED <<rx, backlog, PacketQueue, sent>>
  BY Zenon DEF Route, NatOut, AclOut, Encrypt, NoOutput
<1>n. ASSUME NEW v, GoOn(t, v), TracedAt(v)' PROVE AInv'
  <2>1. work' = [work EXCEPT ![t] = v] /\ DOMAIN work = Threads
    BY <1>0, <1>n DEF GoOn, PacketsOK
  <2> QED
    BY <1>n, <1>u, <2>1, TracedMoves, WaitsStay
<1>m. ASSUME NEW v, GoOn(t, v), TracedAt(v) PROVE AInv'
  BY <1>m, <1>n, TraceStays
<1>p. ASSUME NEW v, GoOn(t, v), Leaving(v.pkt), v.at \notin {"rx", "in"} PROVE AInv'
  BY <1>m, <1>p DEF TracedAt
<1>1. CASE Route(t)
  <2>1. \/ GoOn(t, Idle)
        \/ \E p, h : GoOn(t, [at |-> "nat", pkt |-> x, out |-> p, hop |-> h])
    BY <1>1, <1>w, <1>x DEF Route, Done
  <2> QED
    BY <1>i, <1>k, <1>m, <1>p, <2>1
<1>2. CASE NatOut(t)
  <2>1. PICK r \in TranslateOutbound(w.out, x) :
            GoOn(t, [w EXCEPT !.at = "out", !.pkt = r[1]]) /\ PAT' = r[2]
    BY <1>2, <1>w, <1>x DEF NatOut
  <2>2. w \in Outgoing(Q) /\ x \in Q /\ Closed(Q) /\ w.at = "nat"
    BY <1>0, <1>2, <1>w, <1>x, WorkAt DEF NatOut, Outgoing, PacketsOK, At
  <2>3. static' = static
    BY <1>2 DEF NatOut, Stay, conf
  <2>4. PICK y : y = r[1]
    OBVIOUS
  <2>5. PICK v : v = [w EXCEPT !.at = "out", !.pkt = y]
    OBVIOUS
  <2>6. v.at = "out" /\ v.pkt = y
    BY <2>2, <2>5 DEF Outgoing
  <2>7. CASE y = x
    BY <1>k, <1>p, <2>1, <2>4, <2>5, <2>6, <2>7
  <2>8. ASSUME NEW g, y = [x EXCEPT !.src = g], TranslatedTo(x.src, g, r[2])
        PROVE  AInv'
    <3>0. x.src \in Addrs /\ PAT' = r[2] /\ ConfOK /\ TablesOK
      BY <2>1, <2>2 DEF Closed, IsPacket, FInv
    <3>1. g \in Addrs /\ x.src \in Sharers(g)'
      BY <2>3, <2>8, <3>0, TranslatedShares
    <3>2. y.id = x.id /\ y.kind = x.kind /\ y.dst = x.dst /\ y.src = g
      BY <2>2, <2>8 DEF Closed, IsPacket, Packet
    <3>3. Leaving(x)'
      BY <1>k, TraceStays
    <3>4. \A id : Descends(id, x.src)' => Descends(id, y.src)'
      BY <3>1, <3>2, OnFromSender
    <3>5. Leaving(y)'
      BY <3>2, <3>3, <3>4 DEF Leaving, Traced
    <3>6. TracedAt(v)'
      BY <2>6, <3>5 DEF TracedAt
    <3> QED
      BY <1>n, <2>1, <2>4, <2>5, <3>6
  <2>9. PICK p, z : p = w.out /\ z = r /\ z \in TranslateOutbound(p, x)
    BY <2>1
  <2>10. z[1] = x \/ \E g : z[1] = [x EXCEPT !.src = g] /\ TranslatedTo(x.src, g, z[2])
    BY <2>9, Translations, Zenon
  <2> QED
    BY <2>4, <2>7, <2>8, <2>9, <2>10
<1>3. CASE AclOut(t)
  <2>1. w \in Outgoing(Q)
    BY <1>0, <1>3, <1>w, WorkAt DEF AclOut, At
  <2>2. GoOn(t, Idle) \/ GoOn(t, [w EXCEPT !.at = "crypto"])
    BY <1>3, <1>w DEF AclOut
  <2>3. PICK v : v = [w EXCEPT !.at = "crypto"]
    OBVIOUS
  <2>4. v.at = "crypto" /\ v.pkt = x
    BY <1>x, <2>1, <2>3 DEF Outgoing
  <2> QED
    BY <1>i, <1>k, <1>m, <1>p, <2>2, <2>3, <2>4
<1>4. CASE Encrypt(t)
  <2>1. w \in Outgoing(Q) /\ x \in Q /\ Closed(Q)
    BY <1>0, <1>4, <1>w, <1>x, WorkAt DEF Encrypt, Outgoing, PacketsOK, At
  <2>2. \/ GoOn(t, [w EXCEPT !.at = "arp"])
        \/ \E peer \in MatchCryptoTunnel(w.out, x) :
              GoOn(t, [w EXCEPT !.at = "arp", !.hop = peer, !.pkt = EncapsulateESP(x, peer, w.out)])
    BY <1>4, <1>w, <1>x DEF Encrypt
  <2>3. CASE GoOn(t, [w EXCEPT !.at = "arp"])
    <3>1. PICK v : v = [w EXCEPT !.at = "arp"]
      OBVIOUS
    <3>2. v.at = "arp" /\ v.pkt = x
      BY <1>x, <2>1, <3>1 DEF Outgoing
    <3> QED
      BY <1>k, <1>p, <2>3, <3>1, <3>2
  <2>4. ASSUME NEW peer \in MatchCryptoTunnel(w.out, x), NEW y, y = EncapsulateESP(x, peer, w.out),
               GoOn(t, [w EXCEPT !.at = "arp", !.hop = peer, !.pkt = y])
        PROVE  AInv'
    <3>1. w.out \in Ports /\ peer \in Addrs
      BY <2>4, TunnelOK DEF FInv
    <3>2. y.kind = "esp"
      <4>1. Wraps(Q, x, w.out, y)
        BY <2>1, <2>4, <3>1, Wrap
      <4> QED
        BY <4>1 DEF Wraps
    <3>3. Leaving(y)
      BY <3>2 DEF Leaving, Traced
    <3>4. PICK v : v = [w EXCEPT !.at = "arp", !.hop = peer, !.pkt = y]
      OBVIOUS
    <3>5. v.at = "arp" /\ v.pkt = y
      BY <2>1, <3>4 DEF Outgoing
    <3> QED
      BY <1>p, <2>4, <3>3, <3>4, <3>5
  <2> QED
    BY <2>2, <2>3, <2>4
<1> QED
  BY <1>1, <1>2, <1>3, <1>4

(* A server's reply is for the address its request came from, which        *)
(* descends from the sender.                                               *)
LEMMA SendTraced ==
    ASSUME FInv, AInv, [Next]_vars, NEW t \in Threads, Send(t)
    PROVE  AInv'
<1>0. PICK Q : PacketsOK(Q)
  BY DEF FInv
<1>w. PICK w : w = work[t]
  OBVIOUS
<1>x. PICK x : x = w.pkt
  OBVIOUS
<1>1. Leaving(x)
  BY <1>w, <1>x DEF AInv, TracedAt, Send, At
<1>2. PICK f : f = [port |-> w.out, pkt |-> x]
  OBVIOUS
<1>3. f.pkt = x
  BY <1>2
<1>4. sent' \subseteq sent \cup {f} /\ rx' \subseteq rx \cup ServerReplies(f)
  BY <1>2, <1>w, <1>x DEF Send
<1>5. ASSUME NEW g \in ServerReplies(f) PROVE Traced(g.pkt) /\ Carried(g.pkt)
  <2>1. x.kind = "echo" /\ g.pkt = Packet(<<"re", x.id>>, x.dst, x.src, "reply", 64)
    BY <1>3, <1>5 DEF ServerReplies
  <2>2. PICK y : y = g.pkt
    OBVIOUS
  <2>3. y.kind = "reply" /\ y.id = <<"re", x.id>> /\ y.dst = x.src
    BY <2>1, <2>2 DEF Packet
  <2>4. Unshared /\ Requests(<<"re", x.id>>) # {} => Descends(<<"re", x.id>>, x.src)
    BY <1>1, <2>1 DEF Leaving, Traced
  <2>5. Traced(y) /\ Carried(y)
    BY <2>3, <2>4 DEF Traced, Carried
  <2> QED
    BY <2>2, <2>5
<1>6. ASSUME NEW g \in rx' \ rx PROVE Traced(g.pkt)' /\ Carried(g.pkt)'
  <2>1. PICK y : y = g.pkt
    OBVIOUS
  <2>2. Traced(y) /\ Carried(y)
    BY <1>4, <1>5, <1>6, <2>1
  <2>3. Traced(y)' /\ Carried(y)'
    BY <2>2, TraceStays
  <2> QED
    BY <2>1, <2>3
<1>7. ASSUME NEW g \in sent' \ sent PROVE Leaving(g.pkt)'
  <2>1. g.pkt = x
    BY <1>3, <1>4, <1>7
  <2>2. Leaving(x)'
    BY <1>1, TraceStays
  <2> QED
    BY <2>1, <2>2
<1>8. work' = [work EXCEPT ![t] = Idle] /\ DOMAIN work = Threads /\ UNCHANGED <<backlog, PacketQueue>>
  BY <1>0 DEF Send, Done, GoOn, PacketsOK
<1>9. TracedAt(Idle)'
  BY DEF TracedAt, Idle
<1> QED
  BY <1>6, <1>7, <1>8, <1>9, TracedMoves, WaitsStay

(* Packets wait as they are; the router's own requests answer no sender.   *)
LEMMA WaitingTraced ==
    ASSUME FInv, AInv, [Next]_vars,
           (\E t \in Threads : Queue(t)) \/ HandleRouterARP \/ ForwardQueued \/ StartPing
    PROVE  AInv'
<1>0. PICK Q : PacketsOK(Q)
  BY DEF FInv
<1>t. Loop \in Threads /\ Conn \in Threads /\ DOMAIN work = Threads
  BY <1>0 DEF Threads, PacketsOK
<1>i. TracedAt(Idle)'
  BY DEF TracedAt, Idle
<1>1. ASSUME NEW t \in Threads, Queue(t) PROVE AInv'
  <2>1. UNCHANGED <<rx, sent>> /\ work' = [work EXCEPT ![t] = Idle]
    BY <1>1 DEF Queue, Done, GoOn
  <2>2. PICK x : x = work[t].pkt
    OBVIOUS
  <2>3. Leaving(x)
    BY <1>1, <2>2 DEF AInv, TracedAt, Queue, At
  <2>4. Leaving(x)'
    BY <2>3, TraceStays
  <2>5. \A k \in Waits' \ Waits : Leaving(k)'
    BY <1>1, <2>2, <2>4, WaitsQueue
  <2> QED
    BY <1>i, <1>t, <2>1, <2>5, TracedMoves
<1>2. CASE HandleRouterARP
  <2>1. UNCHANGED <<rx, sent, work>>
    BY <1>2 DEF HandleRouterARP
  <2> QED
    BY <1>2, <1>i, <2>1, WaitsARP, TracedMoves
<1>3. CASE ForwardQueued
  <2>1. PICK k : k = Head(backlog) /\ k \in Waits
    BY <1>3, WaitsForwarded
  <2>2. PICK w : w = [at |-> "route", pkt |-> k]
    OBVIOUS
  <2>3. UNCHANGED <<rx, sent>> /\ work' = [work EXCEPT ![Loop] = w]
    BY <1>3, <2>1, <2>2 DEF ForwardQueued, ToRoute, GoOn, NoOutput
  <2>4. TracedAt(w)
    BY <2>1, <2>2 DEF TracedAt, AInv
  <2>5. TracedAt(w)'
    BY <2>4, TraceStays
  <2> QED
    BY <1>3, <1>t, <2>3, <2>5, WaitsForwarded, TracedMoves
<1>4. CASE StartPing
  <2>1. UNCHANGED <<rx, sent, backlog, PacketQueue>>
    BY <1>4 DEF StartPing, NoOutput
  <2>2. UNCHANGED work \/ \E a \in toPing, p \in Ports : ToRoute(Conn, Packet(<<"ping", a>>, IfAddr[p], a, "echo", 64))
    BY <1>4 DEF StartPing
  <2>3. CASE UNCHANGED work
    BY <1>i, <2>1, <2>3, TracedMoves, WaitsStay
  <2>4. ASSUME NEW a \in toPing, NEW p \in Ports, ToRoute(Conn, Packet(<<"ping", a>>, IfAddr[p], a, "echo", 64))
        PROVE  AInv'
    <3>1. PICK k : k = Packet(<<"ping", a>>, IfAddr[p], a, "echo", 64)
      OBVIOUS
    <3>2. k.id = <<"ping", a>> /\ k.kind = "echo" /\ a \in Addrs
      BY <3>1 DEF Packet, FInv, TablesOK
    <3>3. ASSUME NEW id, id = k.id \/ id = <<"re", k.id>> PROVE Requests(id) = {}
      <4> SUFFICES ASSUME NEW r \in Requests(id) PROVE FALSE
        OBVIOUS
      <4>1. r \in Arriving /\ <<"re", r.id>> = id
        BY RequestsArrive DEF Requests, FInv, TablesOK
      <4>2. r.id # k.id
        BY <3>2, <4>1, SourcesAssumption
      <4>3. id # <<"re", k.id>>
        BY <4>1, <4>2
      <4>4. <<"re", r.id>> # <<"ping", a>>
        OBVIOUS
      <4> QED
        BY <3>2, <3>3, <4>1, <4>3, <4>4
    <3>4. Leaving(k)
      BY <3>2, <3>3 DEF Leaving, Traced
    <3>5. PICK w : w = [at |-> "route", pkt |-> k]
      OBVIOUS
    <3>6. TracedAt(w)
      BY <3>4, <3>5 DEF TracedAt
    <3>7. TracedAt(w)'
      BY <3>6, TraceStays
    <3>8. work' = [work EXCEPT ![Conn] = w]
      BY <2>4, <3>1, <3>5 DEF ToRoute, GoOn
    <3> QED
      BY <1>t, <2>1, <3>7, <3>8, TracedMoves, WaitsStay
  <2> QED
    BY <2>2, <2>3, <2>4
<1> QED
  BY <1>1, <1>2, <1>3, <1>4

LEMMA TracedStays == FInv /\ AInv /\ [Next]_vars => AInv'
<1> SUFFICES ASSUME FInv, AInv, [Next]_vars PROVE AInv'
  OBVIOUS
<1>i. TracedAt(Idle)'
  BY DEF TracedAt, Idle
<1>1. ASSUME UNCHANGED <<rx, work, backlog, PacketQueue, sent>> PROVE AInv'
  BY <1>1, <1>i, TracedMoves, WaitsStay
<1>2. CASE UNCHANGED vars
  BY <1>1, <1>2 DEF vars
<1>3. CASE Configure
  BY <1>1, <1>3, ConfiguresApart DEF NoPacket
<1>4. ASSUME NEW peer \in installing, InstallVPNRoutes(peer) PROVE AInv'
  BY <1>1, <1>4 DEF InstallVPNRoutes, NoPacket
<1>5. ASSUME NEW t \in Threads, Route(t) \/ NatOut(t) \/ AclOut(t) \/ Encrypt(t) \/ Send(t) \/ Queue(t)
      PROVE  AInv'
  BY <1>5, OutputTraced, SendTraced, WaitingTraced
<1> QED
  BY <1>2, <1>3, <1>4, <1>5, DeliverTraced, NatInTraced, HandleTraced, WaitingTraced DEF Next

(* A reply that is sent on goes to a sender of the request it answers,     *)
(* unless two inside addresses share a global one, or it goes out again as *)
(* it came, to a static global address.                                    *)
THEOREM RepliesReturn == Spec => []ReplyToAsker
<1>1. Init => FInv /\ AInv
  BY InitTypes, InitTraced
<1>2. FInv /\ AInv /\ [Next]_vars => (FInv /\ AInv)'
  BY TypesStay, TracedStays
<1>3. ASSUME FInv, AInv PROVE ReplyToAsker
  <2> SUFFICES ASSUME NEW f \in sent, f.pkt.kind = "reply", Asker(f.pkt.id) # {}, Unshared
               PROVE  f.pkt.dst \in Asker(f.pkt.id) \/ StaticHits(2, f.pkt.dst) # {}
    BY DEF ReplyToAsker, Unshared
  <2>1. PICK k : k = f.pkt
    OBVIOUS
  <2>2. Leaving(k) /\ Requests(k.id) # {} /\ k.kind = "reply"
    BY <1>3, <2>1 DEF AInv, Asker
  <2>3. Descends(k.id, k.dst) /\ ~OwnsIP(k.dst)
    BY <2>2 DEF Leaving, Traced
  <2>4. k.dst \in Asker(k.id) \/ Sharers(k.dst) # {}
    BY <2>3 DEF Descends
  <2>5. PATHits(k.dst) = {}
    BY <1>3, <2>3, AssumptionParts DEF FInv, TablesOK, PATHits, OutsideIPs, OwnsIP
  <2> QED
    BY <2>1, <2>4, <2>5 DEF Sharers
<1> QED
  BY <1>1, <1>2, <1>3, PTL DEF Spec

(* --- PAT entries are for those who send ----------------------------------------------------- *)
(* Networks that are connected stay in the table.                          *)
ConnectedStay ==
    \A i \in DOMAIN Routes0 : Routes0[i].proto = "connected" =>
       \E j \in DOMAIN RoutingTable : RoutingTable[j] = Routes0[i]

Ours(a) == a \in Inside \/ Global(a)
Homeward(k) == k.dst \in Inside
Related(k) == Ours(k.src) \/ Ours(k.dst)

(* A packet to a static global address comes in when no port translates.   *)
Bounced(k) == StaticHits(2, k.dst) # {} /\ \A p \in Uplinks : ~NATOutside(p)

(* What a packet is that comes in, before and after its translation, that  *)
(* looks for its route, and that is on its way out.                        *)
Arrives(k, p) ==
    k.src \in Inside \/ Homeward(k) \/ OwnsIP(k.dst) \/ (StaticHits(2, k.dst) # {} /\ p \in Uplinks)
Entering(k) == k.id \in touched \/ k.src \in Inside \/ Homeward(k) \/ OwnsIP(k.dst) \/ Bounced(k)
Proper(k) ==
    \/ k.id \in touched \/ k.src \in Inside \/ OfRouter(k)
    \/ Global(k.src) /\ k.id \in waited
    \/ Homeward(k) \/ Bounced(k)
Passing(k) == k.id \in touched \/ Ours(k.src) \/ Homeward(k) \/ Bounced(k)

(* It leaves by the port of a route that was there from the start.         *)
ByRoute(k, p) ==
    k.kind # "esp" /\ p \in Ports =>
       \E i \in DOMAIN Routes0 : Routes0[i].port = p /\ k.dst \in Routes0[i].net

ProperAt(w) ==
    /\ w.at = "rx" => Arrives(w.pkt, w.port)
    /\ w.at = "in" => Related(w.pkt) /\ Entering(w.pkt)
    /\ w.at \in {"route", "nat"} => Related(w.pkt) /\ Proper(w.pkt)
    /\ w.at = "nat" => (Homeward(w.pkt) => w.out \notin Uplinks)
    /\ w.at \in {"out", "crypto", "arp"} => Related(w.pkt) /\ Passing(w.pkt)
    /\ w.at \in {"nat", "out", "crypto", "arp"} => ByRoute(w.pkt, w.out)

AllProper ==
    /\ \A f \in rx : Arrives(f.pkt, f.port)
    /\ \A t \in Threads : ProperAt(work[t])
    /\ \A k \in Waits : Related(k) /\ Proper(k)
PInv == ConnectedStay /\ (DOMAIN PAT \subseteq Inside => AllProper)

(* Packets by private networks never leave by an uplink.                   *)
LEMMA HomewardIn ==
    ASSUME EdgeRouter, ConfOK, RoutesInv, ConnectedStay, NEW a \in Inside, NEW r \in MatchRoute(a)
    PROVE  r.port \notin Uplinks
<1>t. RoutingTable \in Seq(Route0) /\ DOMAIN RoutingTable = 1 .. Len(RoutingTable)
  BY DEF ConfOK
<1>1. PICK i \in 1 .. Len(RoutingTable) :
          /\ r = RoutingTable[i] /\ a \in RoutingTable[i].net
          /\ \A j \in {j \in 1 .. Len(RoutingTable) : a \in RoutingTable[j].net} \ {i} :
               \/ PrefixLen[RoutingTable[i].net] > PrefixLen[RoutingTable[j].net]
               \/ PrefixLen[RoutingTable[i].net] = PrefixLen[RoutingTable[j].net]
  BY DEF MatchRoute
<1>2. PICK c \in DOMAIN Routes0 :
          /\ Routes0[c].proto = "connected" /\ a \in Routes0[c].net /\ Routes0[c].port \notin Uplinks
          /\ \A j \in DOMAIN Routes0 : a \in Routes0[j].net /\ Routes0[j].port \in Uplinks =>
                PrefixLen[Routes0[j].net] < PrefixLen[Routes0[c].net]
  BY DEF EdgeRouter
<1>3. PICK e \in 1 .. Len(RoutingTable) : RoutingTable[e] = Routes0[c]
  BY <1>2, <1>t DEF ConnectedStay
<1> SUFFICES ASSUME r.port \in Uplinks PROVE FALSE
  OBVIOUS
<1>4. e # i /\ a \in RoutingTable[e].net
  BY <1>1, <1>2, <1>3
<1>5. r.port # NoPort
  BY AssumptionParts
<1>6. PICK j \in DOMAIN Routes0 : r = Routes0[j]
  BY <1>1, <1>5, <1>t DEF RoutesInv
<1>7. PICK m, n : m = PrefixLen[r.net] /\ n = PrefixLen[RoutingTable[e].net]
  OBVIOUS
<1>8. m > n \/ m = n
  BY <1>1, <1>4, <1>7, Zenon
<1>9. m < n
  BY <1>1, <1>2, <1>3, <1>6, <1>7
<1>10. m \in Nat /\ n \in Nat
  <2> DEFINE R == [net : Nets, dist : Nat, hop : Addrs \cup {None}, port : Ports, proto : Protocols]
  <2>a. Routes0 \in Seq(R) /\ PrefixLen \in [Nets -> Nat]
    BY ForwardAssumption
  <2>b. \A z \in R : z.net \in Nets
    OBVIOUS
  <2>c. Routes0[j] \in R /\ Routes0[c] \in R
    <3> HIDE DEF R
    <3> QED
      BY <1>2, <1>6, <2>a
  <2>1. Routes0[j].net \in Nets /\ Routes0[c].net \in Nets /\ PrefixLen \in [Nets -> Nat]
    BY <2>a, <2>b, <2>c
  <2> QED
    BY <1>3, <1>6, <1>7, <2>1
<1> QED
  BY <1>8, <1>9, <1>10

LEMMA RouteOfStart ==
    ASSUME ConfOK, RoutesInv, NEW a, NEW r \in MatchRoute(a), r.port \in Ports
    PROVE  \E i \in DOMAIN Routes0 : Routes0[i].port = r.port /\ a \in Routes0[i].net
<1>t. RoutingTable \in Seq(Route0) /\ DOMAIN RoutingTable = 1 .. Len(RoutingTable)
  BY DEF ConfOK
<1>1. PICK i \in 1 .. Len(RoutingTable) : r = RoutingTable[i] /\ a \in RoutingTable[i].net
  BY DEF MatchRoute
<1>2. r.port # NoPort
  BY AssumptionParts
<1> QED
  BY <1>1, <1>2, <1>t DEF RoutesInv

(* What says that a packet is as it should be lasts as long as no port's   *)
(* translation changes.                                                    *)
LEMMA ProperStays ==
    ASSUME FInv, [Next]_vars, UNCHANGED IfacePolicies, touched \subseteq touched', waited \subseteq waited'
    PROVE  /\ \A k, p : Arrives(k, p) => Arrives(k, p)'
           /\ \A k : /\ Related(k) => Related(k)'
                     /\ Entering(k) => Entering(k)'
                     /\ Proper(k) => Proper(k)'
                     /\ Passing(k) => Passing(k)'
           /\ \A w : ProperAt(w) => ProperAt(w)'
<1>1. \A a : (Global(a) => Global(a)') /\ (Ours(a) => Ours(a)')
  BY SharersGrow DEF Global, Ours
<1>2. \A k, p : Arrives(k, p) => Arrives(k, p)'
  BY SharersGrow DEF Arrives, Homeward
<1>3. \A k : Bounced(k) => Bounced(k)'
  BY SharersGrow DEF Bounced, NATOutside
<1>4. ASSUME NEW k
      PROVE  /\ Related(k) => Related(k)'
             /\ Entering(k) => Entering(k)'
             /\ Proper(k) => Proper(k)'
             /\ Passing(k) => Passing(k)'
  <2>1. Related(k) => Related(k)'
    BY <1>1 DEF Related
  <2>2. Entering(k) => Entering(k)'
    BY <1>3 DEF Entering, Homeward
  <2>3. Proper(k) => Proper(k)'
    BY <1>1, <1>3 DEF Proper, Homeward
  <2>4. Passing(k) => Passing(k)'
    BY <1>1, <1>3 DEF Passing, Homeward
  <2> QED
    BY <2>1, <2>2, <2>3, <2>4
<1>5. ASSUME NEW w, ProperAt(w) PROVE ProperAt(w)'
  <2>1. PICK k, p, q : k = w.pkt /\ p = w.port /\ q = w.out
    OBVIOUS
  <2>2. /\ Arrives(k, p) => Arrives(k, p)'
        /\ Related(k) => Related(k)'
        /\ Entering(k) => Entering(k)'
        /\ Proper(k) => Proper(k)'
        /\ Passing(k) => Passing(k)'
    BY <1>2, <1>4
  <2>3. /\ w.at = "rx" => Arrives(k, p)
        /\ w.at = "in" => Related(k) /\ Entering(k)
        /\ w.at \in {"route", "nat"} => Related(k) /\ Proper(k)
        /\ w.at = "nat" => (Homeward(k) => q \notin Uplinks)
        /\ w.at \in {"out", "crypto", "arp"} => Related(k) /\ Passing(k)
        /\ w.at \in {"nat", "out", "crypto", "arp"} => ByRoute(k, q)
    BY <1>5, <2>1 DEF ProperAt
  <2> QED
    BY <2>1, <2>2, <2>3 DEF ProperAt, Homeward, ByRoute
<1> QED
  BY <1>2, <1>4, <1>5

(* A thread goes on with a packet that is as it should be.                 *)
LEMMA ProperMoves ==
    ASSUME FInv, PInv, [Next]_vars, UNCHANGED <<IfacePolicies, RoutingTable>>,
           touched \subseteq touched', waited \subseteq waited',
           NEW w, DOMAIN PAT' \subseteq Inside => ProperAt(w)',
           \A t \in Threads : work'[t] = work[t] \/ work'[t] = w,
           DOMAIN PAT' \subseteq Inside => \A f \in rx' \ rx : Arrives(f.pkt, f.port)',
           DOMAIN PAT' \subseteq Inside => \A k \in Waits' \ Waits : Related(k)' /\ Proper(k)'
    PROVE  PInv'
<1>c. ConnectedStay'
  BY DEF PInv, ConnectedStay
<1> SUFFICES ASSUME DOMAIN PAT' \subseteq Inside PROVE AllProper'
  BY <1>c DEF PInv
<1>g. AllProper
  BY TablesGrow DEF PInv
<1>1. ASSUME NEW t \in Threads PROVE ProperAt(work[t])'
  <2>1. PICK v : v = work'[t]
    OBVIOUS
  <2>2. v = w \/ ProperAt(v)
    BY <1>g, <2>1 DEF AllProper
  <2>3. ProperAt(v)'
    BY <2>2, ProperStays
  <2> QED
    BY <2>1, <2>3 DEF ProperAt
<1>2. ASSUME NEW f \in rx' PROVE Arrives(f.pkt, f.port)'
  <2>1. PICK k, p : k = f.pkt /\ p = f.port
    OBVIOUS
  <2>2. f \in rx => Arrives(k, p)
    BY <1>g, <2>1 DEF AllProper
  <2>3. f \in rx => Arrives(k, p)'
    BY <2>2, ProperStays
  <2> QED
    BY <2>1, <2>3
<1>3. ASSUME NEW k \in Waits' PROVE Related(k)' /\ Proper(k)'
  <2>1. k \in Waits => Related(k) /\ Proper(k)
    BY <1>g DEF AllProper
  <2> QED
    BY <2>1, ProperStays
<1> QED
  BY <1>1, <1>2, <1>3 DEF AllProper

LEMMA InitProper ==
    ASSUME EdgeRouter, Init
    PROVE  PInv
<1>1. ConnectedStay
  BY DEF Init, ConnectedStay
<1>2. traffic \in Traffic /\ rx = traffic.frames
  BY DEF Init
<1>3. \A f \in rx : Arrives(f.pkt, f.port)
  BY <1>2 DEF EdgeRouter, Arrives, Homeward
<1>4. \A t \in Threads : ProperAt(work[t])
  BY DEF Init, ProperAt, Idle
<1>5. DOMAIN <<>> = {}
  OBVIOUS
<1>6. Waits = {}
  BY <1>5 DEF Init, Waits
<1> QED
  BY <1>1, <1>3, <1>4, <1>6 DEF PInv, AllProper

LEMMA DeliverProper ==
    ASSUME FInv, PInv, [Next]_vars, DeliverToRouter
    PROVE  PInv'
<1>0. PICK Q : PacketsOK(Q)
  BY DEF FInv
<1>1. PICK f \in rx : /\ rx' = rx \ {f}
                      /\ GoOn(Loop, IF IsInterfaceUp(f.port) THEN [at |-> "rx", pkt |-> f.pkt, port |-> f.port]
                                    ELSE Idle)
  BY DEF DeliverToRouter
<1>2. UNCHANGED <<backlog, PacketQueue, IfacePolicies, RoutingTable, touched, waited>>
  BY DEF DeliverToRouter, NoOutput, Stay, conf
<1>3. ProperAt(Idle)
  BY DEF ProperAt, Idle
<1>4. AllProper => ProperAt([at |-> "rx", pkt |-> f.pkt, port |-> f.port])
  BY DEF ProperAt, AllProper
<1>5. PICK w : /\ w \in {Idle, [at |-> "rx", pkt |-> f.pkt, port |-> f.port]}
               /\ work' = [work EXCEPT ![Loop] = w]
  BY <1>1 DEF GoOn
<1>6. DOMAIN PAT' \subseteq Inside => ProperAt(w)'
  BY <1>2, <1>3, <1>4, <1>5, ProperStays, TablesGrow DEF PInv
<1>7. \A t \in Threads : work'[t] = work[t] \/ work'[t] = w
  BY <1>0, <1>5 DEF PacketsOK
<1> QED
  BY <1>1, <1>2, <1>6, <1>7, ProperMoves, WaitsStay

(* Whom a global address stands for is private.                            *)
LEMMA SharersInside ==
    ASSUME EdgeRouter, FInv, DOMAIN PAT \subseteq Inside, NEW g
    PROVE  Sharers(g) \subseteq Inside
<1>1. static \in Seq(Statics)
  BY DEF FInv, ConfOK
<1>2. \A i \in 1 .. Len(static) : static[i] \in Statics
  BY <1>1
<1> QED
  BY <1>2 DEF EdgeRouter, Sharers, PATHits, StaticHits

(* Translated, a packet is for a private address; if the port it came in   *)
(* by does not translate, the only one that could does not either.         *)
LEMMA NatInProper ==
    ASSUME EdgeRouter, FInv, PInv, [Next]_vars, NatIn
    PROVE  PInv'
<1>0. PICK Q : PacketsOK(Q)
  BY DEF FInv
<1>t. Loop \in Threads
  BY DEF Threads
<1>w. PICK w : w = work[Loop]
  OBVIOUS
<1>x. PICK x, p : x = w.pkt /\ p = w.port
  OBVIOUS
<1>1. PICK k \in TranslateInbound(p, x) : GoOn(Loop, [w EXCEPT !.at = "in", !.pkt = k])
  BY <1>w, <1>x DEF NatIn
<1>2. w \in Incoming(Q) /\ w.at = "rx"
  BY <1>0, <1>t, <1>w, WorkAt DEF NatIn, At
<1>3. p \in Ports /\ x \in Q /\ Closed(Q) /\ ConfOK
  BY <1>0, <1>2, <1>x DEF FInv, PacketsOK, Incoming
<1>q. k \in TranslateInbound(p, x)
  BY <1>1
<1>4. /\ k.src = x.src /\ k.id = x.id
      /\ k.dst = x.dst \/ k.dst \in Sharers(x.dst)
      /\ NATOutside(p) /\ Sharers(x.dst) # {} => k.dst \in Sharers(x.dst)
  BY <1>q, <1>3, InboundSharers
<1>5. PICK v : v = [w EXCEPT !.at = "in", !.pkt = k]
  OBVIOUS
<1>6. v.at = "in" /\ v.pkt = k
  BY <1>2, <1>5 DEF Incoming
<1>7. ASSUME DOMAIN PAT \subseteq Inside PROVE Related(k) /\ Entering(k)
  <2>1. Arrives(x, p)
    BY <1>7, <1>t, <1>w, <1>x, <1>2 DEF PInv, AllProper, ProperAt
  <2>2. \A g : Sharers(g) \subseteq Inside
    BY <1>7, SharersInside
  <2>3. CASE k.dst \in Sharers(x.dst)
    BY <2>2, <2>3 DEF Related, Ours, Entering, Homeward
  <2>4. CASE k.dst = x.dst /\ (x.src \in Inside \/ Homeward(x) \/ OwnsIP(x.dst))
    BY <1>4, <2>4 DEF Related, Ours, Global, Entering, Homeward
  <2>5. CASE k.dst = x.dst /\ k.dst \notin Sharers(x.dst) /\ StaticHits(2, x.dst) # {} /\ p \in Uplinks
    <3>1. Sharers(x.dst) # {}
      BY <2>5 DEF Sharers
    <3>2. ~NATOutside(p)
      BY <1>4, <2>5, <3>1
    <3>3. \A q \in Uplinks : q = p
      BY <2>5 DEF EdgeRouter
    <3>4. Bounced(k)
      BY <2>5, <3>2, <3>3 DEF Bounced
    <3> QED
      BY <2>5, <3>4 DEF Related, Ours, Global, Entering
  <2> QED
    BY <1>4, <2>1, <2>3, <2>4, <2>5 DEF Arrives
<1>8. UNCHANGED <<rx, backlog, PacketQueue, IfacePolicies, RoutingTable, touched, waited>>
  BY DEF NatIn, NoOutput, Stay, conf
<1>9. DOMAIN PAT' \subseteq Inside => ProperAt(v)'
  <2>1. DOMAIN PAT \subseteq Inside => ProperAt(v)
    BY <1>6, <1>7 DEF ProperAt
  <2> QED
    BY <1>8, <2>1, ProperStays, TablesGrow
<1>10. work' = [work EXCEPT ![Loop] = v] /\ DOMAIN work = Threads
  BY <1>0, <1>1, <1>5 DEF GoOn, PacketsOK
<1> QED
  BY <1>8, <1>9, <1>10, ProperMoves, WaitsStay

(* The router's reply is its own; what a tunnel carried is no transit.     *)
LEMMA HandleProper ==
    ASSUME EdgeRouter, FInv, AInv, PInv, [Next]_vars, HandleRouterIP
    PROVE  PInv'
<1>0. PICK Q : PacketsOK(Q)
  BY DEF FInv
<1>t. Loop \in Threads
  BY DEF Threads
<1>k. PICK k : k = work[Loop].pkt
  OBVIOUS
<1>1. k \in Q /\ Carried(k)
  BY <1>0, <1>t, <1>k, WorkAt DEF HandleRouterIP, At, Incoming, AInv, TracedAt
<1>g. DOMAIN PAT \subseteq Inside => Related(k) /\ Entering(k)
  BY <1>t, <1>k DEF PInv, AllProper, ProperAt, HandleRouterIP, At
<1>2. UNCHANGED <<rx, backlog, PacketQueue, IfacePolicies, RoutingTable, touched, waited>>
  BY DEF HandleRouterIP, NoOutput, Stay, conf
<1>m. ASSUME NEW w, GoOn(Loop, w), DOMAIN PAT \subseteq Inside => ProperAt(w) PROVE PInv'
  <2>1. work' = [work EXCEPT ![Loop] = w] /\ DOMAIN work = Threads
    BY <1>0, <1>m DEF GoOn, PacketsOK
  <2>2. DOMAIN PAT' \subseteq Inside => ProperAt(w)'
    BY <1>2, <1>m, ProperStays, TablesGrow
  <2> QED
    BY <1>2, <2>1, <2>2, ProperMoves, WaitsStay
<1>3. ASSUME NEW x, DOMAIN PAT \subseteq Inside => Related(x) /\ Proper(x), ToRoute(Loop, x) PROVE PInv'
  <2>1. DOMAIN PAT \subseteq Inside => ProperAt([at |-> "route", pkt |-> x])
    BY <1>3 DEF ProperAt
  <2> QED
    BY <1>m, <1>3, <2>1 DEF ToRoute
<1>4. ASSUME NEW x \in DecapsulateESP(k), k.kind = "esp" PROVE Related(x) /\ Proper(x)
  <2>1. PICK f \in traffic.frames : f.pkt.kind = "esp" /\ f.pkt.inner = k.inner
    BY <1>1, <1>4 DEF Carried
  <2>2. x = f.pkt.inner[1] /\ f.pkt \in Arriving
    BY <1>4, <2>1, AssumptionParts DEF DecapsulateESP, FInv, TablesOK
  <2>3. x.src \in Inside \/ x.dst \in Inside
    BY <2>1, <2>2 DEF EdgeRouter
  <2> QED
    BY <2>3 DEF Related, Ours, Proper, Homeward
<1>5. ASSUME OwnsIP(k.dst), NEW x, x = Packet(k.id, k.dst, k.src, "reply", 64) PROVE Related(x) /\ Proper(x)
  <2>1. x.kind = "reply" /\ x.src = k.dst
    BY <1>5 DEF Packet
  <2> QED
    BY <1>5, <2>1 DEF Related, Ours, Global, Proper, OfRouter
<1>6. ASSUME ~OwnsIP(k.dst), NEW x, x = [k EXCEPT !.ttl = @ - 1]
      PROVE  DOMAIN PAT \subseteq Inside => Related(x) /\ Proper(x)
  <2>1. k = [id |-> k.id, src |-> k.src, dst |-> k.dst, kind |-> k.kind, ttl |-> k.ttl, inner |-> k.inner]
    BY <1>0, <1>1 DEF PacketsOK, Closed, IsPacket, Packet
  <2>2. x.id = k.id /\ x.src = k.src /\ x.dst = k.dst
    BY <1>6, <2>1
  <2> QED
    BY <1>6, <1>g, <2>2 DEF Related, Entering, Proper, Homeward, Bounced
<1>7. \/ GoOn(Loop, Idle)
      \/ k.kind = "esp" /\ \E inner \in DecapsulateESP(k) : ToRoute(Loop, inner)
      \/ OwnsIP(k.dst) /\ ToRoute(Loop, Packet(k.id, k.dst, k.src, "reply", 64))
      \/ ~OwnsIP(k.dst) /\ ToRoute(Loop, [k EXCEPT !.ttl = @ - 1])
  BY <1>k, Zenon DEF HandleRouterIP, Done
<1>8. ProperAt(Idle)
  BY DEF ProperAt, Idle
<1>9. CASE GoOn(Loop, Idle)
  BY <1>8, <1>9, <1>m
<1>10. CASE k.kind = "esp" /\ \E inner \in DecapsulateESP(k) : ToRoute(Loop, inner)
  BY <1>3, <1>4, <1>10
<1>11. CASE OwnsIP(k.dst) /\ ToRoute(Loop, Packet(k.id, k.dst, k.src, "reply", 64))
  BY <1>3, <1>5, <1>11
<1>12. CASE ~OwnsIP(k.dst) /\ ToRoute(Loop, [k EXCEPT !.ttl = @ - 1])
  BY <1>3, <1>6, <1>12
<1> QED
  BY <1>7, <1>9, <1>10, <1>11, <1>12

(* A packet for a private address leaves by no uplink; one that is         *)
(* translated or encrypted has a source of the router from there on.       *)
LEMMA OutputProper ==
    ASSUME EdgeRouter, FInv, SInv, PInv, [Next]_vars,
           NEW t \in Threads, Route(t) \/ NatOut(t) \/ AclOut(t) \/ Encrypt(t)
    PROVE  PInv'
<1>0. PICK Q : PacketsOK(Q)
  BY DEF FInv
<1>i. ProperAt(Idle)
  BY DEF ProperAt, Idle
<1>w. PICK w : w = work[t]
  OBVIOUS
<1>x. PICK x, p : x = w.pkt /\ p = w.out
  OBVIOUS
<1>g. DOMAIN PAT \subseteq Inside => ProperAt(w)
  BY <1>w DEF PInv, AllProper
<1>u. /\ UNCHANGED <<rx, backlog, PacketQueue, waited>>
      /\ UNCHANGED <<IfacePolicies, RoutingTable, touched, static>>
  BY Zenon DEF Route, NatOut, AclOut, Encrypt, NoOutput, Stay, conf
<1>n. ASSUME NEW v, GoOn(t, v), DOMAIN PAT' \subseteq Inside => ProperAt(v)' PROVE PInv'
  <2>1. work' = [work EXCEPT ![t] = v] /\ DOMAIN work = Threads
    BY <1>0, <1>n DEF GoOn, PacketsOK
  <2> QED
    BY <1>n, <1>u, <2>1, ProperMoves, WaitsStay
<1>m. ASSUME NEW v, GoOn(t, v), DOMAIN PAT \subseteq Inside => ProperAt(v) PROVE PInv'
  <2>1. DOMAIN PAT' \subseteq Inside => ProperAt(v)'
    BY <1>m, <1>u, ProperStays, TablesGrow
  <2> QED
    BY <1>m, <1>n, <2>1
<1>1. CASE Route(t)
  <2>1. \/ GoOn(t, Idle)
        \/ \E r \in MatchRoute(x.dst) : \E h : GoOn(t, [at |-> "nat", pkt |-> x, out |-> r.port, hop |-> h])
    BY <1>1, <1>w, <1>x DEF Route, Done
  <2>2. ASSUME NEW r \in MatchRoute(x.dst), NEW v, v.at = "nat" /\ v.pkt = x /\ v.out = r.port
        PROVE  DOMAIN PAT \subseteq Inside => ProperAt(v)
    <3> SUFFICES ASSUME DOMAIN PAT \subseteq Inside PROVE ProperAt(v)
      OBVIOUS
    <3>1. Related(x) /\ Proper(x)
      BY <1>1, <1>g, <1>w, <1>x DEF Route, At, ProperAt
    <3>2. x.dst \in Inside => r.port \notin Uplinks
      BY HomewardIn DEF FInv, SInv, PInv
    <3>3. ByRoute(x, r.port)
      BY RouteOfStart DEF FInv, SInv, ByRoute
    <3> QED
      BY <2>2, <3>1, <3>2, <3>3 DEF ProperAt, Homeward
  <2>3. ASSUME NEW r \in MatchRoute(x.dst), NEW h,
               GoOn(t, [at |-> "nat", pkt |-> x, out |-> r.port, hop |-> h])
        PROVE  PInv'
    <3>1. PICK v : v = [at |-> "nat", pkt |-> x, out |-> r.port, hop |-> h]
      OBVIOUS
    <3>2. v.at = "nat" /\ v.pkt = x /\ v.out = r.port
      BY <3>1
    <3>3. DOMAIN PAT \subseteq Inside => ProperAt(v)
      BY <2>2, <3>2
    <3> QED
      BY <1>m, <2>3, <3>1, <3>3
  <2> QED
    BY <1>i, <1>m, <2>1, <2>3
<1>2. CASE NatOut(t)
  <2>1. PICK r \in TranslateOutbound(p, x) :
            GoOn(t, [w EXCEPT !.at = "out", !.pkt = r[1]]) /\ PAT' = r[2]
    BY <1>2, <1>w, <1>x DEF NatOut
  <2>2. w \in Outgoing(Q) /\ x \in Q /\ Closed(Q) /\ w.at = "nat"
    BY <1>0, <1>2, <1>w, <1>x, WorkAt DEF NatOut, Outgoing, PacketsOK, At
  <2>3. PICK y : y = r[1]
    OBVIOUS
  <2>4. PICK v : v = [w EXCEPT !.at = "out", !.pkt = y]
    OBVIOUS
  <2>5. v.at = "out" /\ v.pkt = y /\ v.out = p
    BY <1>x, <2>2, <2>4 DEF Outgoing
  <2>6. ASSUME DOMAIN PAT' \subseteq Inside
        PROVE  /\ Related(x)' /\ Passing(x)' /\ ByRoute(x, p)
    <3>1. Related(x) /\ Proper(x) /\ ByRoute(x, p)
      BY <1>g, <1>x, <2>2, <2>6, TablesGrow DEF ProperAt
    <3>2. Passing(x)
      BY <3>1 DEF Proper, Passing, Ours, OfRouter, Global
    <3> QED
      BY <1>u, <3>1, <3>2, ProperStays
  <2>7. CASE y = x
    <3>1. DOMAIN PAT' \subseteq Inside => ProperAt(v)'
      BY <2>5, <2>6, <2>7 DEF ProperAt, ByRoute
    <3> QED
      BY <1>n, <2>1, <2>3, <2>4, <3>1
  <2>8. ASSUME NEW g, y = [x EXCEPT !.src = g], TranslatedTo(x.src, g, r[2])
        PROVE  PInv'
    <3>0. x.src \in Addrs /\ PAT' = r[2] /\ ConfOK /\ TablesOK
      BY <2>1, <2>2 DEF Closed, IsPacket, FInv
    <3>1. OwnsIP(g) \/ StaticHits(2, g) # {}
      BY <1>u, <2>8, <3>0, TranslatedShares
    <3>2. y.id = x.id /\ y.kind = x.kind /\ y.dst = x.dst /\ y.src = g
      BY <2>2, <2>8 DEF Closed, IsPacket, Packet
    <3>3. Ours(y.src)'
      BY <3>1, <3>2, SharersGrow DEF Ours, Global
    <3>4. DOMAIN PAT' \subseteq Inside => ProperAt(v)'
      BY <2>5, <2>6, <3>2, <3>3 DEF ProperAt, ByRoute, Related, Passing
    <3> QED
      BY <1>n, <2>1, <2>3, <2>4, <3>4
  <2>9. PICK o, z : o = p /\ z = r /\ z \in TranslateOutbound(o, x)
    BY <2>1
  <2>10. z[1] = x \/ \E g : z[1] = [x EXCEPT !.src = g] /\ TranslatedTo(x.src, g, z[2])
    BY <2>9, Translations, Zenon
  <2> QED
    BY <2>3, <2>7, <2>8, <2>9, <2>10
<1>3. CASE AclOut(t)
  <2>1. w \in Outgoing(Q) /\ w.at = "out"
    BY <1>0, <1>3, <1>w, WorkAt DEF AclOut, At
  <2>2. GoOn(t, Idle) \/ GoOn(t, [w EXCEPT !.at = "crypto"])
    BY <1>3, <1>w DEF AclOut
  <2>3. PICK v : v = [w EXCEPT !.at = "crypto"]
    OBVIOUS
  <2>4. v.at = "crypto" /\ v.pkt = x /\ v.out = p
    BY <1>x, <2>1, <2>3 DEF Outgoing
  <2>5. DOMAIN PAT \subseteq Inside => ProperAt(v)
    BY <1>g, <1>x, <2>1, <2>4 DEF ProperAt
  <2> QED
    BY <1>i, <1>m, <2>2, <2>3, <2>5
<1>4. CASE Encrypt(t)
  <2>1. w \in Outgoing(Q) /\ x \in Q /\ Closed(Q) /\ w.at = "crypto"
    BY <1>0, <1>4, <1>w, <1>x, WorkAt DEF Encrypt, Outgoing, PacketsOK, At
  <2>2. \/ GoOn(t, [w EXCEPT !.at = "arp"])
        \/ \E peer \in MatchCryptoTunnel(p, x) :
              GoOn(t, [w EXCEPT !.at = "arp", !.hop = peer, !.pkt = EncapsulateESP(x, peer, p)])
    BY <1>4, <1>w, <1>x DEF Encrypt
  <2>3. CASE GoOn(t, [w EXCEPT !.at = "arp"])
    <3>1. PICK v : v = [w EXCEPT !.at = "arp"]
      OBVIOUS
    <3>2. v.at = "arp" /\ v.pkt = x /\ v.out = p
      BY <1>x, <2>1, <3>1 DEF Outgoing
    <3>3. DOMAIN PAT \subseteq Inside => ProperAt(v)
      BY <1>g, <1>x, <2>1, <3>2 DEF ProperAt
    <3> QED
      BY <1>m, <2>3, <3>1, <3>3
  <2>4. ASSUME NEW peer \in MatchCryptoTunnel(p, x), NEW y, y = EncapsulateESP(x, peer, p),
               GoOn(t, [w EXCEPT !.at = "arp", !.hop = peer, !.pkt = y])
        PROVE  PInv'
    <3>1. p \in Ports /\ peer \in Addrs
      BY <2>4, TunnelOK DEF FInv
    <3>2. y.kind = "esp" /\ y.src = IfAddr[p]
      <4>1. Wraps(Q, x, p, y)
        BY <2>1, <2>4, <3>1, Wrap
      <4> QED
        BY <4>1 DEF Wraps
    <3>3. Ours(y.src)
      BY <3>1, <3>2 DEF Ours, Global, OwnsIP
    <3>4. PICK v : v = [w EXCEPT !.at = "arp", !.hop = peer, !.pkt = y]
      OBVIOUS
    <3>5. v.at = "arp" /\ v.pkt = y
      BY <2>1, <3>4 DEF Outgoing
    <3>6. ProperAt(v)
      BY <3>2, <3>3, <3>5 DEF ProperAt, Related, Passing, ByRoute
    <3> QED
      BY <1>m, <2>4, <3>4, <3>6
  <2> QED
    BY <2>2, <2>3, <2>4
<1> QED
  BY <1>1, <1>2, <1>3, <1>4

(* A server is asked by those the router serves, so its reply comes in by  *)
(* the uplink for one of them.                                             *)
LEMMA SendProper ==
    ASSUME EdgeRouter, FInv, PInv, [Next]_vars, NEW t \in Threads, Send(t)
    PROVE  PInv'
<1>0. PICK Q : PacketsOK(Q)
  BY DEF FInv
<1>w. PICK w : w = work[t]
  OBVIOUS
<1>x. PICK x, p : x = w.pkt /\ p = w.out
  OBVIOUS
<1>1. DOMAIN PAT \subseteq Inside => Related(x) /\ ByRoute(x, p)
  BY <1>w, <1>x DEF PInv, AllProper, ProperAt, Send, At
<1>2. PICK f : f = [port |-> p, pkt |-> x]
  OBVIOUS
<1>3. f.pkt = x /\ f.port = p
  BY <1>2
<1>4. rx' = rx \/ (p \in Ports /\ rx' = rx \cup ServerReplies(f))
  BY <1>2, <1>3, <1>w, <1>x DEF Send
<1>5. ASSUME NEW g \in ServerReplies(f), p \in Ports, DOMAIN PAT \subseteq Inside PROVE Arrives(g.pkt, g.port)
  <2>1. x.kind = "echo" /\ x.dst \in Servers
        /\ g = [port |-> p, pkt |-> Packet(<<"re", x.id>>, x.dst, x.src, "reply", 64)]
    BY <1>3, <1>5 DEF ServerReplies
  <2>2. g.port = p /\ g.pkt.dst = x.src
    BY <2>1 DEF Packet
  <2>3. p \in Uplinks
    BY <1>1, <1>5, <2>1 DEF ByRoute, EdgeRouter
  <2>4. StaticHits(2, x.dst) = {}
    <3>1. static \in Seq(Statics)
      BY DEF FInv, ConfOK
    <3>2. \A i \in 1 .. Len(static) : static[i] \in Statics
      BY <3>1
    <3> QED
      BY <2>1, <3>2 DEF EdgeRouter, StaticHits
  <2>5. ~Ours(x.dst)
    BY <2>1, <2>4 DEF EdgeRouter, Ours, Global
  <2>6. Ours(x.src)
    BY <1>1, <1>5, <2>5 DEF Related
  <2> QED
    BY <2>2, <2>3, <2>6 DEF Ours, Global, Arrives, Homeward
<1>6. UNCHANGED <<PAT, backlog, PacketQueue, IfacePolicies, RoutingTable, touched, waited>>
  BY DEF Send, Stay, conf
<1>7. ASSUME DOMAIN PAT' \subseteq Inside, NEW g \in rx' \ rx PROVE Arrives(g.pkt, g.port)'
  <2>1. PICK y, q : y = g.pkt /\ q = g.port
    OBVIOUS
  <2>2. Arrives(y, q)
    BY <1>4, <1>5, <1>6, <1>7, <2>1
  <2>3. Arrives(y, q)'
    BY <1>6, <2>2, ProperStays
  <2> QED
    BY <2>1, <2>3
<1>8. work' = [work EXCEPT ![t] = Idle] /\ DOMAIN work = Threads
  BY <1>0 DEF Send, Done, GoOn, PacketsOK
<1>9. ProperAt(Idle)'
  BY DEF ProperAt, Idle
<1> QED
  BY <1>6, <1>7, <1>8, <1>9, ProperMoves, WaitsStay

(* What waited has an address of the router's, a private one, or is bound  *)
(* for one.                                                                *)
LEMMA WaitingProper ==
    ASSUME FInv, PInv, [Next]_vars,
           (\E t \in Threads : Queue(t)) \/ HandleRouterARP \/ ForwardQueued \/ StartPing
    PROVE  PInv'
<1>0. PICK Q : PacketsOK(Q)
  BY DEF FInv
<1>t. Loop \in Threads /\ Conn \in Threads /\ DOMAIN work = Threads
  BY <1>0 DEF Threads, PacketsOK
<1>i. ProperAt(Idle)'
  BY DEF ProperAt, Idle
<1>1. ASSUME NEW t \in Threads, Queue(t) PROVE PInv'
  <2>1. /\ UNCHANGED <<PAT, rx, IfacePolicies, RoutingTable, touched>>
        /\ waited' = waited \cup {work[t].pkt.id} /\ work' = [work EXCEPT ![t] = Idle]
    BY <1>1 DEF Queue, Done, GoOn, Stay, conf
  <2>2. PICK x : x = work[t].pkt
    OBVIOUS
  <2>3. DOMAIN PAT \subseteq Inside => Related(x) /\ Passing(x)
    BY <1>1, <2>2 DEF PInv, AllProper, ProperAt, Queue, At
  <2>4. touched \subseteq touched' /\ waited \subseteq waited'
    BY <2>1
  <2>5. DOMAIN PAT' \subseteq Inside => Related(x)' /\ Passing(x)'
    BY <2>1, <2>3, <2>4, ProperStays
  <2>6. Passing(x)' => Proper(x)'
    BY <2>1, <2>2 DEF Passing, Proper, Ours
  <2>7. DOMAIN PAT' \subseteq Inside => \A k \in Waits' \ Waits : Related(k)' /\ Proper(k)'
    BY <1>1, <2>2, <2>5, <2>6, WaitsQueue
  <2> QED
    BY <1>i, <1>t, <2>1, <2>4, <2>7, ProperMoves
<1>2. CASE HandleRouterARP
  <2>1. UNCHANGED <<rx, work, IfacePolicies, RoutingTable, touched, waited>>
    BY <1>2 DEF HandleRouterARP, Stay, conf
  <2> QED
    BY <1>2, <1>i, <2>1, WaitsARP, ProperMoves
<1>3. CASE ForwardQueued
  <2>1. PICK k : k = Head(backlog) /\ k \in Waits
    BY <1>3, WaitsForwarded
  <2>2. PICK w : w = [at |-> "route", pkt |-> k]
    OBVIOUS
  <2>3. UNCHANGED <<PAT, rx, IfacePolicies, RoutingTable, touched, waited>>
        /\ work' = [work EXCEPT ![Loop] = w]
    BY <1>3, <2>1, <2>2 DEF ForwardQueued, ToRoute, GoOn, NoOutput, Stay, conf
  <2>4. DOMAIN PAT \subseteq Inside => ProperAt(w)
    BY <2>1, <2>2 DEF ProperAt, PInv, AllProper
  <2>5. DOMAIN PAT' \subseteq Inside => ProperAt(w)'
    BY <2>3, <2>4, ProperStays
  <2> QED
    BY <1>3, <1>t, <2>3, <2>5, WaitsForwarded, ProperMoves
<1>4. CASE StartPing
  <2>1. UNCHANGED <<PAT, rx, backlog, PacketQueue, IfacePolicies, RoutingTable, touched, waited>>
    BY <1>4 DEF StartPing, NoOutput, Stay, conf
  <2>2. UNCHANGED work \/ \E a \in toPing, p \in Ports : ToRoute(Conn, Packet(<<"ping", a>>, IfAddr[p], a, "echo", 64))
    BY <1>4 DEF StartPing
  <2>3. CASE UNCHANGED work
    BY <1>i, <2>1, <2>3, ProperMoves, WaitsStay
  <2>4. ASSUME NEW a \in toPing, NEW p \in Ports, ToRoute(Conn, Packet(<<"ping", a>>, IfAddr[p], a, "echo", 64))
        PROVE  PInv'
    <3>1. PICK k : k = Packet(<<"ping", a>>, IfAddr[p], a, "echo", 64)
      OBVIOUS
    <3>2. k.id = <<"ping", a>> /\ k.src = IfAddr[p] /\ a \in Addrs
      BY <3>1 DEF Packet, FInv, TablesOK
    <3>3. OwnsIP(k.src)
      BY <3>2 DEF OwnsIP
    <3>4. Related(k) /\ Proper(k)
      BY <3>2, <3>3 DEF Related, Ours, Global, Proper, OfRouter
    <3>5. PICK w : w = [at |-> "route", pkt |-> k]
      OBVIOUS
    <3>6. ProperAt(w)
      BY <3>4, <3>5 DEF ProperAt
    <3>7. ProperAt(w)'
      BY <2>1, <3>6, ProperStays
    <3>8. work' = [work EXCEPT ![Conn] = w]
      BY <2>4, <3>1, <3>5 DEF ToRoute, GoOn
    <3> QED
      BY <1>t, <2>1, <3>7, <3>8, ProperMoves, WaitsStay
  <2> QED
    BY <2>2, <2>3, <2>4
<1> QED
  BY <1>1, <1>2, <1>3, <1>4

(* A change touches every packet under way; frames still on the wire stay  *)
(* as they came.                                                           *)
LEMMA ChangeProper ==
    ASSUME FInv, PInv, [Next]_vars, NoPacket, touched' = touched \cup UnderWay, ConnectedStay'
    PROVE  PInv'
<1> SUFFICES ASSUME DOMAIN PAT \subseteq Inside PROVE AllProper'
  BY DEF PInv, NoPacket
<1>0. AllProper
  BY DEF PInv
<1>1. UNCHANGED <<rx, work, backlog, PacketQueue>>
  BY DEF NoPacket
<1>2. \A k, p : Arrives(k, p) => Arrives(k, p)'
  BY SharersGrow DEF Arrives, Homeward
<1>3. \A k : Related(k) => Related(k)'
  BY SharersGrow DEF Related, Ours, Global
<1>4. \A k : k.id \in UnderWay => Entering(k)' /\ Proper(k)' /\ Passing(k)'
  BY DEF Entering, Proper, Passing
<1>5. ASSUME NEW t \in Threads PROVE ProperAt(work[t])'
  <2>w. PICK w : w = work[t]
    OBVIOUS
  <2>k. PICK k, p, q : k = w.pkt /\ p = w.port /\ q = w.out
    OBVIOUS
  <2>1. /\ w.at = "rx" => Arrives(k, p)
        /\ w.at \in {"in", "route", "nat", "out", "crypto", "arp"} => Related(k)
        /\ w.at = "nat" => (Homeward(k) => q \notin Uplinks)
        /\ w.at \in {"nat", "out", "crypto", "arp"} => ByRoute(k, q)
    BY <1>0, <2>w, <2>k DEF AllProper, ProperAt
  <2>2. w.at # "idle" => k.id \in UnderWay
    BY <2>w, <2>k DEF UnderWay, At
  <2>3. /\ w.at = "rx" => Arrives(k, p)'
        /\ w.at \in {"in", "route", "nat", "out", "crypto", "arp"} =>
              Related(k)' /\ Entering(k)' /\ Proper(k)' /\ Passing(k)'
    BY <1>2, <1>3, <1>4, <2>1, <2>2
  <2>4. ProperAt(w)'
    BY <2>k, <2>1, <2>3 DEF ProperAt, Homeward, ByRoute
  <2> QED
    BY <1>1, <2>w, <2>4 DEF ProperAt
<1>6. ASSUME NEW f \in rx PROVE Arrives(f.pkt, f.port)'
  BY <1>0, <1>2 DEF AllProper
<1>7. ASSUME NEW k \in Waits PROVE Related(k)' /\ Proper(k)'
  <2>1. k.id \in UnderWay
    BY DEF Waits, UnderWay
  <2> QED
    BY <1>0, <1>3, <1>4, <2>1 DEF AllProper
<1>8. Waits' = Waits
  BY <1>1, WaitsStay
<1> QED
  BY <1>1, <1>5, <1>6, <1>7, <1>8 DEF AllProper

LEMMA ConfigureProper ==
    ASSUME FInv, PInv, [Next]_vars, Configure
    PROVE  PInv'
<1>1. NoPacket /\ touched' = touched \cup UnderWay
  BY ConfiguresApart DEF Edit
<1>2. UNCHANGED RoutingTable
  BY DEF Configure, CONFIG_ACL, APPLY_ACL, ApplyIfaceACL, INTERFACE_SHUTDOWN, CONFIG_NAT_STATIC,
         CONFIG_NAT_OVERLOAD, CONFIG_CRYPTO_MAP, NEGOTIATE_IKE, NoPeer
<1>3. ConnectedStay'
  BY <1>2 DEF PInv, ConnectedStay
<1> QED
  BY <1>1, <1>3, ChangeProper

(* The route of a tunnel replaces static routes only.                      *)
LEMMA InstallProper ==
    ASSUME FInv, PInv, [Next]_vars, NEW peer \in installing, InstallVPNRoutes(peer)
    PROVE  PInv'
<1>1. NoPacket /\ touched' = touched \cup UnderWay
  BY DEF InstallVPNRoutes
<1>2. RoutingTable \in Seq(Route0) /\ DOMAIN RoutingTable = 1 .. Len(RoutingTable)
  BY DEF FInv, ConfOK
<1>3. PICK r : r = VPNRoute(peer, IKEPeers[peer])
  OBVIOUS
<1>4. r.proto = "static"
  BY <1>3 DEF VPNRoute
<1>5. RoutingTable' = RoutingTable \/ RoutingTable' = AddRoute(RoutingTable, r)
  BY <1>3 DEF InstallVPNRoutes
<1>6. \A i \in DOMAIN RoutingTable : RoutingTable[i].proto # "static" =>
          i \in DOMAIN RoutingTable' /\ RoutingTable'[i] = RoutingTable[i]
  <2> DEFINE same == {i \in 1 .. Len(RoutingTable) :
                        RoutingTable[i].net = r.net /\ RoutingTable[i].proto = r.proto}
  <2>1. CASE RoutingTable' = RoutingTable
    BY <2>1
  <2>2. CASE RoutingTable' = AddRoute(RoutingTable, r) /\ same = {}
    <3>1. RoutingTable' = Append(RoutingTable, r)
      BY <2>2 DEF AddRoute
    <3> QED
      BY <1>2, <3>1
  <2>3. CASE RoutingTable' = AddRoute(RoutingTable, r) /\ same # {}
    <3>1. RoutingTable' = [i \in DOMAIN RoutingTable |-> IF i \in same THEN r ELSE RoutingTable[i]]
      BY <2>3 DEF AddRoute
    <3> QED
      BY <1>2, <1>4, <3>1
  <2> QED
    BY <1>5, <2>1, <2>2, <2>3
<1>7. ConnectedStay'
  BY <1>6 DEF PInv, ConnectedStay
<1> QED
  BY <1>1, <1>7, ChangeProper

LEMMA ProperStaysAll ==
    EdgeRouter /\ FInv /\ SInv /\ AInv /\ PInv /\ [Next]_vars => PInv'
<1> SUFFICES ASSUME EdgeRouter, FInv, SInv, AInv, PInv, [Next]_vars PROVE PInv'
  OBVIOUS
<1>1. CASE UNCHANGED vars
  <2>1. UNCHANGED <<rx, work, backlog, PacketQueue, IfacePolicies, RoutingTable, touched, waited>>
    BY <1>1 DEF vars, conf
  <2>2. ProperAt(Idle)'
    BY DEF ProperAt, Idle
  <2> QED
    BY <2>1, <2>2, ProperMoves, WaitsStay
<1>2. ASSUME NEW t \in Threads, Route(t) \/ NatOut(t) \/ AclOut(t) \/ Encrypt(t) \/ Send(t) \/ Queue(t)
      PROVE  PInv'
  BY <1>2, OutputProper, SendProper, WaitingProper
<1>3. CASE DeliverToRouter
  BY <1>3, DeliverProper
<1>6. CASE NatIn
  BY <1>6, NatInProper
<1>7. CASE HandleRouterIP
  BY <1>7, HandleProper
<1>4. CASE HandleRouterARP \/ ForwardQueued \/ StartPing
  BY <1>4, WaitingProper
<1>5. CASE Configure \/ \E peer \in installing : InstallVPNRoutes(peer)
  BY <1>5, ConfigureProper, InstallProper
<1> QED
  BY <1>1, <1>2, <1>3, <1>4, <1>5, <1>6, <1>7 DEF Next

(* A table gets an entry for the source of a packet that is about to leave *)
(* by an uplink.                                                           *)
LEMMA EntryMade ==
    ASSUME FInv, [Next]_vars, NEW a \in DOMAIN PAT', a \notin DOMAIN PAT
    PROVE  \E t \in Threads : /\ At(t, "nat") /\ work[t].pkt.src = a
                              /\ NATOutside(work[t].out) /\ work[t].out \in Uplinks
<1>1. PICK t \in Threads : NatOut(t)
  <2>1. UNCHANGED PAT \/ \E t \in Threads : NatOut(t)
    <3>1. UNCHANGED vars => UNCHANGED PAT
      BY DEF vars
    <3>2. DeliverToRouter \/ HandleRouterARP \/ ForwardQueued \/ StartPing => UNCHANGED PAT
      BY Zenon DEF DeliverToRouter, HandleRouterARP, ForwardQueued, StartPing
    <3>6. NatIn \/ HandleRouterIP => UNCHANGED PAT
      BY Zenon DEF NatIn, HandleRouterIP
    <3>3. ASSUME NEW t \in Threads, Route(t) \/ AclOut(t) \/ Encrypt(t) \/ Send(t) \/ Queue(t) PROVE UNCHANGED PAT
      BY <3>3, Zenon DEF Route, AclOut, Encrypt, Send, Queue
    <3>4. Configure => UNCHANGED PAT
      BY ConfiguresApart DEF NoPacket
    <3>5. \A peer : InstallVPNRoutes(peer) => UNCHANGED PAT
      BY DEF InstallVPNRoutes, NoPacket
    <3> QED
      BY <3>1, <3>2, <3>3, <3>4, <3>5, <3>6 DEF Next
  <2> QED
    BY <2>1
<1>2. PICK x, p : x = work[t].pkt /\ p = work[t].out
  OBVIOUS
<1>3. PICK r \in TranslateOutbound(p, x) : PAT' = r[2]
  BY <1>1, <1>2 DEF NatOut
<1>4. PICK table : table = r[2]
  OBVIOUS
<1>5. NATOutside(p) /\ \E g : TranslatedTo(x.src, g, table)
  <2>1. r[2] = PAT \/ (NATOutside(p) /\ \E g : TranslatedTo(x.src, g, r[2]))
    BY Translations, Zenon
  <2> QED
    BY <1>3, <1>4, <2>1
<1>6. a = x.src
  BY <1>3, <1>4, <1>5 DEF TranslatedTo, Recorded
<1>7. p \in Uplinks
  BY <1>5, OutsidePort DEF FInv
<1> QED
  BY <1>1, <1>2, <1>5, <1>6, <1>7 DEF NatOut

(* PAT entries stand for private addresses until one is made for a packet  *)
(* of the router, for one that was translated, waited and is translated    *)
(* again, or for one that was under way during a change: TranslateOutbound *)
(* makes none for an address of the outside.                               *)
THEOREM EntriesForSenders == EdgeRouter => (Spec => PATForSenders)
<1> SUFFICES ASSUME EdgeRouter PROVE Spec => PATForSenders
  OBVIOUS
<1>1. Init => FInv /\ SInv /\ AInv /\ PInv
  BY InitTypes, InitPassed, InitTraced, InitProper
<1>2. FInv /\ SInv /\ AInv /\ PInv /\ [Next]_vars => (FInv /\ SInv /\ AInv /\ PInv)'
  BY TypesStay, PassedStays, TracedStays, ProperStaysAll
<1>3. FInv /\ PInv /\ [Next]_vars =>
        [DOMAIN PAT \subseteq Inside =>
          \A a \in DOMAIN PAT' \ Inside : \E t \in Threads :
             LET k == work[t].pkt
             IN  /\ At(t, "nat") /\ k.src = a
                 /\ \/ OfRouter(k)
                    \/ Global(a) /\ k.id \in waited
                    \/ k.id \in touched]_vars
  <2> SUFFICES ASSUME FInv, PInv, [Next]_vars, DOMAIN PAT \subseteq Inside, NEW a \in DOMAIN PAT' \ Inside
               PROVE  \E t \in Threads : /\ At(t, "nat") /\ work[t].pkt.src = a
                                         /\ \/ OfRouter(work[t].pkt)
                                            \/ Global(a) /\ work[t].pkt.id \in waited
                                            \/ work[t].pkt.id \in touched
    OBVIOUS
  <2>1. PICK t \in Threads : /\ At(t, "nat") /\ work[t].pkt.src = a
                             /\ NATOutside(work[t].out) /\ work[t].out \in Uplinks
    BY EntryMade
  <2>2. PICK w, k : w = work[t] /\ k = w.pkt
    OBVIOUS
  <2>3. Proper(k) /\ (Homeward(k) => w.out \notin Uplinks)
    BY <2>1, <2>2 DEF PInv, AllProper, ProperAt, At
  <2>4. ~Homeward(k) /\ ~Bounced(k)
    BY <2>1, <2>2, <2>3 DEF Bounced
  <2>5. k.id \in touched \/ OfRouter(k) \/ (Global(k.src) /\ k.id \in waited)
    BY <2>1, <2>2, <2>3, <2>4 DEF Proper
  <2> QED
    BY <2>1, <2>2, <2>5
<1> QED
  BY <1>1, <1>2, <1>3, PTL DEF Spec, PATForSenders
=============================================================================
