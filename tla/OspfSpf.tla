------------------------------ MODULE OspfSpf ------------------------------
(***************************************************************************)
(* ComputeSPF (engine/network/protocol/ospf.go): Dijkstra's algorithm over *)
(* the link-state database of one router, one iteration per step.          *)
(*                                                                         *)
(* The Go maps of the code are sequences of distinct keys in no particular *)
(* order, so the next node is any of the nearest.  A key that is missing   *)
(* from the map distances reads as 0, as a Go map does.                    *)
(***************************************************************************)
EXTENDS Integers, FiniteSets

CONSTANTS
    Routers,    \* router identifiers
    Subnets,    \* stub networks
    Root,       \* the router that runs the algorithm
    Infinity    \* 999999

ASSUME SpfAssumption ==
    /\ IsFiniteSet(Routers) /\ Root \in Routers
    /\ Routers \cap Subnets = {}
    /\ Infinity \in Nat /\ Cardinality(Routers) < Infinity

(* Mutant: the two costs are swapped.                                      *)
MutCost(id) == IF id \in Subnets THEN 1 ELSE 0

(* GenerateRouterLsa: links to routers cost 1, stub networks cost 0.       *)
Cost(id) == IF id \in Subnets THEN 0 ELSE 1
Links == SUBSET (Routers \cup Subnets)

VARIABLES
    lsdb,       \* lsdb[r]: what r's LSA links to; r is in DOMAIN lsdb if there is one
    distances, nextHops, visited,
    iterations, \* i of the for loop
    done

spfVars == <<lsdb, distances, nextHops, visited, iterations, done>>

-----------------------------------------------------------------------------
(* Reading a key that is not there yields the zero value.                  *)
Get(map, key, zero) == IF key \in DOMAIN map THEN map[key] ELSE zero

(* The database holds the root's own LSA, and no LSA links to itself.      *)
SpfInit ==
    /\ \E known \in {K \in SUBSET Routers : Root \in K} :
         lsdb \in {f \in [known -> Links] : \A r \in known : r \notin f[r]}
    /\ distances = [n \in DOMAIN lsdb |-> IF n = Root THEN 0 ELSE Infinity]
    /\ nextHops = [n \in {} |-> Root]
    /\ visited = {}
    /\ iterations = 0
    /\ done = FALSE

(* u has the smallest distance of the nodes not visited, below Infinity.   *)
Nearest(u) ==
    /\ u \in DOMAIN distances \ visited
    /\ distances[u] < Infinity
    /\ \A n \in DOMAIN distances \ visited : distances[u] <= distances[n]

(* Mutant: a missing distance is Infinity.                                 *)
MutImproves(u, n) ==
    /\ n \notin visited \cup {u}
    /\ distances[u] + Cost(n) < Get(distances, n, Infinity)

(* A link of u's LSA that shortens the way to n.                           *)
Improves(u, n) ==
    /\ n \notin visited \cup {u}
    /\ distances[u] + Cost(n) < Get(distances, n, 0)

(* Mutant: the next hop is always the node itself.                         *)
MutNextHopVia(u, n) == n

NextHopVia(u, n) == IF u = Root THEN n ELSE nextHops[u]

(* One iteration: visit u, relax its links.  A node without an LSA has no  *)
(* links (lsdb[u] is the zero value).                                      *)
Relax(u) ==
    /\ ~done /\ iterations < Cardinality(DOMAIN lsdb)
    /\ Nearest(u)
    /\ LET better == {n \in Get(lsdb, u, {}) : Improves(u, n)} IN
         /\ distances' = [n \in DOMAIN distances \cup better |->
                IF n \in better THEN distances[u] + Cost(n) ELSE distances[n]]
         /\ nextHops' = [n \in DOMAIN nextHops \cup better |->
                IF n \in better THEN NextHopVia(u, n) ELSE nextHops[n]]
    /\ visited' = visited \cup {u}
    /\ iterations' = iterations + 1
    /\ UNCHANGED <<lsdb, done>>

(* The loop ends: enough iterations, or nothing reachable is left.         *)
Finish ==
    /\ ~done
    /\ iterations = Cardinality(DOMAIN lsdb) \/ \A u \in DOMAIN distances : ~Nearest(u)
    /\ done' = TRUE
    /\ UNCHANGED <<lsdb, distances, nextHops, visited, iterations>>

Finished == done /\ UNCHANGED spfVars

SpfNext == (\E u \in DOMAIN distances : Relax(u)) \/ Finish \/ Finished

SpfSpec == SpfInit /\ [][SpfNext]_spfVars

(* The destinations of the result: a metric below Infinity, not the root.  *)
Results == {n \in DOMAIN distances : n # Root /\ distances[n] < Infinity}

-----------------------------------------------------------------------------
SpfTypeOK ==
    /\ DOMAIN lsdb \subseteq Routers
    /\ DOMAIN lsdb \subseteq DOMAIN distances
    /\ \A n \in DOMAIN distances : distances[n] \in 0 .. Infinity
    /\ visited \subseteq DOMAIN distances
    /\ iterations = Cardinality(visited)

(* Reference: the ways from the root to n over k links, each of them in    *)
(* the LSA of the router it leaves, and each to a router whose LSA is known.*)
Paths(k, n) ==
    {p \in [0 .. k -> DOMAIN lsdb] :
        p[0] = Root /\ p[k] = n /\ \A i \in 1 .. k : p[i] \in lsdb[p[i - 1]]}

(* Of the routers, the result lists exactly those that can be reached over *)
(* known LSAs, each with the length of a shortest path, whatever order the *)
(* map iteration picks equal nodes in.  (A shortest path has fewer links   *)
(* than there are routers.)                                                *)
ShortestPaths ==
    done => \A n \in Routers \ {Root} :
              /\ n \in Results => Paths(distances[n], n) # {}
              /\ \A k \in 0 .. Cardinality(DOMAIN lsdb) - 1 :
                   Paths(k, n) # {} => n \in Results /\ distances[n] <= k

(* The next hop of a destination is a neighbour of the root that lies on a *)
(* shortest path to it.                                                    *)
NextHopOnShortestPath ==
    done => \A n \in Results \cap Routers :
              \E p \in Paths(distances[n], n) : p[1] = nextHops[n]

(* What ComputeSPF promises: the shortest distances, and next hops that    *)
(* lie on such paths.                                                      *)
SPFCorrect == SpfTypeOK /\ ShortestPaths /\ NextHopOnShortestPath

(* RunOspfSPF installs routes to subnets only, and no subnet is ever in    *)
(* the result, whatever the database: the missing distance reads as 0,     *)
(* which nothing improves.                                                 *)
NoSubnetReached == Results \cap Subnets = {}
=============================================================================
