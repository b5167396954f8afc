-------------------------------- MODULE Dhcp --------------------------------
(***************************************************************************)
(* The address pool of a router: DHCPPool, HandleDHCPDiscover and          *)
(* nextPoolIPLocked in router_services.go.                                 *)
(*                                                                         *)
(* An address is a pair of a network and a host number; host number 0 is   *)
(* the network's own address.  A router has at most one pool.              *)
(***************************************************************************)
EXTENDS Integers, TLC, Functions

CONSTANTS
    PoolHosts,   \* the host numbers from 2 to 253 that are in a pool's network
    Excluded,    \* the excluded addresses
    NoPool

ASSUME PoolAssumption == PoolHosts \subseteq 2..253

(* AddDHCPPool: a pool that replaces another forgets its leases.           *)
AddDHCPPool(net) == [net |-> net, Assigned |-> <<>>]

(* SetDHCPPoolNetwork: the leases stay.                                    *)
SetDHCPPoolNetwork(pool, net) ==
    IF pool = NoPool THEN AddDHCPPool(net) ELSE [pool EXCEPT !.net = net]

(* nextPoolIPLocked: the first address nobody has, the network's own when  *)
(* there is none.                                                          *)
FreeHosts(pool, ifaces) ==
    {h \in PoolHosts : <<pool.net, h>> \notin Range(pool.Assigned) \cup ifaces \cup Excluded}
(* Mutant: the addresses of the other clients are not looked at.           *)
MutNextPoolIP(pool, ifaces) ==
    {<<pool.net, h>> : h \in {h \in PoolHosts : <<pool.net, h>> \notin ifaces /\ \A g \in PoolHosts : h <= g}}
NextPoolIP(pool, ifaces) ==
    LET free == FreeHosts(pool, ifaces)
    IN  IF free = {} THEN {<<pool.net, 0>>}
        ELSE {<<pool.net, h>> : h \in {h \in free : \A g \in free : h <= g}}

(* HandleDHCPDiscover: the address a client has or gets.                   *)
Lease(pool, client, ifaces) ==
    IF client \in DOMAIN pool.Assigned THEN {pool.Assigned[client]} ELSE NextPoolIP(pool, ifaces)
Assign(pool, client, a) ==
    [pool EXCEPT !.Assigned = [c \in DOMAIN pool.Assigned \cup {client} |->
                                  IF c = client THEN a ELSE pool.Assigned[c]]]

(* Two clients of a pool have the same address only when it is the         *)
(* network's own, which everybody gets when the pool is exhausted.         *)
Distinct(pool) ==
    \A c, d \in DOMAIN pool.Assigned :
        c # d /\ pool.Assigned[c] = pool.Assigned[d] => pool.Assigned[c][2] = 0
=============================================================================
