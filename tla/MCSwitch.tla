------------------------------ MODULE MCSwitch ------------------------------
(* Two switches in a tree, with hosts of two VLANs, or in a ring of three. *)
EXTENDS Switch

CONSTANTS a, b, c
Access(v) == [mode |-> "access", vlan |-> v, allowed |-> {}, up |-> TRUE]
Trunk(v, allowed) == [mode |-> "trunk", vlan |-> v, allowed |-> allowed, up |-> TRUE]
Down(config) == [config EXCEPT !.up = FALSE]

(* a and b on switch 1, c on switch 2, a trunk between them.               *)
TreePorts == {<<1, 1>>, <<1, 2>>, <<1, 3>>, <<2, 1>>, <<2, 2>>}
TreeCables == {{a, <<1, 1>>}, {b, <<1, 2>>}, {<<1, 3>>, <<2, 1>>}, {c, <<2, 2>>}}
TreeConfig == [p \in TreePorts |-> CASE p \in {<<1, 1>>, <<2, 2>>} -> Access(10)
                                     [] p = <<1, 2>> -> Access(20)
                                     [] OTHER -> Trunk(1, {1, 10})]
TreeFrames == {[src |-> a, dst |-> c], [src |-> c, dst |-> a],
               [src |-> a, dst |-> Broadcast], [src |-> b, dst |-> Broadcast]}
TreeChanges == {<<<<1, 1>>, Down(Access(10))>>, <<<<1, 1>>, Access(10)>>,
                <<<<1, 2>>, Access(10)>>, <<<<1, 3>>, Trunk(10, {})>>}

(* Three switches, each with a host on its last port, in a ring.           *)
RingPorts == {1, 2, 3} \X {1, 2, 3}
RingCables == {{<<1, 2>>, <<2, 1>>}, {<<2, 2>>, <<3, 1>>}, {<<3, 2>>, <<1, 1>>},
               {a, <<1, 3>>}, {b, <<2, 3>>}, {c, <<3, 3>>}}
RingConfig == [p \in RingPorts |-> Access(1)]
RingFrames == {[src |-> a, dst |-> Broadcast]}

Network(ids, ring, cables, config, frames, changes, removable) ==
    [switches |-> ids, ring |-> ring, cables |-> cables, config |-> config,
     frames |-> frames, changes |-> changes, removable |-> removable]
MCNetworks ==
    { Network({1, 2}, FALSE, TreeCables, TreeConfig, TreeFrames, TreeChanges, {1}),
      Network({1, 2, 3}, TRUE, RingCables, RingConfig, RingFrames, {}, {}) }
=============================================================================
