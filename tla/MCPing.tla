------------------------------- MODULE MCPing -------------------------------
(* Two pings between hosts and a router.  A tick is half a millisecond, so *)
(* that two pings may share an ICMP identifier without sharing a session   *)
(* key.  Delays of one tick each way make the reply fall due together with *)
(* the timeout, longer ones make it late.                                  *)
EXTENDS Ping, TLC

CONSTANTS h1, h2, h3, rt

MCHosts == {h1, h2, h3}
MCRouters == {rt}
OnePing == {<<h1, h2>>}
TwoTargets == {<<h1, h2>>, <<h1, h3>>}
TwoSources == {<<h1, h2>>, <<rt, h2>>}
RequestSymmetry == Permutations(Requests)
=============================================================================
