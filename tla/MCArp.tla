------------------------------- MODULE MCArp -------------------------------
(* Two hosts and a router on a LAN.  p1 and p2 leave h1 for r1 from two    *)
(* connections, a1 answers p1; p3 is sent by r1 to h1 and p4 by h2 to h1.  *)
EXTENDS Arp

CONSTANTS h1, h2, r1, p1, p2, p3, p4, a1
MCSrc == [p \in Packets |-> CASE p \in {p1, p2} -> h1 [] p \in {a1, p3} -> r1 [] p = p4 -> h2]
MCDst == [p \in Packets |-> IF p \in {p1, p2} THEN r1 ELSE h1]
MCAnswer == [p \in Packets |-> IF p = p1 /\ a1 \in Packets THEN a1 ELSE None]
=============================================================================
