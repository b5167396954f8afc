------------------------------- MODULE MCRip -------------------------------
(* Three routers in a row, the network at one end; the third cable closes  *)
(* the triangle, so that a shorter way appears, or is lost, while updates  *)
(* of both goroutines are under way.  The first cable was added as number  *)
(* 3, and one of the three has gone since: the next cable is number 3      *)
(* again and gets the same addresses.  The user has given the port at the  *)
(* end of the row one of them, too.                                        *)
EXTENDS Rip
CONSTANTS a, b, c
Triangle == {{a, b}, {b, c}, {a, c}}
Row == {{a, b}, {b, c}}
Unaddressed == [r \in Routers |-> [q \in Routers |-> None]]
MCLoaded == {[Unaddressed EXCEPT ![a][b] = <<3, 1>>, ![b][a] = <<3, 2>>,
                                 ![b][c] = <<1, 1>>, ![c][b] = <<3, 1>>]}
MCShutPorts == {<<b, a>>}
MCReaddressed == {<<<<a, b>>, <<2, 1>>>>}
MCDuplicates == {<<3, 1>>}
=============================================================================
