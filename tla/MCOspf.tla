------------------------------- MODULE MCOspf -------------------------------
(* Two routers and one cable between them.                                 *)
EXTENDS Ospf

CONSTANTS r1, r2
Pair == {{r1, r2}}
One == {<<r1, r2>>}
=============================================================================
