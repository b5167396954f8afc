----------------------------- MODULE MCOspfSpf -----------------------------
(* Every link-state database over four routers and one stub network, with  *)
(* missing LSAs, one-way links and links to routers without an LSA.        *)
EXTENDS OspfSpf
=============================================================================
