------------------------------- MODULE MCLab -------------------------------
(***************************************************************************)
(* Two routers with a LAN port and a public port each, three hosts and a   *)
(* switch.  The program starts empty or with a saved lab.                  *)
(***************************************************************************)
EXTENDS Lab, SequencesExt

MCExcluded == {<<0, 3>>}
MCIface0 == [r \in RouterIds |-> ("lan" :> <<0, IF r = "r1" THEN 1 ELSE 2>>) @@ ("pub" :> <<9, IF r = "r1" THEN 1 ELSE 2>>)]
MCPublic == [r \in RouterIds |-> MCIface0[r]["pub"]]
Routers2 == Link("l1", "r1", "a", "r2", "a")
Second == Link("l2", "r1", "b", "r2", "b")
Shared == Link("l3", "r1", "a", "r2", "b")
Up(h, d) == Link(h, h, "e", d, h)
MCCables == {Routers2, Second, Shared} \cup {Up(h, "r1") : h \in HostIds}

Host(h) == [ip |-> Absent, uplink |-> Absent]
SavedLab(rs, hs, links) ==
    [routers |-> [r \in rs |->
        [Interfaces |-> IF links = <<Second>> THEN ("b" :> <<1, IF r = "r1" THEN 1 ELSE 2>>) @@ MCIface0[r]
                        ELSE MCIface0[r],
         routes |-> {}]],
     hosts |-> [h \in hs |-> Host(h)], switches |-> {}, links |-> links]
MCFiles == { Absent,
              SavedLab({"r1"}, HostIds, SetToSeq({Up(h, "r1") : h \in HostIds})),
              SavedLab({"r1", "r2"}, {}, <<Second>>) }
=============================================================================
