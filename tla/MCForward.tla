----------------------------- MODULE MCForward -----------------------------
(***************************************************************************)
(* A router between a LAN with two hosts and an uplink with a server and a *)
(* tunnel peer.                                                            *)
(***************************************************************************)
EXTENDS Forward

MCPorts == {"lan", "wan"}
MCIfAddr == [p \in MCPorts |-> IF p = "lan" THEN "gl" ELSE "gw"]
LanNet == {"gl", "h1", "h2"}
WanNet == {"gw", "srv", "peer"}
RemNet == {"rem"}
MCAddrs == LanNet \cup WanNet \cup RemNet \cup {"gs"}
MCInside == {"h1", "h2"}
MCNeighbours == {"h1", "h2", "srv", "peer"}
MCServers == {"srv"}
MCNets == {LanNet, WanNet, RemNet, MCAddrs}
MCPrefixLen == [n \in MCNets |-> IF n = MCAddrs THEN 0 ELSE 24]
Connected(net, p) == [net |-> net, dist |-> 0, hop |-> None, port |-> p, proto |-> "connected"]
MCRoutes0 == << Connected(LanNet, "lan"), Connected(WanNet, "wan"),
               [net |-> RemNet, dist |-> 110, hop |-> "peer", port |-> "wan", proto |-> "ospf"],
               [net |-> MCAddrs, dist |-> 1, hop |-> "peer", port |-> "wan", proto |-> "static"] >>
Ask(h) == [port |-> "lan", pkt |-> Packet(<<"in", h>>, h, "srv", "echo", 64)]
Far(h) == [port |-> "lan", pkt |-> Packet(<<"far", h>>, h, "rem", "udp", 2)]
MCTraffic == { [frames |-> {Ask("h1"), Ask("h2")}, pings |-> {}],
               [frames |-> {Ask("h1"), Far("h2")}, pings |-> {}],
               [frames |-> {Ask("h1")}, pings |-> {"srv"}],
               [frames |-> {Far("h1")}, pings |-> {"peer"}],
               [frames |-> {[port |-> "wan", pkt |->
                    [Packet(<<"esp">>, "peer", "gw", "esp", 64) EXCEPT
                       !.inner = <<Packet(<<"esp">>, "rem", "h1", "udp", 64)>>]]},
                pings |-> {}] }
MCArriving == LET ks == {f.pkt : f \in UNION {s.frames : s \in MCTraffic}}
              IN  ks \cup {k.inner[1] : k \in {k \in ks : k.inner # <<>>}}
MCFilters == { <<"lan", "in">>, <<"wan", "out">> }
MCRules == { [permit |-> FALSE, proto |-> "icmp", src |-> {"h1"}, dst |-> MCAddrs],
             [permit |-> TRUE, proto |-> "ip", src |-> MCAddrs, dst |-> MCAddrs] }
MCStatics == { <<"h1", "gw">>, <<"h1", "gs">> }
MCEntries == { [acl |-> None, peer |-> "peer", remote |-> RemNet] }

(* The router is one that EntriesForSenders (RoutingProofs) speaks of.     *)
ASSUME EdgeAssumption == EdgeRouter
=============================================================================
