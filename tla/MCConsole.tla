----------------------------- MODULE MCConsole -----------------------------
(***************************************************************************)
(* Two connections to one device, with lines that belong together.         *)
(***************************************************************************)
EXTENDS Console

Symmetry == Permutations(Conns)

L(c, a) == [cmd |-> c, arg |-> a]
Plain(cs) == {L(c, None) : c \in cs}
RouterMenus ==
    { Plain({"configure", "exit", "enable", "shutdown", "no shutdown"})
        \cup {L("interface", "g1"), L("ip address", "a1"), L("router", "rip")},
      Plain({"configure", "end"})
        \cup {L("interface", "g1"), L("access-list", "101"), L("ip access-group", <<"101", "in">>),
              L("standby", "v"), L("ip nat outside", None)},
      Plain({"configure", "exit"})
        \cup {L("router", "ospf"), L("network", "n1"), L("hostname", "n"), L("ip route", "r"),
              L("nat inside source static", "s"), L("crypto isakmp key", "k")},
      Plain({"configure", "exit"})
        \cup {L("router", "ospf"), L("network", "n1"), L("default-router", "g"), L("ip dhcp pool", "office"),
              L("crypto isakmp policy", "10"), L("ip dhcp excluded-address", "x")},
      Plain({"configure", "exit"})
        \cup {L("interface", "g1"), L("crypto map seq", "m"), L("crypto map", "m"), L("set peer", "p"),
              L("match address", "101"), L("class", "c")},
      Plain({"configure", "exit"})
        \cup {L("class-map", "c"), L("match", "voice"), L("policy-map", "p"), L("class", "c"), L("action", "priority")},
      Plain({"configure", "end"})
        \cup {L("interface", "g1"), L("policy-map", "p"), L("class", "c"), L("class", "d"), L("service-policy", "p")} }
SwitchMenu ==
    Plain({"configure", "exit", "no shutdown", "mls", "shutdown"})
        \cup {L("interface", "g1"), L("switchport", "10"), L("vlan", "10")}
MCMenus == {[kind |-> "router", lines |-> m] : m \in RouterMenus} \cup {[kind |-> "switch", lines |-> SwitchMenu]}
=============================================================================
