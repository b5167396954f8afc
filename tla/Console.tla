------------------------------ MODULE Console ------------------------------
(***************************************************************************)
(* The command line of one device: engine/cli (sessions, the chain of      *)
(* handlers a line goes through) and config_store.go.                      *)
(*                                                                         *)
(* All connections share the session of a device and nothing locks it.  A  *)
(* line is run by its own goroutine, in steps: it assigns the fields of    *)
(* the session that Execute's switch sets, is recorded, takes a handler,   *)
(* and the handler assigns fields, reads fields and configures the device. *)
(* Each assignment, each read of a name and each write to the device is a  *)
(* step of its own, so that the lines of the connections interleave in     *)
(* between; `todo' holds where each has got to.  A line is a command with  *)
(* its argument; what a line that is not about a port, a pool or QoS sets  *)
(* is itself, in dev.global.                                               *)
(***************************************************************************)
EXTENDS Integers, Sequences, SequencesExt

CONSTANTS
    Conns,         \* connections of user interfaces
    Kinds,         \* of devices: "router", "switch"
    Ports,
    RouterDefault, \* the port a router's line is for when none was selected
    SwitchDefault, \* the same of a switch
    Menus,         \* [kind, lines]: the lines typed in a behaviour
    MaxCommands,   \* bound: commands in a behaviour
    None

Attrs == {"ip address", "shutdown", "ip nat outside", "in", "out", "standby",
          "service-policy", "crypto map", "switchport", "mls"}
Modes == {"exec", "privileged", "config", "config-if", "config-router",
          "config-class-map", "config-policy-map", "config-policy-class"}
PolicyModes == {"config-policy-map", "config-policy-class"}
ConfigModes == Modes \ {"exec", "privileged"}

ASSUME ConsoleAssumption ==
    /\ MaxCommands \in Nat
    /\ RouterDefault \in Ports /\ SwitchDefault \in Ports
    /\ \A m \in Menus : m.kind \in Kinds
    /\ Kinds \subseteq {"router", "switch"}
    /\ \A m \in Menus : \A l \in m.lines :
          /\ l.cmd = "interface" => l.arg \in Ports
          /\ l.cmd \in {"router", "access-list", "class-map", "policy-map", "class", "crypto map seq"} =>
                l.arg # None
    /\ None \notin Ports /\ None # "isakmp" /\ None # "crypto"

VARIABLES
    menu,
    sess,        \* the session of the device
    dev,         \* the device's configuration
    running, startup,
    todo,        \* todo[c]: the line connection c is running, and how far
    commands,
    overlapped,  \* history: a line was entered while another was running
    mixed,       \* history: and both assign fields of the session
    unrecorded,  \* history: a line outside the configuration modes had an effect
    strayed,     \* history: the context changed by a line that is not recorded
    jumped,      \* history: a port's mode was left by other than exit and end
    replaced     \* history: the device was removed and added again

history == <<overlapped, mixed, unrecorded, strayed, jumped, replaced>>
vars == <<menu, sess, dev, running, startup, todo, commands, history>>

-----------------------------------------------------------------------------
(* The session.                                                            *)

Session0 ==
    [Mode |-> "privileged", Iface |-> None, RouterProto |-> None,
     ClassMapName |-> None, PolicyMapName |-> None, PolicyClassName |-> None]

(* Assignments are made in the order of the code, to a field once.         *)
Assign(field, value) == [field |-> field, value |-> value]
Assigned(s, as) ==
    [f \in DOMAIN s |-> IF \E i \in DOMAIN as : as[i].field = f
                        THEN as[CHOOSE i \in DOMAIN as : as[i].field = f].value ELSE s[f]]

(* Mutant: the wrong name is cleared.                                      *)
MutExitName(mode) ==
    CASE mode = "config-policy-class" -> <<Assign("Mode", "config-policy-map"), Assign("PolicyMapName", None)>>
      [] OTHER -> <<Assign("Mode", "config")>>
(* Mutant: the port stays selected.                                        *)
MutExit(mode) ==
    CASE mode = "config-policy-class" -> <<Assign("Mode", "config-policy-map"), Assign("PolicyClassName", None)>>
      [] mode \in {"config-if", "config-router"} -> <<Assign("Mode", "config"), Assign("RouterProto", None)>>
      [] OTHER -> <<Assign("Mode", "privileged")>>

Exit(mode) ==
    CASE mode = "config-policy-class" -> <<Assign("Mode", "config-policy-map"), Assign("PolicyClassName", None)>>
      [] mode \in {"config-policy-map", "config-class-map"} ->
            <<Assign("Mode", "config"), Assign("PolicyMapName", None), Assign("ClassMapName", None)>>
      [] mode \in {"config-if", "config-router"} ->
            <<Assign("Mode", "config"), Assign("Iface", None), Assign("RouterProto", None)>>
      [] mode = "config" -> <<Assign("Mode", "privileged")>>
      [] OTHER -> <<Assign("Mode", "exec")>>

SessionCmds == {"enable", "configure", "interface", "end", "exit"}

(* Execute's switch: what a line assigns, exit by the mode it reads.       *)
Switch(mode, l) ==
    CASE l.cmd = "enable" -> <<Assign("Mode", "privileged")>>
      [] l.cmd = "configure" -> <<Assign("Mode", "config")>>
      [] l.cmd = "interface" -> <<Assign("Mode", "config-if"), Assign("Iface", l.arg)>>
      [] l.cmd = "router" -> <<Assign("Mode", "config-router"), Assign("RouterProto", l.arg)>>
      [] l.cmd = "end" -> <<Assign("Mode", "privileged"), Assign("Iface", None), Assign("RouterProto", None)>>
      [] l.cmd = "exit" -> Exit(mode)
      [] OTHER -> <<>>
AfterSwitch(s, l) == Assigned(s, Switch(s.Mode, l))

-----------------------------------------------------------------------------
(* The device.  A line may configure a port without a name: None.          *)

Fresh(kind) ==
    [kind |-> kind, port |-> [p \in Ports \cup {None} |-> [a \in Attrs |-> None]], global |-> {},
     classes |-> <<>>, policies |-> <<>>, pools |-> <<>>, entries |-> {}]

Put(f, x, v) == [y \in DOMAIN f \cup {x} |-> IF y = x THEN v ELSE f[y]]
SetPort(d, p, attr, v) == [d EXCEPT !.port[p][attr] = v]
SetGlobal(d, l) == [d EXCEPT !.global = @ \cup {l}]
OrDefault(p, default) == IF p = None THEN default ELSE p

(* AppendPolicyClass: to the class of that name, or a new one.             *)
MutAppendPolicyClass(d, policy, class, actions) ==
    LET pm == IF policy \in DOMAIN d.policies THEN d.policies[policy] ELSE <<>>
    IN  [d EXCEPT !.policies = Put(@, policy, Append(pm, [class |-> class, actions |-> actions]))]
AppendPolicyClass(d, policy, class, actions) ==
    LET pm == IF policy \in DOMAIN d.policies THEN d.policies[policy] ELSE <<>>
        new == IF \E i \in DOMAIN pm : pm[i].class = class
               THEN [i \in DOMAIN pm |-> IF pm[i].class = class
                                         THEN [pm[i] EXCEPT !.actions = @ \o actions] ELSE pm[i]]
               ELSE Append(pm, [class |-> class, actions |-> actions])
    IN  [d EXCEPT !.policies = Put(@, policy, new)]

SetPool(d, name, field, v) ==
    LET pool == IF name \in DOMAIN d.pools THEN d.pools[name] ELSE [network |-> None, router |-> None]
    IN  [d EXCEPT !.pools = Put(@, name, [pool EXCEPT ![field] = v])]

-----------------------------------------------------------------------------
(* What a handler does: the fields it assigns and then those it reads, in  *)
(* the order of the code, and the device it leaves, given what it read.    *)
Does(assigns, reads, d) == [assigns |-> assigns, reads |-> reads, dev |-> d]

(* dispatchConfig: which lines it handles, and what it does.               *)
ConfigHandles(mode, l) ==
    \/ l.cmd \in {"ip nat outside", "ip access-group", "ip dhcp excluded-address", "hostname",
                  "shutdown", "no shutdown", "vlan", "standby", "switchport"}
    \/ l.cmd \in {"ip address", "crypto map", "crypto map seq"} /\ mode = "config-if"
    \/ l.cmd = "network" /\ mode = "config-router"

(* The lines that are about the port the session shows.                    *)
PortCmds == {"ip nat outside", "ip access-group", "shutdown", "no shutdown", "standby", "switchport",
             "ip address", "crypto map", "crypto map seq"}

execNo(s, d) == SetPort(d, OrDefault(s.Iface, RouterDefault), "shutdown", FALSE)
execVLAN(d, l) == IF d.kind = "switch" THEN SetGlobal(d, l) ELSE d
execSwitchport(s, d, l) ==
    IF d.kind = "switch" THEN SetPort(d, OrDefault(s.Iface, SwitchDefault), "switchport", l.arg) ELSE d
execStandby(s, d, l) == SetPort(d, OrDefault(s.Iface, RouterDefault), "standby", l.arg)
execNetwork(d, l) == IF [cmd |-> "router", arg |-> "ospf"] \in d.global THEN SetGlobal(d, l) ELSE d
execDHCPExclusions(d, l) == SetGlobal(d, l)

(* Mutant: the name and the direction are taken as IOS has them.           *)
MutAccessGroup(s, d, l) ==
    SetPort(d, OrDefault(s.Iface, RouterDefault), IF l.arg[2] = "in" THEN "in" ELSE "out", l.arg[1])
(* ip access-group takes the first word for the direction.                 *)
AccessGroup(s, d, l) ==
    SetPort(d, OrDefault(s.Iface, RouterDefault), IF l.arg[1] = "in" THEN "in" ELSE "out", l.arg[2])

(* What only a router has.                                                 *)
ConfigureRouter(s, d, l) ==
    CASE l.cmd = "ip address" -> SetPort(d, s.Iface, "ip address", l.arg)
      [] l.cmd \in {"crypto map", "crypto map seq"} -> SetPort(d, s.Iface, "crypto map", l.arg)
      [] l.cmd = "shutdown" -> SetPort(d, OrDefault(s.Iface, RouterDefault), "shutdown", TRUE)
      [] l.cmd = "ip nat outside" -> SetPort(d, OrDefault(s.Iface, RouterDefault), "ip nat outside", TRUE)
      [] l.cmd = "ip access-group" -> AccessGroup(s, d, l)
      [] l.cmd = "standby" -> execStandby(s, d, l)
      [] l.cmd = "network" -> execNetwork(d, l)
      [] l.cmd = "ip dhcp excluded-address" -> execDHCPExclusions(d, l)
      [] OTHER -> SetGlobal(d, l)

dispatchConfig(s, d, l) ==
    Does(<<>>, IF l.cmd \in PortCmds THEN <<"Iface">> ELSE <<>>,
         CASE l.cmd = "no shutdown" -> execNo(s, d)
           [] l.cmd = "switchport" -> execSwitchport(s, d, l)
           [] l.cmd = "vlan" -> execVLAN(d, l)
           [] OTHER -> IF d.kind = "router" THEN ConfigureRouter(s, d, l) ELSE d)

-----------------------------------------------------------------------------
(* dispatchExtended, and the handlers of the sub-modes, which take every   *)
(* line.  s.Mode is the mode a handler reads for itself.                   *)

Nothing(d) == Does(<<>>, <<>>, d)

execClassMapSub(s, d, l) ==
    IF d.kind = "router" /\ l.cmd = "match"
    THEN Does(<<>>, <<"ClassMapName">>, [d EXCEPT !.classes = Put(@, s.ClassMapName, l.arg)])
    ELSE Nothing(d)
execPolicyMapSub(s, d, l) ==
    CASE d.kind = "router" /\ l.cmd = "class" ->
            Does(<<Assign("Mode", "config-policy-class"), Assign("PolicyClassName", l.arg)>>,
                 <<"PolicyMapName">>, AppendPolicyClass(d, s.PolicyMapName, l.arg, <<>>))
      [] d.kind = "router" /\ l.cmd = "action" /\ s.Mode = "config-policy-class" ->
            Does(<<>>, <<"PolicyClassName", "PolicyMapName">>,
                 AppendPolicyClass(d, s.PolicyMapName, s.PolicyClassName, <<l.arg>>))
      [] OTHER -> Nothing(d)

execClassMap(s, d, l) ==
    Does(<<Assign("Mode", "config-class-map"), Assign("ClassMapName", l.arg)>>, <<>>,
         [d EXCEPT !.classes = Put(@, l.arg, None)])
(* A policy map that is entered again starts empty.                        *)
execPolicyMap(s, d, l) ==
    Does(<<Assign("Mode", "config-policy-map"), Assign("PolicyMapName", l.arg)>>, <<>>,
         [d EXCEPT !.policies = Put(@, l.arg, <<>>)])
execServicePolicy(s, d, l) ==
    Does(<<>>, <<"Iface">>, SetPort(d, OrDefault(s.Iface, RouterDefault), "service-policy", l.arg))
execMLS(s, d) == Does(<<>>, <<"Iface">>, SetPort(d, OrDefault(s.Iface, SwitchDefault), "mls", TRUE))

(* A pool is named after the routing process the session is about.         *)
PoolName(s) == OrDefault(s.RouterProto, "LAN")
execDHCPPoolOption(s, d, l) == Does(<<>>, <<"RouterProto">>, SetPool(d, PoolName(s), "router", l.arg))
execDHCPPoolNetwork(s, d, l) == Does(<<>>, <<"RouterProto">>, SetPool(d, PoolName(s), "network", l.arg))

CryptoCmds == {"crypto isakmp policy", "crypto isakmp key", "crypto ipsec transform-set", "crypto map", "crypto map seq"}
execCrypto(s, d, l) ==
    CASE l.cmd = "crypto isakmp policy" ->
            Does(IF s.Mode = "config" THEN <<Assign("RouterProto", "isakmp")>> ELSE <<>>, <<>>, SetGlobal(d, l))
      [] l.cmd \in {"crypto isakmp key", "crypto ipsec transform-set"} -> Does(<<>>, <<>>, SetGlobal(d, l))
      [] l.cmd = "crypto map seq" ->
            Does(<<Assign("PolicyMapName", l.arg), Assign("RouterProto", "crypto"),
                   Assign("Mode", "config-policy-map")>>, <<>>, d)
      [] s.Mode = "config-policy-map" /\ l.cmd \in {"set peer", "match address"} ->
            Does(<<>>, <<"PolicyMapName">>, [d EXCEPT !.entries = @ \cup {<<s.PolicyMapName, l>>}])
      [] OTHER -> Nothing(d)

(* The lines the switch of dispatchExtended knows.                         *)
ExtendedHandles(mode, kind, l) ==
    \/ l.cmd \in CryptoCmds \cup {"class-map", "policy-map", "service-policy", "mls", "no shutdown"}
    \/ kind = "router" /\ (l.cmd = "default-router" \/ (l.cmd = "network" /\ mode # "config-router"))

ExtendRouter(s, d, l) ==
    CASE l.cmd = "class-map" -> execClassMap(s, d, l)
      [] l.cmd = "policy-map" -> execPolicyMap(s, d, l)
      [] l.cmd = "service-policy" -> execServicePolicy(s, d, l)
      [] l.cmd = "default-router" -> execDHCPPoolOption(s, d, l)
      [] l.cmd = "network" -> execDHCPPoolNetwork(s, d, l)
      [] OTHER -> execCrypto(s, d, l)

dispatchExtended(s, d, l) ==
    CASE l.cmd = "no shutdown" -> Does(<<>>, <<"Iface">>, execNo(s, d))
      [] l.cmd = "mls" -> IF d.kind = "switch" THEN execMLS(s, d) ELSE Nothing(d)
      [] OTHER -> IF d.kind = "router" THEN ExtendRouter(s, d, l) ELSE Nothing(d)

-----------------------------------------------------------------------------
(* The last handler, Executor.Execute: addresses go to one port.           *)
MutExecIP(d, l) ==
    IF l.cmd = "ip dhcp pool" THEN SetPool(d, l.arg, "network", None) ELSE d
(* Mutant above: "ip dhcp pool" makes the pool.                            *)
execIP(d, l) ==
    CASE l.cmd = "ip address" -> SetPort(d, RouterDefault, "ip address", l.arg)
      [] l.cmd = "ip route" -> SetGlobal(d, l)
      [] OTHER -> d                          \* "ip dhcp pool" does nothing
execRouter(d, l) == SetGlobal(d, l)
execACL(d, l) == SetGlobal(d, l)
execNAT(d, l) == SetGlobal(d, l)
Executor(d, l) ==
    Does(<<>>, <<>>,
         IF d.kind # "router" THEN d
         ELSE CASE l.cmd \in {"ip address", "ip route", "ip dhcp pool"} -> execIP(d, l)
                [] l.cmd = "router" -> execRouter(d, l)
                [] l.cmd = "access-list" -> execACL(d, l)
                [] l.cmd = "nat inside source static" -> execNAT(d, l)
                [] OTHER -> d)

Handlers == {"dispatchConfig", "execClassMapSub", "execPolicyMapSub", "dispatchExtended", "Executor"}
Run(h, s, d, l) ==
    CASE h = "dispatchConfig" -> dispatchConfig(s, d, l)
      [] h = "execClassMapSub" -> execClassMapSub(s, d, l)
      [] h = "execPolicyMapSub" -> execPolicyMapSub(s, d, l)
      [] h = "dispatchExtended" -> dispatchExtended(s, d, l)
      [] OTHER -> Executor(d, l)

(* The tests of the mode on the way to a handler: dispatchConfig's, the    *)
(* two of dispatchExtended, dispatchConfig's when it is asked again.  Each *)
(* reads the session anew.                                                 *)
Tests == {"config", "sub", "extended", "late"}

(* Mutant: the line alone chooses the handler, whatever the mode.          *)
MutHandler(mode, kind, config, l) ==
    IF l.cmd \in CryptoCmds \cup {"set peer", "match address"} THEN "dispatchExtended" ELSE "Executor"

(* The chain: config says that the line was recorded as a configuration.   *)
Handler(mode, kind, config, l) ==
    IF l.cmd = "router" THEN "Executor"
    ELSE IF config /\ ConfigHandles(mode["config"], l) THEN "dispatchConfig"
    ELSE IF mode["sub"] = "config-class-map" THEN "execClassMapSub"
    ELSE IF mode["sub"] \in PolicyModes THEN "execPolicyMapSub"
    ELSE IF ExtendedHandles(mode["extended"], kind, l) THEN "dispatchExtended"
    ELSE IF ConfigHandles(mode["late"], l) THEN "dispatchConfig"
    ELSE "Executor"

-----------------------------------------------------------------------------
(* The lines that are being run.                                           *)

(* at: where the line is, in Execute's switch ("return" if it ends there,  *)
(* else "record"), before the chain, or in a handler.  assigns, reads: the *)
(* fields it has yet to assign and to read.  view: what it has read.       *)
(* seen: the modes since its last step, for the tests of the mode.  stale: *)
(* it may hold a device that is no more.  shown: the port it is about, if  *)
(* that was shown when it was read.                                        *)
NoLine ==
    [line |-> None, at |-> "idle", config |-> FALSE, assigns |-> <<>>, reads |-> <<>>,
     view |-> Session0, seen |-> {}, stale |-> FALSE, shown |-> None]

Init ==
    /\ \E m \in Menus : menu = m.lines /\ dev = Fresh(m.kind)
    /\ sess = Session0
    /\ running = <<>> /\ startup = <<>>
    /\ todo = [c \in Conns |-> NoLine]
    /\ commands = 0
    /\ overlapped = FALSE /\ mixed = FALSE /\ unrecorded = FALSE /\ strayed = FALSE
    /\ jumped = FALSE /\ replaced = FALSE

Busy == {c \in Conns : todo[c] # NoLine}
Command == commands < MaxCommands /\ commands' = commands + 1 /\ UNCHANGED menu

(* The lines that assign fields of the session, here or in a handler.      *)
Assigning ==
    SessionCmds \cup {"router", "class-map", "policy-map", "class", "crypto isakmp policy", "crypto map seq"}

(* What is selected, whether or not the lines are recorded.                *)
Context(s) == [s EXCEPT !.Mode = IF @ \in {"exec", "privileged"} THEN "config" ELSE @]
Jumps(s, t) == s.Mode = "config-if" /\ t.Mode # "config-if" /\ t.Iface # None

(* The port the session shows: in its mode, or in one that a line is       *)
(* leaving and has yet to clear.                                           *)
Shown ==
    IF \/ sess.Mode = "config-if"
       \/ \E c \in Conns, i \in 1..3 :
            i \in DOMAIN todo[c].assigns /\ todo[c].assigns[i] = Assign("Iface", None)
    THEN sess.Iface ELSE None

(* Mutant: interface lines go on to be recorded.                           *)
MutFirst(l) == IF l.cmd \in SessionCmds \ {"interface"} THEN "return" ELSE "record"
First(l) == IF l.cmd \in SessionCmds THEN "return" ELSE "record"

(* EXEC_CLI.                                                               *)
Enter(c, l) ==
    /\ Command /\ todo[c] = NoLine
    /\ todo' = [todo EXCEPT ![c] = [NoLine EXCEPT !.line = l, !.at = First(l), !.seen = {sess.Mode},
                                                 !.assigns = Switch(sess.Mode, l)]]
    /\ overlapped' = (overlapped \/ Busy # {})
    /\ mixed' = (mixed \/ (l.cmd \in Assigning /\ \E e \in Busy : todo[e].line.cmd \in Assigning))
    /\ UNCHANGED <<sess, dev, running, startup, unrecorded, strayed, jumped, replaced>>

(* One assignment; a line of the session alone returns after its last.     *)
AssignField(c) ==
    /\ todo[c].assigns # <<>>
    /\ LET T == todo[c]
           a == Head(T.assigns)
       IN  /\ sess' = [sess EXCEPT ![a.field] = a.value]
           /\ todo' = [e \in Conns |->
                         IF e = c THEN IF T.at = "return" /\ Len(T.assigns) = 1 THEN NoLine
                                       ELSE [T EXCEPT !.assigns = Tail(@)]
                         ELSE IF todo[e].at \in {"record", "dispatch"}
                              THEN [todo[e] EXCEPT !.seen = @ \cup {sess'.Mode}] ELSE todo[e]]
           /\ strayed' = (strayed \/ (T.at = "return" /\ Context(sess') # Context(sess)))
           /\ unrecorded' = (unrecorded \/ (T.at \in Handlers /\ ~T.config /\ sess' # sess))
           /\ jumped' = (jumped \/ (T.line.cmd \notin {"exit", "end"} /\ Jumps(sess, sess')))
    /\ UNCHANGED <<menu, dev, running, startup, commands, overlapped, mixed, replaced>>

(* What a test of the mode may find: the mode as it was at some moment     *)
(* since the line's last step or, if it changed in between the comparisons *)
(* of the test, none that they look for, as in the mode exec.              *)
ModesSeen(c) ==
    IF todo[c].seen = {sess.Mode} THEN {sess.Mode} ELSE todo[c].seen \cup {"exec"}

Recorded(mode, l) == mode \in ConfigModes \/ l.cmd = "router"

(* Mutant: the line of a routing process is not recorded.                  *)
MutAppendRunning(lines, l) == IF l.cmd = "router" THEN lines ELSE Append(lines, l)
AppendRunning(lines, l) == Append(lines, l)

(* A line of the configuration modes is recorded.                          *)
Record(c) ==
    /\ todo[c].at = "record" /\ todo[c].assigns = <<>>
    /\ \E mode \in ModesSeen(c) :
         LET config == Recorded(mode, todo[c].line)
         IN  /\ running' = IF config THEN AppendRunning(running, todo[c].line) ELSE running
             /\ todo' = [todo EXCEPT ![c].at = "dispatch", ![c].config = config, ![c].seen = {sess.Mode}]
    /\ UNCHANGED <<menu, sess, dev, startup, commands, history>>

(* The line takes its handler, which may test the mode once more: own.     *)
Dispatch(c) ==
    /\ todo[c].at = "dispatch"
    /\ \E h \in {Handler(mode, dev.kind, todo[c].config, todo[c].line) : mode \in [Tests -> ModesSeen(c)]},
          own \in ModesSeen(c) :
         LET T == todo[c]
             view == [sess EXCEPT !.Mode = own, !.Iface = None]
             r == Run(h, view, dev, T.line)
         IN  todo' = [todo EXCEPT ![c] = [T EXCEPT !.at = h, !.seen = {}, !.view = view,
                                                   !.assigns = r.assigns, !.reads = r.reads]]
    /\ UNCHANGED <<menu, sess, dev, running, startup, commands, history>>

ReadField(c) ==
    /\ todo[c].assigns = <<>> /\ todo[c].reads # <<>>
    /\ LET f == Head(todo[c].reads)
       IN  todo' = [todo EXCEPT ![c].view[f] = sess[f], ![c].reads = Tail(@),
                                ![c].shown = IF f = "Iface" THEN Shown ELSE @]
    /\ UNCHANGED <<menu, sess, dev, running, startup, commands, history>>

(* The handler configures the device, or one that was removed meanwhile.   *)
Configure(c) ==
    /\ todo[c].at \in Handlers /\ todo[c].assigns = <<>> /\ todo[c].reads = <<>>
    /\ LET T == todo[c]
       IN  /\ \/ dev' = Run(T.at, T.view, dev, T.line).dev
              \/ T.stale /\ dev' = dev
           /\ unrecorded' = (unrecorded \/ (~T.config /\ dev' # dev))
    /\ todo' = [todo EXCEPT ![c] = NoLine]
    /\ UNCHANGED <<menu, sess, running, startup, commands, overlapped, mixed, strayed, jumped, replaced>>

(* Mutant: the lines are added to the ones saved before.                   *)
MutWriteMemory ==
    /\ Command
    /\ startup' = startup \o running
    /\ UNCHANGED <<sess, dev, running, todo, history>>
(* "write memory" and the WRITE_MEMORY command, in any mode.               *)
WriteMemory ==
    /\ Command
    /\ startup' = running
    /\ UNCHANGED <<sess, dev, running, todo, history>>

(* REMOVE_DEVICE and a device of the same name: session and configuration  *)
(* of the old one stay, and its handlers may go on with it.                *)
Replace(kind) ==
    /\ Command
    /\ dev' = Fresh(kind)
    /\ todo' = [c \in Conns |-> IF todo[c].at \in Handlers THEN [todo[c] EXCEPT !.stale = TRUE] ELSE todo[c]]
    /\ replaced' = TRUE
    /\ UNCHANGED <<sess, running, startup, overlapped, mixed, unrecorded, strayed, jumped>>

Next ==
    \/ \E c \in Conns, l \in menu : Enter(c, l)
    \/ \E c \in Conns : AssignField(c) \/ Record(c) \/ Dispatch(c) \/ ReadField(c) \/ Configure(c)
    \/ WriteMemory
    \/ \E k \in Kinds : Replace(k)

Spec == Init /\ [][Next]_vars

(* ExecuteConfig: lines in order, by one connection alone, so that every   *)
(* test finds the mode there is.                                           *)
Res(s, d) == [sess |-> s, dev |-> d]
Handle(s, d, config, l) ==
    LET r == Run(Handler([t \in Tests |-> s.Mode], d.kind, config, l), s, d, l)
    IN  Res(Assigned(s, r.assigns), r.dev)
ReplayLine(r, l) ==
    LET s == AfterSwitch(r.sess, l) IN Handle(s, r.dev, Recorded(s.Mode, l), l)
Replay(kind, lines) ==
    LET done[i \in 0..Len(lines)] ==
          IF i = 0 THEN Res([Session0 EXCEPT !.Mode = "config"], Fresh(kind))
          ELSE ReplayLine(done[i - 1], lines[i])
    IN  done[Len(lines)]

-----------------------------------------------------------------------------
(* Properties.                                                             *)

(* Every variable has its type.                                            *)
TypeOK ==
    /\ sess.Mode \in Modes /\ sess.Iface \in Ports \cup {None}
    /\ dev.kind \in Kinds
    /\ \A p \in DOMAIN dev.port : DOMAIN dev.port[p] = Attrs
    /\ DOMAIN dev.port = Ports \cup {None}
    /\ \A i \in DOMAIN running : running[i] \in menu
    /\ \A c \in Busy : todo[c].line \in menu /\ todo[c].view.Mode \in Modes
    /\ commands \in 0..MaxCommands

(* A mode has the names its lines are for whenever nobody is assigning,    *)
(* as long as lines that assign fields never ran two at a time: the other  *)
(* lines may interleave with them as they like.  (Execute does nothing to  *)
(* keep them apart: interface and exit leave config-if without a port.)    *)
ContextKnown ==
    ~mixed /\ (\A c \in Conns : todo[c].assigns = <<>>) =>
        /\ sess.Mode = "config-if" => sess.Iface # None
        /\ sess.Mode = "config-class-map" => sess.ClassMapName # None
        /\ sess.Mode \in PolicyModes => sess.PolicyMapName # None
        /\ sess.Mode = "config-policy-class" => sess.PolicyClassName # None

(* WriteMemory copies and AppendRunning only adds: what was saved is the   *)
(* beginning of what is running.                                           *)
SavedIsPrefix == IsPrefix(startup, running)

(* The running configuration, run again by ExecuteConfig, gives the        *)
(* device's configuration, if lines were not run two at a time, none had   *)
(* an effect outside the configuration modes, the context was never        *)
(* changed by a line that is not recorded (interface, exit, end) and the   *)
(* device is the one it was.                                               *)
ReplayGivesDevice ==
    Busy = {} /\ ~overlapped /\ ~unrecorded /\ ~strayed /\ ~replaced =>
        Replay(dev.kind, running).dev = dev

(* interface lines are not recorded: no port but the default one is        *)
(* configured when the running or the startup configuration is run again.  *)
ReplayMissesPorts ==
    \A p \in Ports \ {RouterDefault, SwitchDefault} :
        Replay(dev.kind, running).dev.port[p] = Fresh(dev.kind).port[p]

(* A line configures a port that is not the default one only if it read    *)
(* that port while the session showed it, in the port's mode or in one     *)
(* that exit or end was just leaving, unless the mode was left before by   *)
(* enable, configure, router or a map, which keep the port selected, or    *)
(* lines that assign fields ran two at a time.                             *)
ConfiguresShownPort ==
    [][\A p \in Ports \ {RouterDefault, SwitchDefault} :
         dev'.port[p] # dev.port[p] =>
            \/ \E c \in Conns : todo[c].shown = p /\ todo'[c] = NoLine
            \/ jumped \/ mixed \/ replaced']_vars

(* execPolicyMapSub takes the lines of a crypto map: no entry of one can   *)
(* be made from the command line.                                          *)
NoCryptoEntries == dev.entries = {}

(* "ip dhcp pool" selects nothing: a pool never has the name typed there,  *)
(* but that of what the session was about.                                 *)
PoolsUnnamed ==
    DOMAIN dev.pools \subseteq {"LAN", "isakmp", "crypto"}
                                 \cup {l.arg : l \in {l \in menu : l.cmd = "router"}}

(* ip access-group NAME in|out: no list that access-list made is in force  *)
(* on a port, since the direction is taken for the name: the list would    *)
(* have to be called as the direction is.                                  *)
ListNames == {l.arg : l \in {l \in dev.global : l.cmd = "access-list"}}
Directions == {l.arg[2] : l \in {l \in menu : l.cmd = "ip access-group"}}
ListsNotApplied ==
    \A p \in Ports : {dev.port[p]["in"], dev.port[p]["out"]} \cap ListNames \subseteq Directions

(* AppendPolicyClass: a class is in a policy map once, so that its actions *)
(* are found by the first match.                                           *)
ClassOnce ==
    \A n \in DOMAIN dev.policies : \A i, j \in DOMAIN dev.policies[n] :
        dev.policies[n][i].class = dev.policies[n][j].class => i = j

(* The shared session and the stored configurations stay consistent,       *)
(* whoever types what.                                                     *)
ConsoleSound == TypeOK /\ ContextKnown /\ SavedIsPrefix /\ ClassOnce

(* What the running configuration gives when it is run again: the device,  *)
(* under conditions nothing enforces, and never a port's settings.         *)
ReplaySound == ReplayGivesDevice /\ ReplayMissesPorts

(* Three kinds of documented lines cannot have their effect.               *)
LinesWithoutEffect == NoCryptoEntries /\ PoolsUnnamed /\ ListsNotApplied
=============================================================================
