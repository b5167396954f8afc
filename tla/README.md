# NetForge: a TLA+ verification project

NetForge is a network simulator and CCNA-style lab: a Go engine (`src-tauri/`)
with a React user interface (`src/`) attached over a WebSocket. These modules
model the engine; the notes below say what each one stands for, what TLC checks,
what TLAPS proves and what is left out.

## 1. The system

Two kinds of goroutine share all state:

* the **simulation loop** (`runSimulationLoop`, main.go) pops one event at a time
  from the scheduler, moves the virtual clock to it, runs its handler to the end,
  drains the ping results and broadcasts;
* one **connection goroutine** per WebSocket (`handleIPCConnection`), which runs
  user commands: edit the topology, configure devices, start pings, run the CLI.

Both call into `network.Manager` and its devices, each of which has a lock of its
own; an operation is usually several short critical sections, so the two
interleave inside it.

| Component | State | Operations | Talks to | What is hard | What makes it correct |
|---|---|---|---|---|---|
| Event engine (`scheduler.go`, loop in `main.go`, timers in `manager*.go`) | heap of events, clock, event counter | `Schedule`, `Step`, dispatch, rescheduling | called by everything | two goroutines, ties, starvation | nothing in the past, each timer exactly once, each fires |
| Data plane (`dataplane.go`, `host.go`, `router_forward.go`) | frames in flight, ARP caches, packet queues | `TransmitFrame`, `DeliverFrame`, ARP, forwarding | scheduler, devices | look-up and queueing are not atomic; loss | no packet delivered twice or to the wrong node; queued packets leave |
| Ping sessions (`dataplane.go`, `final_features.go`) | map of sessions, pending results | `StartPing`, `completePing`, `handlePingTimeout`, `DrainPingResults` | data plane, UI | key read before the lock, reply races timeout, removal | one result per ping |
| Switch (`switch.go`) | MAC table per VLAN, port state, STP | learning, flooding, `RunSTP` | data plane | stale MAC entries, loops | VLAN isolation, no second copy |
| Routing table (`router.go`, `router_forward.go`) | list of routes | add, remove by protocol, longest match | all routing protocols | replacement order, ties | longest prefix, lowest distance |
| NAT, access lists (`router_services.go`), IPsec (`ipsec.go`) | rules, translations, crypto map, peers | the stages of `forwardIPFromRouter` | data plane, negotiation | a lock per stage, a second pass after ARP | a packet is treated as configured, replies reach the asker |
| RIP (`protocol/rip.go`) | learned routes | advertise, process update | manager cycle | stale routes, counting | metric is a real distance, convergence |
| OSPF (`protocol/ospf.go`) | neighbours, LSDB | hello, flooding, SPF | manager cycle | adjacency needs both sides | adjacency comes up, LSDBs agree |
| EIGRP, BGP (`protocol/`) | topology tables, RIBs | update cycles | manager cycle | next-hop and peer identity | routes lead to their network |
| HSRP (`hsrp.go`) | groups per interface | `ConfigureHSRP`, `RunHSRPElection` | manager cycle | reconfiguration | one active router per virtual address |
| VTP (`vtp.go`) | VLAN database, revision | `PropagateVTP` | manager cycle | two servers, copy and merge | revisions only grow and tell the names |
| CDP (`router_services.go`) | neighbour lists | `RunCDPCycle`, learn, purge | manager cycle, data plane | what age is counted in | live neighbours stay, gone ones go |
| WAN, PPP, Frame Relay (`wan.go`) | link stages, PVCs | LCP/NCP exchange | data plane | both ends answer each other | the link comes up |
| DHCP (`router_services.go`) | pools, leases | discover, offer | topology | exhaustion, reconfiguration | no address leased twice |
| Topology, persistence (`manager.go`, `topology_ops.go`, `persistence.go`) | devices, links, file | add, remove, import, export | all | references left behind, crash in a save | no dangling reference, round trip |
| QoS (`qos.go`) | class and policy maps, token buckets | configure, police | forwarding | lines appended, buckets that outlive them | the rate is kept, the burst passes |
| VoIP, mobile (`voip*.go`, `mobile*.go`) | calls, attachments | signalling | scheduler, data plane | jobs that are never run | calls connect |
| CLI and configuration store (`engine/cli`, `config_store.go`) | session, running and startup configuration | the chain of handlers, record, replay | manager | one session for all connections | a line does what its mode shows, replay restores |
| ASA, wireless, pcap, event log, assessment | connection table, ring buffers, ... | per packet / per command | data plane, UI | limits | bounded, no loss of the newest |
| PDU codecs (`engine/pdu`) | none | JSON encoding | data plane | - | round trip |
| User interface (`src/`) | zustand store | WebSocket messages | engine | - | - |

## 2. Plan

The order is: what everything runs on, what users see most, and then the
protocols, one module each.

| Step | Modules | Proofs |
|---|---|---|
| 1 | `Scheduler`: the event engine | `SchedulerProofs` |
| 2 | `Ping`: sessions on the event engine, implements `Scheduler`'s engine and `PingPromise` | `PingProofs` |
| 3 | `Ospf`: neighbours; `OspfSpf`: shortest paths | `OspfProofs`; `RoutingProofs` |
| 4 | `Arp`: lookup, queueing, release | `LinksProofs` |
| 5 | `Switch`: VLANs, learning, flooding, spanning tree | `LinksProofs` |
| 6 | `Rip`: update cycles, the two tables, links and routers that come and go | `RipProofs` |
| 7 | `Forward`: lists, NAT, longest match and tunnels on the way of a packet | `RoutingProofs` |
| 8 | `Lab` with `Dhcp`: topology, leases, persistence, tunnel negotiation | `ServicesProofs` |
| 9 | `Console`: the modes of the command line, the configuration store | `ConsoleProofs` |
| 10 | `Wan`, `Voip`, `Qos` | `LinksProofs` |
| 11 | `Hsrp`, `Cdp`, `Vtp`, `Bgp`, composed with those of step 10 in `MCServices` | `ServicesProofs` |

All of it is written. Of the properties the runs check, those of safety are proved, and
liveness stays with the model checker; section 5 says why. Parts that share no variable
share a module of proofs.

## 3. The modules

**Scheduler** (`scheduler.go`, loop of `main.go`). `pq` is the heap as a set of
events with timestamp, type and the number `id` that `Schedule` gives them; the order of
equal timestamps is left open, as the heap leaves it. `Step` takes an event with the
least timestamp and moves the clock; the handler that follows (`current`) reschedules its
timer, or drops the event where the dispatch has no case for its type.
Connections schedule one-shot events at any moment. `EngineSpec` is the engine without
the bounds of the model; `Spec` adds them as guards.

**Ping** (`dataplane.go`). `StartPing` runs in a goroutine in four steps
(`StartPing`, `InsertSession`, `SendEcho`, `ArmTimeout`), because it reads the clock
without the lock it later takes; the loop's `CompletePing`, `HandlePingTimeout` and
`DrainPingResults`, and `RemoveDevice`, interleave with them. The session key is
(source, clock) and the ICMP identifier the clock in milliseconds modulo 2^16, as in the
code. The way of an echo is one lossy hop. `answers` is the one sequence of results the
user interface got; `overwritten` and `arrived` are history. The queue, the clock and the
event counter are `Scheduler`'s, whose `EngineSpec` every behaviour implements.

**PingPromise** is what a user may rely on, without queue, keys, frames or goroutines: a
ping is asked for (`Ask`) or refused, is open (`Open`), and has one result, which is due
and then told. `Hear` ends it as a success, for an echo that looks like its own;
`Expire` as a timeout, when its time is up; `Cancel` with all others of its source. Only
a ping of the same source and clock value takes its place, and then nobody hears of it
again. `Ping` implements it (`PromiseSpec`): `open` are the requests of the stored
sessions, `due` and `told` the elements of `pendingPingResults` and `answers`, `lost` is
`overwritten`, `heard` is `arrived`, `call` is `local`, and echoes are `Alike` when their
ICMP identifiers are equal.

**Hsrp** (`hsrp.go`). Group objects live in a `heap`, since the election collects
pointers under each router's lock and writes through them later with none. The test of
`State` and the assignment of Standby are two steps (`TestOther`, `WriteStandby`; `tested`
is what an election has in hand between them), so the other election may write Active in
between and have ended, or run again, when the assignment lands; `newer` is the history
of that. Two electors run: the loop and a connection.

**Ospf** (`protocol/ospf.go`, cycle in `manager.go`). Two cyclers, the loop and a
connection, run the hello cycle router by router and port by port; a hello is built,
is on the wire, is handled, and the reply built and handled, each a step of its own.
`age` counts hello intervals since `LastSeen`; `stale` marks a cycle that read its clock
before the last interval began. `UpdateLSDB` keeps the first LSA of a router, because every LSA has
sequence number 1.

**OspfSpf** (`ComputeSPF`). The algorithm step by step with any map order, over every
database of the instance; the reference is the definition of a path: a sequence of
routers each of which the LSA of the one before lists.

**Arp** (`dataplane.go`, `host.go`, `router_forward.go`). A packet's call goes through
`Lookup`, `QueuePacket`, `Ask`; frames are delivered by the loop. On a host a reply is
`HandleReplyOnHost` and then `Drain`, on a router one step. Entries expire at any
moment. `lan` holds the frames on the wire between `Stations` and `Routers`. `lost` is
history: the packets a frame about which was dropped at a missing link.

**Rip** (`protocol/rip.go`, cycle in `manager.go`, `topology_ops.go`). One network,
because the entries of an update do not depend on each other. `Routes` is the daemon's
table, `RoutingTable` the router's; an update goes through `SendUpdate`, `ProcessUpdate`
(daemon's lock) and `AddRoute` (router's lock), and its answer through `SendAnswer` and
the same two. No route is a route of metric `Infinity`, so that "not found or better" is
one comparison. Looking up the cable and the peer is one step with sending: when they go in
between, the frame and its answer are lost, as when they had gone before. A port is named
by the router it is cabled to, and has one address (`Interfaces`): a loaded one, one the
user gives it (`AddInterface`), or that of the subnet with the number of its link
(`AssignLinkAddress`), and so two ports may have the same. A daemon's neighbours and a
route's next hop carry addresses, by which `RemoveDevice` purges them, whoever they lead
to; a host may have such an address, too (`RemoveHost`). A port that is shut drops what
arrives (`IsInterfaceUp`) and goes on sending. `overtaken`, `late` and `unlisted` are
history: the routers where two updates were between the two locks at once or a purge took
a route; those for which an update of the removed device was under way, or whose route
named an address it did not have any more; and links whose ends a purge made forget each
other.

**Switch** (`switch.go`). Ports are `<<switch, number>>` in the order of their names,
which is what `RunSTP` looks at. A network is one of `Networks`: its switches, ports,
cables, the frames sent and the changes the user makes. Whether it has no loop and its
cables agree on VLANs is said of the network (`LoopFree`, `VLANsAgree`), not of the
run. `touched` is history: the user has changed a port or removed a switch.

**Forward** (`dataplane.go`, `router_services.go`, `ipsec.go`). `work[t]` is the packet
that thread `t` (the loop, or a connection that pings from the router) is at, and the
stage of `forwardIPFromRouter` it has reached; each stage takes the router's lock for
itself, so a configuration command fits between any two. A network is the set of its
addresses. A packet whose next hop is unknown waits in the form it has by then and goes
through all output stages again. `NATInside` is left out, as nothing reads it.
`Traffic` says which frames arrive, `Arriving` which packets those are and carry.
`touched` and `waited` are history. An `id` ties a reply to the request it answers and a
packet to its forms along the way. `ReplyToAsker` follows it back to the sender of the
request. `PATForSenders` says of each step whom it may add to the PAT table, and stops at
the first entry for an address that is not private: replies to that one are translated to
a global address.

**Lab** and **Dhcp** (`manager.go`, `topology_ops.go`, `persistence.go`, handlers of
`main.go`). `lab` holds routers, hosts, switches and links; `negs` are the goroutines of
`TryAutoNegotiateIKE`, each with the objects it holds, which may be in the maps no more
(`srcLive`, `dstLive`); `file` and `saving` are `SAVE_TOPOLOGY`, which empties the file
first, and `Crash` may come in between. One topology is saved at a time. ADD_ROUTER and
its interfaces are one action, since nothing else can name the router before; a router
has one pool. A file there is at the start (`Files`) was saved before any device or link
was removed, its routers cabled after both were added (`CompleteFile`). `ADD_STATIC_ROUTE`
names a router by its public address. `late` is history: peers a goroutine activated
when they were not in the lab any more.

**Console** (`engine/cli`, `config_store.go`). Nothing locks the session, so a line
runs in steps that those of other connections come between: `Enter` (Execute reads the
mode and takes what its switch assigns), `AssignField` (one field at a time, in the order
of the code), `Record`, `Dispatch` (a handler is found, which tests the mode up to four
times more), `ReadField` (a handler reads one name) and `Configure` (one call that writes
to the device, under its lock). `todo[c]` is how far connection `c` has got. Between two of
its own steps a line may test the mode at any moment: `seen` collects the modes there have
been, and `ModesSeen` adds one that no comparison looks for, since the mode may change
between the comparisons of one test. A handler that holds a removed device goes on with
it (`stale`). `show` and `ping` lines change nothing and are left out. What a line sets that is not about a port, a pool
or QoS is the line itself, in `dev.global`. A line that must name something does, and an
interface line names a port of the model. `Replay` runs the recorded lines again on a
fresh device, as a recursive function over their number: the code saves and shows the
lines and never runs them, so this says what a saved configuration is worth.

**Wan** (`wan.go`, `final_features.go`, `dataplane.go`). A connection configures an end
and looks at the other end as a step of its own; a frame is answered in two steps, one
for each end's state machine. **Cdp**: an entry is its age in packets, capped at
`Holdtime`; packets of a cycle arrive before the next cycle, a minute later. **Vtp**: a
propagation picks a server, copies its database under the server's lock and merges it
under the client's. `authors` and `names` are history: who named a VLAN at which
revision. **Bgp**: a router has one address and one network. `PeerKey` is the address
under which the receiver looks the sender up. **Voip**: a command is handled at the call
manager directly and once more when its message is delivered; no command gives a phone
an address.

**Qos** (`qos.go`, lines of `ios_extended.go`). Of a class's actions only the rates of
police lines are kept. `handled` is the packet `ApplyQoSToPacket` is at: its police lines
are steps of their own, and nothing else happens meanwhile, as the router's lock is held.
Tokens are counted in parts, `Unit` of them a token, where the code has floats; their
rounding is left out. `taken`, `passed`, `born`, `seen` and `doubled` are history.

## 4. Runs

| Run | Instance | Shows |
|---|---|---|
| `scheduler` | two timers, one-shots dispatched and not, clock and events bounded | no event in the past, one timer each, never late, every timer fires again and again |
| `ping` | one host, two destinations, two requests, one duplicated frame | sessions guarded by a timeout, none timed out early or answered twice, no success made up, the queue implements `Scheduler`'s engine |
| `ping_live` | a host that is removed and a router | every ping gets a result, unless its session was overwritten, and what becomes of it is what `PingPromise` says |
| `ospf` | two routers, one link, one port to shut, one subnet | no adjacency ever forms, dead neighbours go |
| `ospf_spf` | every database of four routers and a stub | distances and next hops of routers are right, stub networks are never reached |
| `arp` | a host and a router with removable links, a bystander, two packets and an answer | no packet stranded or sent twice, every packet leaves |
| `rip` | three routers, a row that becomes a triangle, an address that is there twice, a port to shut and one to readdress, two changes, Infinity 4 | next hops are closer, no forwarding loop, tables agree and removed routers stay out up to the named races and purges, shortest ways into open ports are found |
| `switch` | two switches, three hosts, trunk, two VLANs; a ring of three | no second copy, VLANs kept apart, frames arrive; in the ring a broadcast never ends |
| `forward` | a LAN of two hosts, an uplink with a server and a tunnel peer, two commands before and one after the first packet | packets are treated as configured; PAT serves one sender and mixes up two, and those who send, but for named cases; encrypted once unless it waited; a tunnel's own route swallows its packets |
| `lab` | two routers, three hosts, a switch, six cables, five commands, one crash; empty or loaded at the start | leases apart, networks of links apart, nothing left of removed devices but what a goroutine was late with, what a snapshot keeps |
| `console` | two connections, a router or a switch, four commands from one of eight menus, all steps of two lines interleaved | the mode's names are known unless lines that assign fields ran at once, what replay gives back, which lines have no effect |
| `services` | one of `Hsrp`, `Wan`, `Cdp`, `Vtp`, `Bgp`, `Voip`, `Qos` at a time | see below |

Where several parts say one thing about the same state, the run checks their conjunction
under a name of its own, and each part but a type invariant has a mutant:

| Checked | Parts |
|---|---|
| `QueueSound` | `TypeOK`, `NoEventInThePast`, `OneTimerPerProtocol`, `TimerWithinInterval` |
| `PingsSound` | `TypeOK`, `SessionGuarded`, `NoEarlyTimeout` (`SessionsSound`); `AtMostOneAnswer`, `SuccessHasReply` (`AnswersSound`) |
| `NeighborsSound` | `TypeOK` (no neighbour more than an interval late), `NeverAdjacent` |
| `SPFCorrect` | `TypeOK`, `ShortestPaths`, `NextHopOnShortestPath` |
| `RoutesSound`, `TablesFollow` | `TypeOK`, `NextHopCloser`, `NoForwardingLoop`; `TableIsDaemons`, `RemovedStaysOut` |
| `QueuesSound` | `TypeOK`, `WaitingIsAsked`, `SentOnce` |
| `OnceAndInVLAN` | `SwitchTypeOK`, `NoSecondCopy`, `StaysInVLAN` |
| `PacketsSound` | `TypeOK`, `EncryptedOnce` |
| `AddressesSound` | `LabTypeOK`, `LeasesDistinct`, `HostsDistinct`, `FreshLinksSound` |
| `ReferencesSound` | `PeerLeadsBack`, `PeersExist`, `RoutesHaveTunnels` |
| `SavesSound` | `FileUsable`, `RoundTrip` |
| `ConsoleSound` | `TypeOK`, `ContextKnown`, `SavedIsPrefix`, `ClassOnce` |
| `ReplaySound` | `ReplayGivesDevice`, `ReplayMissesPorts` |
| `LinesWithoutEffect` | `NoCryptoEntries`, `PoolsUnnamed`, `ListsNotApplied` |
| `ElectionSettles` | `TypeOK`, `BestBecomesActive`, `NobodyStaysInListen` |
| `PPPStaysInLCP` | `WanTypeOK`, `PPPNeverUp`, `FirstHandshakeStarts`, `LCPNeverEnds` |
| `NeighborsAge` | `CdpTypeOK`, `FewSurvive`, `RemovedIsForgotten`, `SmallLabsRemember` |
| `DatabasesGrow` | `VtpTypeOK`, `RevisionTellsNames`, `RevisionsGrow` |
| `CallsSound` | `CallsOnlyRing`, `CrashesWithoutPhones` |
| `BGPUseless` | `RoutesLeadToOneself`, `OwnASRefused` |
| `PolicerFair` | `QosTypeOK`, `PolicedRate`, `FirstBurst` |

`services` shows of HSRP that a best router ends up Active and an outranked one stays so
beside it, unless an election that had found it in another state just then assigns Standby; of PPP that the first handshake starts, that LCP is never left and never ends;
of CDP that no more than three entries outlive a cycle, that labs of two routers keep
theirs, and that what is gone is forgotten; of VTP that revisions grow, tell the names
and reach the clients; of BGP that routes lead to the router itself and the loop check
holds; of phones that every call rings for ever, and when a registration ends the
process; of the policer that the rate is kept and the first burst passes. The modules
share no variable, so one at a time, the one `active` names, loses nothing.

**Bounds.** Two actors of each kind give every pairwise race, and the races in this code
are between two goroutines. Two ticks per millisecond let pings share an
identifier and not a key; a round trip of two ticks ties the reply with the timeout;
three HSRP configurations allow a group to be replaced during an election and once
more; three RIP routers have a direct and an indirect way, and Infinity 4 drops the
offer of a third hop. The lab that RIP starts with has lost a link, so that the next one
gets the number of one that is there, and the user has given a port of a third router that
address as well: removing either router, or a host with it, purges routes through the
other. One edit of `Forward` after the first packet falls between any two
stages, two before it combine any two features. The run's default route and its static
address off the link make every case that `ReplyToAsker` and `PATForSenders` name happen,
but for one: that a packet under way during a change makes a wrong entry takes a second
change after it, which trebles the run; with two changes TLC refutes `PATForSenders`
without that case, and section 5 proves it with the case for any number. Five commands of `Lab` suffice to cable,
lease, remove and load; four commands of `Console` to enter a mode, configure and leave,
with one of them from the other connection, step by step; section 5 proves the same for any
number. The menus of `Console` group the lines
that share session state, since lines of different groups meet only in the mode. Three
serial configurations let an end be configured again while its first handshake is under
way. BGP's menu has a peer under a wrong number and a router that is its own peer, the
only ways a route is accepted at all. `MaxClock`, `MaxEvents`, `MaxCopies`,
`MaxConfigs`, `MaxChanges`, `MaxSetup`, `MaxEdits`, `MaxCommands`, `MaxCrashes`,
`MaxSerialConfigs`, `MaxNames`, `MaxNow`, `MaxPassed` and `MaxPolicyLines` are guards;
the proofs of section 5 do not depend on their values. `DeadCycles` is 1 in the run and
4 in the code: it only counts silent intervals. Symmetry is used in `ping`, over
requests, and in `console`, over connections, and nowhere a liveness property is
checked.

**Fairness.** `runSimulationLoop` runs for ever and handles one event after the other,
so its steps, and the timers it reschedules (`HSRPTimer`, `CDPLoop`, `VTPTimer`), are
weakly fair; a goroutine that has started a call finishes it (`RunHSRPElection`,
`Propagation`). User actions are never fair, with one exception: in `Arp` a
link that was removed comes back, without which delivery to it could not be asked for. Frames in
`Arp` and `Switch` are delivered fairly as one set: the heap hands out the earliest,
and there are finitely many.

**Deadlock** is checked except in `arp`, `forward`, `lab` and `console`, where all
packets may be through and all commands typed.

## 5. Proofs

Every safety property a run checks is a theorem for every value of the constants. The
assumptions on the constants are the named `ASSUME`s of the modules (`PingAssumption`,
`LabAssumption`, ...), which TLC evaluates in every run: delays and limits are natural
numbers, ports belong to routers, and the like. Two restrict more. `NetworksAssumption` of
`Lab` says that no router is added with an address of a network that links will get, which
only `FreshLinksSound` needs. `SourcesAssumption` of `Forward` is about what arrives:
packets are told apart by their ids, and no request comes from an address that is the
router's or that it gives to a host; the proofs of `ReplyToAsker` and `PATForSenders`
need it. `EdgeRouter` is no assumption but the hypothesis of one theorem,
`EntriesForSenders`; `MCForward` asserts it of the run.

**`SchedulerProofs`.** The inductive invariant is `QueueSound` itself:
`TimerWithinInterval` needs that each timer exists once and that the clock is behind
every queued event, and those need the types. It is proved for `EngineSpec`, of which
`Spec` is a restriction (`BoundsOnlyRestrict`), so that it holds for what implements the
engine too (`EngineStaysSound`). `ClockNeverGoesBack` follows.

**`PingProofs`.**
* `SessionsSound`: a queued timeout is never due before the clock value of its key plus
  the timeout, nor is the one being handled, and a goroutine's reading of the clock is
  not in the future.
* `AnswersSound`: a request has one session at most, and none once it is told; no result is
  in the two queues at once; sessions and frames carry what their request was started
  with; a success stands for an echo that was answered under the same identifier.
* `RunsOnEngine`: `Spec` implements `Scheduler`'s `EngineSpec`, where an event is mapped
  to its timestamp, type and number. It needs that numbers tell events apart, so that
  forgetting the data of an event identifies no two.
* `KeepsPromise`: `Spec` implements `PingPromise`, step by step. The goroutine's last two
  steps, timers and the echo's way out are stutters of it. Sessions and frames carry their
  request's source, destination and identifier, so what `completePing` compares are the
  calls; the timeout in hand is due no earlier than its key says, which is the call's
  clock value; and the results of `RemoveDevice`, one for each session in any order, are
  those of all its open pings (an injection between finite sets of one size misses none).
  Besides the two invariants above it needs that a request has no call before it starts,
  that each frame's request has one, and that replaced requests had stored a session
  (`CInv`).

**`OspfProofs`.** `NeverAdjacent`: no hello on the wire or in a goroutine's hands lists
anybody; each half follows from the other. The types say that no neighbour is more than
an interval late: the loop's clock is never stale, and a router it has passed in this
cycle has no dead neighbour left.

**`RoutingProofs`.**
* `SPFCorrect`: Dijkstra's argument. Every finite distance is the length of a path that
  was found (`Found`), visited nodes come in the order of distance (`Bounded`), their
  links are relaxed (`Relaxed`), and next hops lead along such a path. Along any path
  each node is then at most one further than the one before (`NoShorterWay`, by
  descent). `NoSubnetReached`: a distance that is missing reads as zero.
* `PacketsSound`, `TreatedAsConfigured`: the packets under way stay in a set that is
  closed under what ESP packets carry. Of each packet not under way during a change, what
  the stages behind it have seen to still holds of the configuration.
* `TunnelRouteSwallows`: routes to ports are those from before tunnels were negotiated,
  and a tunnel in use has a route to no port. A packet for the subnet behind it that gets
  to a port had a preferred route, passes through encrypted, or met a change.
* `ReplyToAsker`: as long as no two inside addresses share a global one, translations lead
  from the sender of a request to the source of every form of it, one step at a time
  (`Descends`), and replies lead back along them. That needs that tables only grow
  (`TablesGrow`), so that a translation used for the request is there for its reply; that
  the port of a static translation may stop being an outside one is why a reply may go out
  again to a static global address.
* `PATForSenders`, for an edge router: its private networks are connected, the servers are
  behind its one uplink, and no frame is transit. The invariant (`PInv`) says of each stage
  whose packets can be there: what arrives is from or for a private address or for the
  router (`Arrives`), what looks for its route is of a private source, the router's own,
  waited, met a change or is for a private address (`Proper`). The last kind leaves by no
  uplink, as connected routes stay and are the longest match (`HomewardIn`), and only
  packets for an uplink make entries (`EntryMade`). The invariant holds while the table
  stands for private addresses, which is what the property asks.

**`RipProofs`.** What a router advertises never grows (`AdvertisementsShrink`), so one
that was read earlier is an upper bound (`Honest`) and a next hop stays closer.
`NoForwardingLoop` follows by descent (`NoLoop`): of routers that forward to one another
only, the one with the smallest metric would have a next hop with a smaller one. For the
tables, a route about to be installed is still the daemon's or its router is in
`overtaken`, as is every router a purge took a route from (`RemovalSteps`), and an update
from a removed router has its receiver in `late`. No assumption is made about addresses.

**`LinksProofs`.**
* ARP, `QueuesSound`: the loop is busy with an answer as long as the answer's call is
  under way, so that an arriving packet never restarts it; a frame with data is addressed to
  the packet's destination, and a packet is with its sender, in a queue or on the wire
  and never at two of them.
* Switch, `OnceAndInVLAN`: in a network without loops no two copies of a frame
  have the same host ahead, nor one that has the frame or sent it (`Apart`); where cables
  agree on VLANs, a copy stays in the VLAN of its sender (`InVLAN`).
* PPP, `PPPStaysInLCP`: only LCP is ever on the wire or about to be answered. The frames
  of an exchange are counted, with those about to be sent (`Budget`), and those of a
  first handshake apart (`FirstOnes`).
* VoIP, `CallsSound`: inductive as it stands.
* QoS, `PolicerFair`: a bound from above (`PolicedRate`) and one from below (`Covered`)
  are each kept by one of the rates the bucket was used with: the higher of two pays for
  the time of both, and the cap is a rate in use. `Counted` and `SingleLine` tie tokens
  to packets where no packet was charged twice, so that an empty bucket means a burst
  that passed.

**`ServicesProofs`.**
* HSRP, `OutrankedStaysActive`: an election takes Active away only where the other
  one's Active came between its test and its assignment. `TestsHold` says of what an
  election has in hand that it gives way to an elected group of its address, and that
  what is tested is not Active or has become so since.
* CDP, `NeighborsAge`: entries a port learned from different neighbours have different
  ages, as one packet ages all others (`AgesDiffer`); what an entry is about was there
  when its packet was sent; in a small lab an entry is renewed before as many packets as
  make it old (`Refreshed`).
* VTP, `DatabasesGrow`: with one author of names, it is ahead of all switches and of the
  copies under way, and whoever has a revision has its names (`SoleAuthor`).
* BGP, `BGPUseless`: what a cycle is about to install was taken from the router itself,
  and a router whose process does not run has learned nothing, so that its AS, once
  configured, is in no path it has.
* Lab, `AddressesSound`, `ReferencesSound`, `SavesSound`: one invariant (`LabInv`) for
  all. What a host has, or is about to get, its router's pool has leased to it
  (`LeasesHeld`); tunnels and routes lead to routers that are there or to peers a
  goroutine was late with (`TunnelsLead`, `RoutesLead`), in a file too (`SavedSound`);
  as long as nothing was removed, links have the networks of their numbers (`LinksFresh`);
  and a file that cannot be read is being written or was cut by a crash.

**`ConsoleProofs`.** Every step of a line is one case. The invariants say where a line may be:
`TypesInv` for all, with what a handler has yet to assign, to read and has read; for
`ContextKnown`, `ContextInv` says that while only one line at a time assigns (`Single`),
what it has yet to assign completes the names of the mode; for `ConfiguresShownPort`,
`PortInv` says that a port is selected only in its mode, or by a line that is entering or
leaving it, and that what a handler read was shown. For `ReplaySound`, `ReplayInv`:
replaying the recorded lines selects no port on any kind of device (`RecordsOK`), and gives
the device as it is, or as it will be when the line under way has run (`Follows`). The recursive
functions that replay are unfolded by induction on the least number of lines where they
would fail (`LeastIndex`).

**Only model-checked.** Liveness: `TimersFire`, `AnsweredUnlessOverwritten`,
`DeadNeighborsGo`, `EveryPacketLeaves`, `Converges`, `EveryFrameArrives`,
`StormNeverEnds`, `ElectionSettles`, `GoneIsForgotten` and `ClientsCatchUp` need fairness
and ENABLED.

## 6. Where the code differs from what it says

Each of these is what a property of a passing run says of the code, where a comment or
`USE_CASES.md` says otherwise; PROJECT.json quotes the lines.

* OSPF neighbours never leave INIT (`NeverAdjacent`), and SPF never reaches a stub
  network (`NoSubnetReached`).
* The spanning tree leaves loops open (`StormNeverEnds`).
* Two HSRP routers stay Active for one address (`OutrankedStaysActive`).
* A negotiated tunnel routes its packets to no interface (`TunnelRouteSwallows`), and a
  negotiation that outlives its device leaves the peer behind (`PeersExist`).
* PAT returns a reply to any of its senders (`ReplyToAsker`).
* A saved lab has no pools, keys and tunnels (`RoundTrip`).
* On the command line no crypto map entry can be typed (`NoCryptoEntries`), no pool
  named (`PoolsUnnamed`), no list put in force (`ListsNotApplied`), and the running
  configuration forgets the ports (`ReplayMissesPorts`).
* PPP never leaves LCP (`PPPNeverUp`).
* The CDP holdtime is three packets, not three cycles (`FewSurvive`).
* BGP peers never exchange a route (`RoutesLeadToOneself`). Were the sender looked up
  under its own address, its own networks would still be refused: their path ends in its
  AS.
* Calls ring for ever (`CallsOnlyRing`), and a registration delivered after the last
  phone was removed ends the process (`CrashesWithoutPhones`).

Seen in the same lines, without a run of its own:

* A ping started at the same clock value as another of its source takes over its
  session: only one of the two gets a result (`overwritten`).
* Of two RIP updates handled at once the routing table may keep the worse for good, an
  update under way may install a route through a device after `RemoveDevice` has
  purged them, and the purge takes every route to an address of the device, also one that
  leads to another router with the same address (`overtaken`, `late`); without these exceptions TLC refutes
  `TableIsDaemons` and `RemovedStaysOut`.
* `RemoveDevice` cancels pings sourced from the device, not those targeting it, as its
  comment says; they end by their timeout.
* A switch that is not the root blocks the last of its ports by name, also when a host
  is all that is behind it; and a frame to a learned address leaves by a blocked port.
* LSAs all have sequence number 1, so a subnet connected after the first flooding
  reaches no database.
* A police line typed again does not replace the first but adds to it, and every packet
  of the class is charged twice (`doubled`); without the exception TLC refutes
  `FirstBurst`.
* The session of a device has no lock: `interface` and `exit` typed at once leave the
  interface mode without a port, or a port selected in the configuration mode, and `class`
  and `exit` leave a policy class without a policy map (`mixed`); without the exception
  TLC refutes `ContextKnown` and `ConfiguresShownPort`.
* HSRP does not look at interfaces, so `shutdown` causes no failover.
* A packet queued for ARP whose question was dropped stays queued when the address is
  learned from the other side's question.

## 7. Not modelled

* Of **RIP**: several cables between two routers, a port that is cabled to another router
  later, and a removed router that is added again.
* **IPv6 neighbour discovery** queues and releases as ARP does, with its own cache.
* **EIGRP** runs RIP's cycle with another metric. **Frame Relay**: nothing sends a frame
  or reads a circuit.
* **Mobile** devices: no command and no caller attaches one.
* **ASA and wireless**: no command adds rules to a firewall, which leaves a test of the
  incoming zone; an access point forwards everything.
* **Traceroute**, **assessment**, **event log** and **packet capture** read the state of
  the moment and change none of it, buffers that are only shown aside.
* Of QoS the marks and the delays of `bandwidth`; of IPsec the phases inside one
  negotiation, which are one function call; of VoIP the media streams, as no call is
  ever answered.
* `StartPing6` does what `StartPing` does for another address family.
* The JSON codecs, the user interface, the parsing of command words and the wording of
  messages.

Data races that make the Go runtime stop the process (concurrent writes of a map) are
not modelled: there is no state after them. A read of a session field that races a write
is taken to give the value before or after it; half a string, which the language does not
rule out, is not modelled.
