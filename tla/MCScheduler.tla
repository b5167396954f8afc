----------------------------- MODULE MCScheduler -----------------------------
(* Three protocol timers with commensurable and incommensurable periods,   *)
(* and all three kinds of one-shot event, with and without delay.          *)
EXTENDS Scheduler

MCTimers == {"TIMER_HSRP", "TIMER_OSPF", "TIMER_RIP"}
MCInterval == [p \in MCTimers |-> CASE p = "TIMER_HSRP" -> 2
                                    [] p = "TIMER_OSPF" -> 3
                                    [] p = "TIMER_RIP" -> 6]
MCStartOrder == [p \in MCTimers |-> CASE p = "TIMER_OSPF" -> 1
                                      [] p = "TIMER_RIP" -> 2
                                      [] p = "TIMER_HSRP" -> 3]
MCDispatched == {"PACKET_RX", "TIMER_ICMP"}
MCUndispatched == {"TIMER_VOIP"}
=============================================================================
