---------------------------- MODULE PingPromise ----------------------------
(***************************************************************************)
(* What StartPing promises to whoever asked for a ping                     *)
(* (engine/network/dataplane.go), without the queue, the keys and the      *)
(* frames that keep the promise: a ping that was started stays open until  *)
(* its result is there, and has one result.  It ends as a success only     *)
(* when an echo of its source to its destination came back, as a timeout   *)
(* only when its time is up, and as cancelled only with all others of its  *)
(* source.  Only a ping of the same source at the same clock value takes   *)
(* its place, and then nobody hears of it again.                           *)
(***************************************************************************)
EXTENDS Naturals

CONSTANTS
    Requests,    \* calls of StartPing
    Devices,
    Timeout,     \* IcmpPingTimeout
    Alike(_, _), \* whether echoes sent at these clock values look the same
    None

VARIABLES
    now,    \* the clock
    call,   \* call[r]: source and destination of r and when it was asked for
    open,   \* the pings that have no result yet
    lost,   \* the pings whose place another one took
    heard,  \* the pings whose echo came back
    due,    \* the results the user is about to be told
    told    \* the results the user was told

vars == <<now, call, open, lost, heard, due, told>>

Result(r, outcome) == [req |-> r, outcome |-> outcome]
Ended == {x.req : x \in due \cup told}
Called(r) == call[r] # None

Init ==
    /\ now = 0
    /\ call = [r \in Requests |-> None]
    /\ open = {} /\ lost = {} /\ heard = {} /\ due = {} /\ told = {}

Tick ==
    /\ now' \in Nat /\ now <= now'
    /\ UNCHANGED <<call, open, lost, heard, due, told>>

(* A ping is asked for, or refused at once.                                *)
Ask(r) ==
    /\ ~Called(r) /\ r \notin Ended
    /\ \E s, d \in Devices :
         call' = [call EXCEPT ![r] = [source |-> s, dest |-> d, at |-> now]]
    /\ UNCHANGED <<now, open, lost, heard, due, told>>

Refuse(r) ==
    /\ ~Called(r) /\ r \notin Ended
    /\ told' = told \cup {Result(r, "error")}
    /\ UNCHANGED <<now, call, open, lost, heard, due>>

(* It is on its way, in place of one with the same source and clock value. *)
Open(r) ==
    LET replaced == {q \in open : /\ call[q].source = call[r].source
                                  /\ call[q].at = call[r].at}
    IN  /\ Called(r) /\ r \notin open \cup lost \cup Ended
        /\ open' = (open \ replaced) \cup {r}
        /\ lost' = lost \cup replaced
        /\ UNCHANGED <<now, call, heard, due, told>>

End(S, outcome) ==
    /\ open' = open \ S
    /\ due' = due \cup {Result(r, outcome) : r \in S}
    /\ UNCHANGED <<now, call, lost, told>>

(* The echo of q comes back and ends an open ping that looks like q.       *)
Hear(q) ==
    /\ Called(q) /\ heard' = heard \cup {q}
    /\ \/ \E r \in open :
            /\ call[r].source = call[q].source /\ call[r].dest = call[q].dest
            /\ Alike(call[r].at, call[q].at)
            /\ End({r}, "reply")
       \/ UNCHANGED <<now, call, open, lost, due, told>>

Expire(r) ==
    /\ r \in open /\ now >= call[r].at + Timeout
    /\ End({r}, "timeout") /\ UNCHANGED heard

Cancel(d) ==
    End({r \in open : call[r].source = d}, "removed") /\ UNCHANGED heard

Tell ==
    /\ told' = told \cup due /\ due' = {}
    /\ UNCHANGED <<now, call, open, lost, heard>>

Next ==
    \/ Tick \/ Tell
    \/ \E r \in Requests : Ask(r) \/ Refuse(r) \/ Open(r) \/ Hear(r) \/ Expire(r)
    \/ \E d \in Devices : Cancel(d)

Spec == Init /\ [][Next]_vars
=============================================================================
