----------------------------- MODULE EventStore -----------------------------
(* What the event log promises, without batches, workers, tables and ids:  *)
(* an event is logged, then stored or dropped, and it leaves the store     *)
(* only when it has been logged for more than Retention days.              *)
EXTENDS Integers

CONSTANTS Events, Retention

VARIABLES
    today,
    loggedOn,  \* the day on which an event was logged
    fate       \* what has become of it

vars == <<today, loggedOn, fate>>

Init ==
    /\ today = 0
    /\ loggedOn = [e \in Events |-> 0]
    /\ fate = [e \in Events |-> "new"]

Log(e) ==
    /\ fate[e] = "new"
    /\ fate' = [fate EXCEPT ![e] = "waiting"]
    /\ loggedOn' = [loggedOn EXCEPT ![e] = today]
    /\ UNCHANGED today

\* Some events, all of which are as "from" says, become what "to" says.
Move(from, to) ==
    /\ fate' \in [Events -> {"new", "waiting", "stored", "dropped", "expired"}]
    /\ \A e \in Events : fate'[e] # fate[e] => fate[e] \in from /\ fate'[e] = to
    /\ UNCHANGED <<today, loggedOn>>

Write == Move({"waiting"}, "stored")

\* A request may be cut off before its event is logged.
Drop == Move({"new", "waiting"}, "dropped")

Expire ==
    /\ Move({"stored"}, "expired")
    /\ \A e \in Events : fate'[e] # fate[e] => today - loggedOn[e] > Retention

NextDay ==
    /\ today' = today + 1
    /\ UNCHANGED <<loggedOn, fate>>

Next == (\E e \in Events : Log(e)) \/ Write \/ Drop \/ Expire \/ NextDay

Spec == Init /\ [][Next]_vars
=============================================================================
