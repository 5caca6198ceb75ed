---------------------------- MODULE LossyCounters ----------------------------
(* What the request counters promise: a count is waiting until it is       *)
(* written or lost, and it is written at most once.                        *)
EXTENDS Integers

CONSTANT Sites

VARIABLES written, waiting

vars == <<written, waiting>>

Init ==
    /\ written = [s \in Sites |-> 0]
    /\ waiting = [s \in Sites |-> 0]

Count(s) ==
    /\ waiting' = [waiting EXCEPT ![s] = @ + 1]
    /\ UNCHANGED written

(* Some of the waiting counts stop waiting. *)
Take ==
    /\ waiting' = [s \in Sites |-> waiting'[s]]
    /\ \A s \in Sites : waiting'[s] \in 0 .. waiting[s]

Write == Take /\ written' = [s \in Sites |-> written[s] + waiting[s] - waiting'[s]]

Lose == Take /\ UNCHANGED written

Next == (\E s \in Sites : Count(s)) \/ Write \/ Lose

Spec == Init /\ [][Next]_vars
=============================================================================
