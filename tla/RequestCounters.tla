-------------------------- MODULE RequestCounters --------------------------
(***************************************************************************)
(* The proxy's request counters (proxy/proxy.go): ServeHTTP counts each    *)
(* request of a site in memory, under countersMutex, and the goroutine     *)
(* updateRequestCounters moves the counts into the database every 30       *)
(* seconds, in one transaction.                                            *)
(*                                                                         *)
(* The table that the goroutine looks for and updates is "site"; the sites *)
(* of models/site.go are in the table "sites".                             *)
(***************************************************************************)
EXTENDS Integers

CONSTANTS
    Sites,
    SiteTable,    \* whether the database has a table named "site"
    MaxRequests,  \* bound on the requests of a site
    Faults        \* the statements that may fail: "check", "begin", "update", "commit"

ASSUME CountersAssumption ==
    /\ SiteTable \in BOOLEAN
    /\ MaxRequests \in Nat
    /\ Faults \subseteq {"check", "begin", "update", "commit"}

VARIABLES
    served,           \* history: the requests of each site ServeHTTP has passed on
    known,            \* the keys of the map requestCounters
    requestCounters,  \* its values, 0 where it has no key
    step,             \* where updateRequestCounters is
    counters,         \* its copy of the counts
    todo,             \* the sites the transaction has not updated yet
    request_count,    \* the committed column of the table
    lost              \* history: the counts of rounds that failed

vars == <<served, known, requestCounters, step, counters, todo, request_count, lost>>

Zero == [s \in Sites |-> 0]

Init ==
    /\ served = Zero
    /\ known = {}
    /\ requestCounters = Zero
    /\ step = "tick"
    /\ counters = Zero
    /\ todo = {}
    /\ request_count = Zero
    /\ lost = Zero

-----------------------------------------------------------------------------
(* A request to a site of the proxy that is not answered by a redirect. *)
ServeHTTP(s) ==
    /\ served[s] < MaxRequests
    /\ served' = [served EXCEPT ![s] = @ + 1]
    /\ known' = known \cup {s}
    /\ requestCounters' = [requestCounters EXCEPT ![s] = @ + 1]
    /\ UNCHANGED <<step, counters, todo, request_count, lost>>

(* The critical section of a round.  Nothing to write before the first     *)
(* request.                                                                *)
TakeCounters ==
    /\ step = "tick"
    /\ known # {}
    /\ counters' = requestCounters
    /\ todo' = known
    /\ requestCounters' = Zero
    /\ step' = "check"
    /\ UNCHANGED <<served, known, request_count, lost>>

(* The goroutine drops its copy and waits for the next tick, or returns.   *)
EndRound(next) ==
    /\ step' = next
    /\ counters' = Zero
    /\ todo' = {}
    /\ UNCHANGED <<served, known, requestCounters>>

Plus(f, g) == [s \in Sites |-> f[s] + g[s]]

(* A round that fails: its counts are in no variable of the program then.  *)
RoundFails(next) ==
    /\ lost' = Plus(lost, counters)
    /\ EndRound(next)
    /\ UNCHANGED request_count

TableExists ==
    /\ step = "check"
    /\ SiteTable
    /\ step' = "begin"
    /\ UNCHANGED <<served, known, requestCounters, counters, todo, request_count, lost>>

(* No such table, or no answer: the ticker is stopped for good. *)
TableMissing ==
    /\ step = "check"
    /\ ~SiteTable \/ "check" \in Faults
    /\ RoundFails("stopped")

Begin ==
    /\ step = "begin"
    /\ step' = "update"
    /\ UNCHANGED <<served, known, requestCounters, counters, todo, request_count, lost>>

(* Mutation: a round whose BEGIN fails starts over with its counts. *)
BeginFailsRetries ==
    /\ step = "begin"
    /\ "begin" \in Faults
    /\ step' = "check"
    /\ UNCHANGED <<served, known, requestCounters, counters, todo, request_count, lost>>

BeginFails ==
    /\ step = "begin"
    /\ "begin" \in Faults
    /\ RoundFails("tick")

Update(s) ==
    /\ step = "update"
    /\ s \in todo
    /\ todo' = todo \ {s}
    /\ UNCHANGED <<served, known, requestCounters, step, counters, request_count, lost>>

(* The first failing UPDATE ends the loop; the transaction is rolled back. *)
UpdateFails ==
    /\ step = "update"
    /\ todo # {}
    /\ "update" \in Faults
    /\ RoundFails("tick")

(* Mutation: the counts written are taken out of memory a second time. *)
CommitSubtracts ==
    /\ step = "update"
    /\ todo = {}
    /\ request_count' = Plus(request_count, counters)
    /\ requestCounters' = [s \in Sites |-> requestCounters[s] - counters[s]]
    /\ step' = "tick"
    /\ counters' = Zero
    /\ UNCHANGED <<served, known, todo, lost>>

Commit ==
    /\ step = "update"
    /\ todo = {}
    /\ request_count' = Plus(request_count, counters)
    /\ EndRound("tick")
    /\ UNCHANGED lost

(* Mutation: after an error of COMMIT the counts are put back. *)
CommitFailsKeepsCounts ==
    /\ step = "update"
    /\ todo = {}
    /\ "commit" \in Faults
    /\ \/ request_count' = Plus(request_count, counters)
       \/ UNCHANGED request_count
    /\ requestCounters' = Plus(requestCounters, counters)
    /\ counters' = Zero
    /\ step' = "tick"
    /\ UNCHANGED <<served, known, todo, lost>>

(* An error of COMMIT: the database has committed or it has not. *)
CommitFails ==
    /\ step = "update"
    /\ todo = {}
    /\ "commit" \in Faults
    /\ \/ /\ request_count' = Plus(request_count, counters)
          /\ EndRound("tick")
          /\ UNCHANGED lost
       \/ RoundFails("tick")

Round ==
    \/ TakeCounters
    \/ TableExists \/ TableMissing
    \/ Begin \/ BeginFails
    \/ \E s \in Sites : Update(s)
    \/ UpdateFails
    \/ Commit \/ CommitFails

Next == (\E s \in Sites : ServeHTTP(s)) \/ Round

Spec == Init /\ [][Next]_vars

(* The ticker keeps ticking and a goroutine that can run does. *)
FairSpec == Spec /\ WF_vars(Round)

-----------------------------------------------------------------------------
(* The values the variables take: counts are never negative, and the loop  *)
(* of a round is over sites that have a counter.                           *)
TypeOK ==
    /\ served \in [Sites -> Nat]
    /\ known \subseteq Sites
    /\ requestCounters \in [Sites -> Nat]
    /\ step \in {"tick", "check", "begin", "update", "stopped"}
    /\ counters \in [Sites -> Nat]
    /\ todo \subseteq known
    /\ request_count \in [Sites -> Nat]
    /\ lost \in [Sites -> Nat]

(* No request is counted twice and none slips through between two rounds,  *)
(* whatever fails in them: a request served is in the table, on its way    *)
(* there, still in memory, or was lost with a round that failed.           *)
CountsAddUp ==
    \A s \in Sites :
        request_count[s] + counters[s] + requestCounters[s] + lost[s] = served[s]

(* The counts go to memory and from there to the table or nowhere: what is *)
(* written never goes back into memory, although an error of COMMIT does   *)
(* not say whether the database has committed.                             *)
Lossy == INSTANCE LossyCounters WITH
    written <- request_count,
    waiting <- Plus(requestCounters, counters)

ImplementsLossyCounters == Lossy!Spec

(* What is in memory leaves it at the next round, whatever fails there, or *)
(* the goroutine has returned for good.                                    *)
CountsLeaveMemory ==
    \A s \in Sites : requestCounters[s] > 0 ~> requestCounters[s] = 0 \/ step = "stopped"
=============================================================================
