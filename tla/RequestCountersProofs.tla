----------------------- MODULE RequestCountersProofs -----------------------
(* Proofs about RequestCounters, for any number of sites and requests.     *)
EXTENDS RequestCounters, TLAPS

(* Between two rounds the goroutine has no copy of the counts.             *)
CopyOK == step = "tick" => counters = Zero

IInv == TypeOK /\ CopyOK /\ CountsAddUp

LEMMA InitInv == Init => IInv
  BY DEF Init, IInv, TypeOK, CopyOK, CountsAddUp, Zero

(* A round that fails moves its counts from the copy to the lost ones.     *)
LEMMA RoundFailsKeeps ==
    ASSUME IInv, NEW next \in {"tick", "stopped"}, RoundFails(next)
    PROVE  IInv'
  <1>1. \A s \in Sites : lost[s] + counters[s] \in Nat
    BY DEF IInv, TypeOK
  <1>2. TypeOK'
    BY <1>1 DEF IInv, TypeOK, RoundFails, EndRound, Zero, Plus
  <1>3. CopyOK'
    BY DEF CopyOK, RoundFails, EndRound
  <1>4. CountsAddUp'
    <2> SUFFICES ASSUME NEW q \in Sites
        PROVE  request_count'[q] + counters'[q] + requestCounters'[q] + lost'[q] = served'[q]
      BY DEF CountsAddUp
    <2>1. /\ request_count[q] \in Nat /\ counters[q] \in Nat
          /\ requestCounters[q] \in Nat /\ served[q] \in Nat /\ lost[q] \in Nat
          /\ request_count[q] + counters[q] + requestCounters[q] + lost[q] = served[q]
      BY DEF IInv, TypeOK, CountsAddUp
    <2>2. counters'[q] = 0 /\ lost'[q] = lost[q] + counters[q]
      BY DEF RoundFails, EndRound, Zero, Plus
    <2> QED BY <2>1, <2>2 DEF RoundFails, EndRound
  <1> QED BY <1>2, <1>3, <1>4 DEF IInv

(* A committed round moves its counts into the table.                      *)
LEMMA CommittedKeeps ==
    ASSUME IInv, EndRound("tick"), request_count' = Plus(request_count, counters),
           UNCHANGED lost
    PROVE  IInv'
  <1>1. \A s \in Sites : request_count[s] + counters[s] \in Nat
    BY DEF IInv, TypeOK
  <1>2. TypeOK'
    BY <1>1 DEF IInv, TypeOK, EndRound, Zero, Plus
  <1>3. CopyOK'
    BY DEF CopyOK, EndRound
  <1>4. CountsAddUp'
    <2> SUFFICES ASSUME NEW q \in Sites
        PROVE  request_count'[q] + counters'[q] + requestCounters'[q] + lost'[q] = served'[q]
      BY DEF CountsAddUp
    <2>1. /\ request_count[q] \in Nat /\ counters[q] \in Nat
          /\ requestCounters[q] \in Nat /\ served[q] \in Nat /\ lost[q] \in Nat
          /\ request_count[q] + counters[q] + requestCounters[q] + lost[q] = served[q]
      BY DEF IInv, TypeOK, CountsAddUp
    <2>2. counters'[q] = 0 /\ request_count'[q] = request_count[q] + counters[q]
      BY DEF EndRound, Zero, Plus
    <2> QED BY <2>1, <2>2 DEF EndRound
  <1> QED BY <1>2, <1>3, <1>4 DEF IInv

LEMMA StepInv == IInv /\ [Next]_vars => IInv'
  <1> SUFFICES ASSUME IInv, [Next]_vars PROVE IInv'
    OBVIOUS
  <1>1. ASSUME NEW s \in Sites, ServeHTTP(s) PROVE IInv'
    <2>1. TypeOK' /\ CopyOK'
      BY <1>1 DEF IInv, TypeOK, CopyOK, ServeHTTP
    <2>2. CountsAddUp'
      <3> SUFFICES ASSUME NEW q \in Sites
          PROVE  request_count'[q] + counters'[q] + requestCounters'[q] + lost'[q] = served'[q]
        BY DEF CountsAddUp
      <3>1. /\ request_count[q] \in Nat /\ counters[q] \in Nat
            /\ requestCounters[q] \in Nat /\ served[q] \in Nat /\ lost[q] \in Nat
            /\ request_count[q] + counters[q] + requestCounters[q] + lost[q] = served[q]
        BY DEF IInv, TypeOK, CountsAddUp
      <3>2. /\ requestCounters'[q] = requestCounters[q] + IF q = s THEN 1 ELSE 0
            /\ served'[q] = served[q] + IF q = s THEN 1 ELSE 0
        BY <1>1, <3>1 DEF ServeHTTP, IInv, TypeOK
      <3> QED BY <1>1, <3>1, <3>2 DEF ServeHTTP
    <2> QED BY <2>1, <2>2 DEF IInv
  <1>2. CASE TakeCounters
    <2>1. TypeOK' /\ CopyOK'
      BY <1>2 DEF IInv, TypeOK, CopyOK, TakeCounters, Zero
    <2>2. CountsAddUp'
      <3> SUFFICES ASSUME NEW q \in Sites
          PROVE  request_count'[q] + counters'[q] + requestCounters'[q] + lost'[q] = served'[q]
        BY DEF CountsAddUp
      <3>1. /\ request_count[q] \in Nat /\ counters[q] \in Nat
            /\ requestCounters[q] \in Nat /\ served[q] \in Nat /\ lost[q] \in Nat
            /\ request_count[q] + counters[q] + requestCounters[q] + lost[q] = served[q]
        BY DEF IInv, TypeOK, CountsAddUp
      <3>2. counters[q] = 0 /\ counters'[q] = requestCounters[q] /\ requestCounters'[q] = 0
        BY <1>2 DEF TakeCounters, IInv, CopyOK, Zero
      <3> QED BY <1>2, <3>1, <3>2 DEF TakeCounters
    <2> QED BY <2>1, <2>2 DEF IInv
  <1>3. CASE TableExists \/ Begin \/ (\E s \in Sites : Update(s)) \/ UNCHANGED vars
    BY <1>3 DEF IInv, TypeOK, CopyOK, CountsAddUp, TableExists, Begin, Update, vars
  <1>4. CASE TableMissing
    BY <1>4, RoundFailsKeeps DEF TableMissing
  <1>5. CASE BeginFails
    BY <1>5, RoundFailsKeeps DEF BeginFails
  <1>6. CASE UpdateFails
    BY <1>6, RoundFailsKeeps DEF UpdateFails
  <1>7. CASE Commit
    BY <1>7, CommittedKeeps DEF Commit
  <1>8. CASE CommitFails
    BY <1>8, CommittedKeeps, RoundFailsKeeps DEF CommitFails
  <1> QED
    BY <1>1, <1>2, <1>3, <1>4, <1>5, <1>6, <1>7, <1>8 DEF Next, Round

(* The type invariant and the invariants of the counts hold of every       *)
(* behaviour.                                                              *)
THEOREM Invariance == Spec => []IInv
  BY InitInv, StepInv, PTL DEF Spec

(* Every variable keeps its type; the goroutine's unwritten sites are keys *)
(* of the map.                                                             *)
THEOREM TypeCorrect == Spec => []TypeOK
  <1>1. IInv => TypeOK
    BY DEF IInv
  <1> QED BY <1>1, Invariance, PTL

(* No request is counted twice or slips through between two rounds, for    *)
(* any sites, bound and faults: the copy and the reset are one section of  *)
(* the mutex, and an error of COMMIT loses a round or has written it.      *)
THEOREM EveryRequestIsAccountedFor == Spec => []CountsAddUp
  <1>1. IInv => CountsAddUp
    BY DEF IInv
  <1> QED BY <1>1, Invariance, PTL

-----------------------------------------------------------------------------
(* The refinement of LossyCounters.                                        *)

(* Counts in memory and in the copy of a round wait.                       *)
Waiting == Plus(requestCounters, counters)

LEMMA WaitingType ==
    ASSUME TypeOK
    PROVE  \A s \in Sites : /\ requestCounters[s] \in Nat /\ counters[s] \in Nat
                            /\ request_count[s] \in Nat
                            /\ Waiting[s] = requestCounters[s] + counters[s]
  BY DEF TypeOK, Waiting, Plus

(* A request that is counted adds one to what waits.                       *)
LEMMA ServeRefines ==
    ASSUME TypeOK, NEW s \in Sites, ServeHTTP(s)
    PROVE  Lossy!Count(s)
  <1>1. request_count' = request_count
    BY DEF ServeHTTP
  <1>2. Waiting' = [Waiting EXCEPT ![s] = @ + 1]
    <2>1. \A q \in Sites : Waiting'[q] = Waiting[q] + IF q = s THEN 1 ELSE 0
      BY DEF TypeOK, Waiting, Plus, ServeHTTP
    <2>2. Waiting \in [Sites -> Nat] /\ Waiting' \in [Sites -> Nat]
      BY <2>1, WaitingType DEF Waiting, Plus
    <2> HIDE DEF Waiting
    <2> QED BY <2>1, <2>2
  <1> QED BY <1>1, <1>2 DEF Lossy!Count, Waiting

(* When a round ends its copy is empty: what waits is what is in memory.   *)
LEMMA EndTakes ==
    ASSUME TypeOK, NEW next, EndRound(next)
    PROVE  /\ Lossy!Take
           /\ \A s \in Sites : Waiting[s] - Waiting'[s] = counters[s]
  <1>1. \A s \in Sites : Waiting'[s] = requestCounters[s]
    BY WaitingType DEF TypeOK, EndRound, Waiting, Plus, Zero
  <1>2. Waiting' = [s \in Sites |-> Waiting'[s]]
    BY DEF Waiting, Plus
  <1>3. \A s \in Sites : Waiting'[s] \in 0 .. Waiting[s]
    BY <1>1, WaitingType
  <1>4. \A s \in Sites : Waiting[s] - Waiting'[s] = counters[s]
    BY <1>1, WaitingType
  <1> QED BY <1>2, <1>3, <1>4 DEF Lossy!Take, Waiting

LEMMA LossRefines ==
    ASSUME TypeOK, NEW next, RoundFails(next)
    PROVE  Lossy!Lose
  BY EndTakes DEF RoundFails, Lossy!Lose

LEMMA WriteRefines ==
    ASSUME TypeOK, EndRound("tick"), request_count' = Plus(request_count, counters)
    PROVE  Lossy!Write
  <1>1. \A s \in Sites : request_count'[s] = request_count[s] + Waiting[s] - Waiting'[s]
    <2> SUFFICES ASSUME NEW s \in Sites
        PROVE request_count'[s] = request_count[s] + Waiting[s] - Waiting'[s]
      OBVIOUS
    <2>1. Waiting[s] - Waiting'[s] = counters[s] /\ Waiting'[s] \in Nat
      BY EndTakes, WaitingType DEF Lossy!Take, Waiting
    <2>2. request_count'[s] = request_count[s] + counters[s]
      BY DEF Plus
    <2> QED BY <2>1, <2>2, WaitingType
  <1>2. request_count' = [s \in Sites |-> request_count[s] + Waiting[s] - Waiting'[s]]
    BY <1>1 DEF Plus
  <1> QED BY <1>2, EndTakes DEF Lossy!Write, Waiting

LEMMA StepRefines == IInv /\ [Next]_vars => [Lossy!Next]_(Lossy!vars)
  <1> SUFFICES ASSUME IInv, [Next]_vars PROVE [Lossy!Next]_(Lossy!vars)
    OBVIOUS
  <1> USE DEF IInv
  <1>1. ASSUME NEW s \in Sites, ServeHTTP(s) PROVE Lossy!Next
    BY <1>1, ServeRefines DEF Lossy!Next
  <1>2. CASE TakeCounters
    <2>1. \A s \in Sites : Waiting'[s] = Waiting[s]
      BY <1>2, WaitingType DEF TakeCounters, CopyOK, Waiting, Plus, Zero
    <2> QED BY <1>2, <2>1 DEF TakeCounters, Waiting, Plus, Lossy!vars
  <1>3. CASE TableExists \/ Begin \/ (\E s \in Sites : Update(s)) \/ UNCHANGED vars
    BY <1>3 DEF TableExists, Begin, Update, vars, Lossy!vars, Plus
  <1>4. CASE TableMissing \/ BeginFails \/ UpdateFails
    BY <1>4, LossRefines DEF TableMissing, BeginFails, UpdateFails, Lossy!Next
  <1>5. CASE Commit \/ CommitFails
    BY <1>5, LossRefines, WriteRefines DEF Commit, CommitFails, Lossy!Next
  <1> QED
    BY <1>1, <1>2, <1>3, <1>4, <1>5 DEF Next, Round

(* The counters are counters with losses: a count is written at most once, *)
(* and none that is written or lost comes back, for any sites and faults.  *)
THEOREM CountersAreLossy == Spec => ImplementsLossyCounters
  <1>1. Init => Lossy!Init
    BY DEF Init, Lossy!Init, Plus, Zero
  <1> QED BY <1>1, StepRefines, Invariance, PTL DEF Spec, ImplementsLossyCounters, Lossy!Spec
=============================================================================
