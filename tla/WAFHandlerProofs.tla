-------------------------- MODULE WAFHandlerProofs --------------------------
(* Proofs about WAFHandler, for any requests, keys, rules and times.       *)
EXTENDS WAFHandler, TLAPS

(* A request has no event until it is decided. *)
EventOK ==
    \A r \in Requests : pc[r] \notin {"idle", "close"} => event[r] = <<>>

(* A request that has passed a phase was not interrupted in it. *)
PhaseOK ==
    \A r \in Requests :
        /\ pc[r] \in {"body", "forward", "response"} => Verdict(r) # "headers"
        /\ pc[r] \in {"forward", "response"} => Verdict(r) \in Passing \cup {"response"}
        /\ pc[r] = "allow" => Verdict(r) \in Passing

(* A request in flight is at most MaxServe old, and rules that let it pass *)
(* were loaded when its instance was fetched.                              *)
BasisOK ==
    \A r \in InFlight :
        /\ fetched[r] <= now
        /\ now - fetched[r] <= MaxServe
        /\ Verdict(r) \in Passing => fetched[r] <= allowing[key[r]]

(* allowing is what its comment says. *)
AllowingOK ==
    \A k \in Keys :
        /\ allowing[k] <= now
        /\ Allows(policy, k) => allowing[k] = now

(* An entry is at most MaxServe younger than rules that justify it. *)
CacheOK == \A k \in cached : timestamp[k] <= allowing[k] + MaxServe

IInv ==
    /\ TypeOK /\ EventOK /\ EventMatchesAnswer /\ PhaseOK
    /\ InterruptedNotServed /\ BasisOK /\ AllowingOK /\ CacheOK

LEMMA InitInv == Init => IInv
  <1> SUFFICES ASSUME Init PROVE IInv
    OBVIOUS
  <1> USE HandlerAssumption
  <1>1. TypeOK
    BY DEF Init, TypeOK, Steps, Never
  <1>2. EventOK /\ EventMatchesAnswer /\ PhaseOK /\ InterruptedNotServed
    BY DEF Init, EventOK, EventMatchesAnswer, PhaseOK, InterruptedNotServed
  <1>3. BasisOK /\ CacheOK
    BY DEF Init, BasisOK, CacheOK, InFlight
  <1>4. AllowingOK
    BY DEF Init, AllowingOK, Never
  <1> QED BY <1>1, <1>2, <1>3, <1>4 DEF IInv

(* An instance gives each request one of the verdicts. *)
LEMMA VerdictType ==
    ASSUME TypeOK, NEW r \in Requests
    PROVE  Verdict(r) \in {"allowed", "headers", "body", "response"}
  <1>1. <<key[r], content[r]>> \in Keys \X Contents
    BY DEF TypeOK
  <1>2. inst[r] \in [Keys \X Contents -> Verdicts]
    BY DEF TypeOK, Policies
  <1>3. Verdict(r) \in Verdicts
    BY <1>1, <1>2 DEF Verdict
  <1> QED BY <1>3, HandlerAssumption

(* The first event of a request is its only one. *)
LEMMA FirstEvent ==
    ASSUME TypeOK, NEW r \in Requests, event[r] = <<>>,
           NEW a \in {"allowed", "blocked"}, LogWAFEvent(r, a)
    PROVE  event' = [event EXCEPT ![r] = <<a>>]
  <1>1. Append(<<>>, a) = <<a>>
    OBVIOUS
  <1> QED BY <1>1 DEF TypeOK, LogWAFEvent

(* Rules that let some request with a key through have let it through now. *)
LEMMA PolicyVerdict ==
    ASSUME TypeOK, NEW k \in Keys, NEW c \in Contents, policy[<<k, c>>] \in Passing
    PROVE  Allows(policy, k)
  BY DEF Allows

LEMMA StepPreserves == IInv /\ [Next]_vars => IInv'
  <1> SUFFICES ASSUME IInv, [Next]_vars PROVE IInv'
    OBVIOUS
  <1> USE HandlerAssumption DEF IInv
  <1>verdict. \A r \in Requests : Verdict(r) \in {"allowed", "headers", "body", "response"}
    BY VerdictType
  <1>1. ASSUME Tick PROVE IInv'
    <2>grows. \A k \in Keys : allowing[k] <= allowing'[k]
      BY <1>1 DEF TypeOK, AllowingOK, Tick
    <2>1. TypeOK'
      BY <1>1 DEF TypeOK, Steps, Tick, Goto, cache, rules, request, tx, answer
    <2>2. EventOK'
      BY <1>1 DEF TypeOK, EventOK, Tick, Goto, cache, rules, request, tx, answer
    <2>3. EventMatchesAnswer'
      BY <1>1 DEF TypeOK, EventOK, EventMatchesAnswer, Tick, Goto, cache, rules, request, tx, answer
    <2>4. PhaseOK'
      BY <1>1 DEF TypeOK, PhaseOK, Verdict, Tick, Goto, cache, rules, request, tx, answer
    <2>5. InterruptedNotServed'
      BY <1>1 DEF TypeOK, InterruptedNotServed, Verdict, Tick, Goto, cache, rules, request, tx,
         answer
    <2>6. BasisOK'
      <3> SUFFICES ASSUME NEW q \in InFlight'
                   PROVE  /\ fetched'[q] <= now'
                          /\ now' - fetched'[q] <= MaxServe
                          /\ Verdict(q)' \in Passing => fetched'[q] <= allowing'[key'[q]]
        BY DEF BasisOK
      <3>0. /\ q \in InFlight /\ Verdict(q)' = Verdict(q)
            /\ fetched' = fetched /\ key' = key /\ now' = now + 1
        BY <1>1 DEF Tick, InFlight, Verdict, request, tx
      <3>1. /\ fetched[q] <= now
            /\ now - fetched[q] < MaxServe
            /\ Verdict(q) \in Passing => fetched[q] <= allowing[key[q]]
        BY <1>1, <3>0 DEF Tick, BasisOK
      <3>2. /\ q \in Requests /\ key[q] \in Keys
            /\ now \in Int /\ fetched[q] \in Int
        BY <3>0 DEF InFlight, TypeOK
      <3>3. /\ allowing[key[q]] \in Int /\ allowing'[key[q]] \in Int
            /\ allowing[key[q]] <= allowing'[key[q]]
        BY <2>1, <2>grows, <3>2 DEF TypeOK
      <3> QED BY <3>0, <3>1, <3>2, <3>3
    <2>7. AllowingOK'
      BY <1>1 DEF TypeOK, AllowingOK, Tick, Goto, cache, rules, request, tx, answer
    <2>8. CacheOK'
      BY <1>1, <2>grows DEF TypeOK, CacheOK, Tick, Goto, cache, rules, request, tx, answer,
         AllowingOK
    <2> QED BY <2>1, <2>2, <2>3, <2>4, <2>5, <2>6, <2>7, <2>8
  <1>2. ASSUME NEW p \in Policies, ReloadRules(p) PROVE IInv'
    <2>grows. \A k \in Keys : allowing[k] <= allowing'[k]
      BY <1>2 DEF TypeOK, AllowingOK, ReloadRules
    <2>1. TypeOK'
      BY <1>2 DEF TypeOK, Steps, ReloadRules, Goto, cache, rules, request, tx, answer
    <2>2. EventOK'
      BY <1>2 DEF TypeOK, EventOK, ReloadRules, Goto, cache, rules, request, tx, answer
    <2>3. EventMatchesAnswer'
      BY <1>2 DEF TypeOK, EventOK, EventMatchesAnswer, ReloadRules, Goto, cache, rules, request,
         tx, answer
    <2>4. PhaseOK'
      BY <1>2 DEF TypeOK, PhaseOK, Verdict, ReloadRules, Goto, cache, rules, request, tx, answer
    <2>5. InterruptedNotServed'
      BY <1>2 DEF TypeOK, InterruptedNotServed, Verdict, ReloadRules, Goto, cache, rules,
         request, tx, answer
    <2>6. BasisOK'
      BY <1>2, <2>grows DEF TypeOK, BasisOK, InFlight, Verdict, ReloadRules, Goto, cache, rules,
         request, tx, answer, AllowingOK
    <2>7. AllowingOK'
      BY <1>2 DEF TypeOK, AllowingOK, ReloadRules, Goto, cache, rules, request, tx, answer
    <2>8. CacheOK'
      BY <1>2, <2>grows DEF TypeOK, CacheOK, ReloadRules, Goto, cache, rules, request, tx,
         answer, AllowingOK
    <2> QED BY <2>1, <2>2, <2>3, <2>4, <2>5, <2>6, <2>7, <2>8
  <1>3. ASSUME CleanCache PROVE IInv'
    <2>1. TypeOK'
      BY <1>3 DEF TypeOK, Steps, CleanCache, Goto, cache, rules, request, tx, answer
    <2>2. EventOK'
      BY <1>3 DEF TypeOK, EventOK, CleanCache, Goto, cache, rules, request, tx, answer
    <2>3. EventMatchesAnswer'
      BY <1>3 DEF TypeOK, EventOK, EventMatchesAnswer, CleanCache, Goto, cache, rules, request,
         tx, answer
    <2>4. PhaseOK'
      BY <1>3 DEF TypeOK, PhaseOK, Verdict, CleanCache, Goto, cache, rules, request, tx, answer
    <2>5. InterruptedNotServed'
      BY <1>3 DEF TypeOK, InterruptedNotServed, Verdict, CleanCache, Goto, cache, rules,
         request, tx, answer
    <2>6. BasisOK'
      BY <1>3 DEF TypeOK, BasisOK, InFlight, Verdict, CleanCache, Goto, cache, rules, request,
         tx, answer
    <2>7. AllowingOK'
      BY <1>3 DEF TypeOK, AllowingOK, CleanCache, Goto, cache, rules, request, tx, answer
    <2>8. CacheOK'
      BY <1>3 DEF TypeOK, CacheOK, CleanCache, Goto, cache, rules, request, tx, answer
    <2> QED BY <2>1, <2>2, <2>3, <2>4, <2>5, <2>6, <2>7, <2>8
  <1>4. ASSUME NEW r \in Requests, NEW k \in Keys, NEW c \in Contents, Arrive(r, k, c) PROVE IInv'
    <2>1. TypeOK'
      BY <1>4 DEF TypeOK, Steps, Arrive, Goto, cache, rules, request, tx, answer
    <2>2. EventOK'
      BY <1>4 DEF TypeOK, EventOK, Arrive, Goto, cache, rules, request, tx, answer
    <2>3. EventMatchesAnswer'
      BY <1>4 DEF TypeOK, EventOK, EventMatchesAnswer, Arrive, Goto, cache, rules, request, tx,
         answer
    <2>4. PhaseOK'
      BY <1>4 DEF TypeOK, PhaseOK, Verdict, Arrive, Goto, cache, rules, request, tx, answer
    <2>5. InterruptedNotServed'
      BY <1>4 DEF TypeOK, InterruptedNotServed, Verdict, Arrive, Goto, cache, rules, request,
         tx, answer
    <2>6. BasisOK'
      BY <1>4 DEF TypeOK, BasisOK, InFlight, Verdict, Arrive, Goto, cache, rules, request, tx,
         answer
    <2>7. AllowingOK'
      BY <1>4 DEF TypeOK, AllowingOK, Arrive, Goto, cache, rules, request, tx, answer
    <2>8. CacheOK'
      BY <1>4 DEF TypeOK, CacheOK, Arrive, Goto, cache, rules, request, tx, answer
    <2> QED BY <2>1, <2>2, <2>3, <2>4, <2>5, <2>6, <2>7, <2>8
  <1>5. ASSUME NEW r \in Requests, Hit(r) PROVE IInv'
    <2>1. TypeOK'
      BY <1>5 DEF TypeOK, Steps, Hit, Goto, cache, rules, request, tx, answer
    <2>2. EventOK'
      BY <1>5 DEF TypeOK, EventOK, Hit, Goto, cache, rules, request, tx, answer
    <2>3. EventMatchesAnswer'
      BY <1>5 DEF TypeOK, EventOK, EventMatchesAnswer, Hit, Goto, cache, rules, request, tx, answer
    <2>4. PhaseOK'
      BY <1>5 DEF TypeOK, PhaseOK, Verdict, Hit, Goto, cache, rules, request, tx, answer
    <2>5. InterruptedNotServed'
      BY <1>5 DEF TypeOK, InterruptedNotServed, Verdict, Hit, Goto, cache, rules, request, tx,
         answer
    <2>6. BasisOK'
      BY <1>5 DEF TypeOK, BasisOK, InFlight, Verdict, Hit, Goto, cache, rules, request, tx, answer
    <2>7. AllowingOK'
      BY <1>5 DEF TypeOK, AllowingOK, Hit, Goto, cache, rules, request, tx, answer
    <2>8. CacheOK'
      BY <1>5 DEF TypeOK, CacheOK, Hit, Goto, cache, rules, request, tx, answer
    <2> QED BY <2>1, <2>2, <2>3, <2>4, <2>5, <2>6, <2>7, <2>8
  <1>6. ASSUME NEW r \in Requests, Miss(r) PROVE IInv'
    <2>1. TypeOK'
      BY <1>6 DEF TypeOK, Steps, Miss, Goto, cache, rules, request, tx, answer
    <2>2. EventOK'
      BY <1>6 DEF TypeOK, EventOK, Miss, Goto, cache, rules, request, tx, answer
    <2>3. EventMatchesAnswer'
      BY <1>6 DEF TypeOK, EventOK, EventMatchesAnswer, Miss, Goto, cache, rules, request, tx, answer
    <2>4. PhaseOK'
      BY <1>6 DEF TypeOK, PhaseOK, Verdict, Miss, Goto, cache, rules, request, tx, answer
    <2>5. InterruptedNotServed'
      BY <1>6 DEF TypeOK, InterruptedNotServed, Verdict, Miss, Goto, cache, rules, request, tx,
         answer
    <2>6. BasisOK'
      BY <1>6 DEF TypeOK, BasisOK, InFlight, Verdict, Miss, Goto, cache, rules, request, tx, answer
    <2>7. AllowingOK'
      BY <1>6 DEF TypeOK, AllowingOK, Miss, Goto, cache, rules, request, tx, answer
    <2>8. CacheOK'
      BY <1>6 DEF TypeOK, CacheOK, Miss, Goto, cache, rules, request, tx, answer
    <2> QED BY <2>1, <2>2, <2>3, <2>4, <2>5, <2>6, <2>7, <2>8
  <1>7. ASSUME NEW r \in Requests, GetWAF(r) PROVE IInv'
    <2>now. policy[<<key[r], content[r]>>] \in Passing => allowing[key[r]] = now
      BY PolicyVerdict DEF TypeOK, AllowingOK
    <2>1. TypeOK'
      BY <1>7 DEF TypeOK, Steps, GetWAF, Goto, cache, rules, request, tx, answer
    <2>2. EventOK'
      BY <1>7 DEF TypeOK, EventOK, GetWAF, Goto, cache, rules, request, tx, answer
    <2>3. EventMatchesAnswer'
      BY <1>7 DEF TypeOK, EventOK, EventMatchesAnswer, GetWAF, Goto, cache, rules, request, tx,
         answer
    <2>4. PhaseOK'
      BY <1>7 DEF TypeOK, PhaseOK, Verdict, GetWAF, Goto, cache, rules, request, tx, answer
    <2>5. InterruptedNotServed'
      BY <1>7 DEF TypeOK, InterruptedNotServed, Verdict, GetWAF, Goto, cache, rules, request,
         tx, answer
    <2>6. BasisOK'
      <3> SUFFICES ASSUME NEW q \in InFlight'
                   PROVE  /\ fetched'[q] <= now
                          /\ now - fetched'[q] <= MaxServe
                          /\ Verdict(q)' \in Passing => fetched'[q] <= allowing[key[q]]
        BY <1>7 DEF GetWAF, BasisOK, rules, request
      <3>1. now \in Int
        BY DEF TypeOK
      <3>2. CASE q = r
        <4>1. fetched'[q] = now /\ Verdict(q)' = policy[<<key[r], content[r]>>]
          BY <1>7, <3>2 DEF GetWAF, TypeOK, Verdict, request
        <4> QED BY <2>now, <3>1, <3>2, <4>1
      <3>3. CASE q # r
        <4>1. q \in InFlight /\ fetched'[q] = fetched[q] /\ Verdict(q)' = Verdict(q)
          BY <1>7, <3>3 DEF GetWAF, TypeOK, Verdict, InFlight, Goto, request
        <4> QED BY <4>1 DEF BasisOK
      <3> QED BY <3>2, <3>3
    <2>7. AllowingOK'
      BY <1>7 DEF TypeOK, AllowingOK, GetWAF, Goto, cache, rules, request, tx, answer
    <2>8. CacheOK'
      BY <1>7 DEF TypeOK, CacheOK, GetWAF, Goto, cache, rules, request, tx, answer
    <2> QED BY <2>1, <2>2, <2>3, <2>4, <2>5, <2>6, <2>7, <2>8
  <1>8. ASSUME NEW r \in Requests, GetWAFFails(r) PROVE IInv'
    <2>1. TypeOK'
      BY <1>8 DEF TypeOK, Steps, GetWAFFails, Goto, cache, rules, request, tx, answer
    <2>2. EventOK'
      BY <1>8 DEF TypeOK, EventOK, GetWAFFails, Goto, cache, rules, request, tx, answer
    <2>3. EventMatchesAnswer'
      BY <1>8 DEF TypeOK, EventOK, EventMatchesAnswer, GetWAFFails, Goto, cache, rules, request,
         tx, answer
    <2>4. PhaseOK'
      BY <1>8 DEF TypeOK, PhaseOK, Verdict, GetWAFFails, Goto, cache, rules, request, tx, answer
    <2>5. InterruptedNotServed'
      BY <1>8 DEF TypeOK, InterruptedNotServed, Verdict, GetWAFFails, Goto, cache, rules,
         request, tx, answer
    <2>6. BasisOK'
      BY <1>8 DEF TypeOK, BasisOK, InFlight, Verdict, GetWAFFails, Goto, cache, rules, request,
         tx, answer
    <2>7. AllowingOK'
      BY <1>8 DEF TypeOK, AllowingOK, GetWAFFails, Goto, cache, rules, request, tx, answer
    <2>8. CacheOK'
      BY <1>8 DEF TypeOK, CacheOK, GetWAFFails, Goto, cache, rules, request, tx, answer
    <2> QED BY <2>1, <2>2, <2>3, <2>4, <2>5, <2>6, <2>7, <2>8
  <1>9. ASSUME NEW r \in Requests, ServeUninspected(r) PROVE IInv'
    <2>1. TypeOK'
      BY <1>9 DEF TypeOK, Steps, ServeUninspected, Goto, cache, rules, request, tx, answer
    <2>2. EventOK'
      BY <1>9 DEF TypeOK, EventOK, ServeUninspected, Goto, cache, rules, request, tx, answer
    <2>3. EventMatchesAnswer'
      BY <1>9 DEF TypeOK, EventOK, EventMatchesAnswer, ServeUninspected, Goto, cache, rules,
         request, tx, answer
    <2>4. PhaseOK'
      BY <1>9 DEF TypeOK, PhaseOK, Verdict, ServeUninspected, Goto, cache, rules, request, tx,
         answer
    <2>5. InterruptedNotServed'
      BY <1>9 DEF TypeOK, InterruptedNotServed, Verdict, ServeUninspected, Goto, cache, rules,
         request, tx, answer
    <2>6. BasisOK'
      BY <1>9 DEF TypeOK, BasisOK, InFlight, Verdict, ServeUninspected, Goto, cache, rules,
         request, tx, answer
    <2>7. AllowingOK'
      BY <1>9 DEF TypeOK, AllowingOK, ServeUninspected, Goto, cache, rules, request, tx, answer
    <2>8. CacheOK'
      BY <1>9 DEF TypeOK, CacheOK, ServeUninspected, Goto, cache, rules, request, tx, answer
    <2> QED BY <2>1, <2>2, <2>3, <2>4, <2>5, <2>6, <2>7, <2>8
  <1>10. ASSUME NEW r \in Requests, Forward(r) PROVE IInv'
    <2>1. TypeOK'
      BY <1>10 DEF TypeOK, Steps, Forward, Goto, cache, rules, request, tx, answer
    <2>2. EventOK'
      BY <1>10 DEF TypeOK, EventOK, Forward, Goto, cache, rules, request, tx, answer
    <2>3. EventMatchesAnswer'
      BY <1>10 DEF TypeOK, EventOK, EventMatchesAnswer, Forward, Goto, cache, rules, request,
         tx, answer
    <2>4. PhaseOK'
      BY <1>10 DEF TypeOK, PhaseOK, Verdict, Forward, Goto, cache, rules, request, tx, answer
    <2>5. InterruptedNotServed'
      BY <1>10 DEF TypeOK, InterruptedNotServed, Verdict, Forward, Goto, cache, rules, request,
         tx, answer, PhaseOK, Passing
    <2>6. BasisOK'
      BY <1>10 DEF TypeOK, BasisOK, InFlight, Verdict, Forward, Goto, cache, rules, request, tx,
         answer
    <2>7. AllowingOK'
      BY <1>10 DEF TypeOK, AllowingOK, Forward, Goto, cache, rules, request, tx, answer
    <2>8. CacheOK'
      BY <1>10 DEF TypeOK, CacheOK, Forward, Goto, cache, rules, request, tx, answer
    <2> QED BY <2>1, <2>2, <2>3, <2>4, <2>5, <2>6, <2>7, <2>8
  <1>11. ASSUME NEW r \in Requests, BlockResponse(r) PROVE IInv'
    <2>none. event[r] = <<>>
      BY <1>11 DEF EventOK, BlockResponse
    <2>event. event' = [event EXCEPT ![r] = <<"blocked">>]
      BY <1>11, <2>none, FirstEvent DEF BlockResponse
    <2>1. TypeOK'
      BY <1>11, <2>event DEF TypeOK, Steps, BlockResponse, Goto, cache, rules, request, tx, answer
    <2>2. EventOK'
      BY <1>11, <2>event DEF TypeOK, EventOK, BlockResponse, Goto, cache, rules, request, tx, answer
    <2>3. EventMatchesAnswer'
      BY <1>11, <2>event, <2>none DEF TypeOK, EventOK, EventMatchesAnswer, BlockResponse, Goto,
         cache, rules, request, tx, answer
    <2>4. PhaseOK'
      BY <1>11 DEF TypeOK, PhaseOK, Verdict, BlockResponse, Goto, cache, rules, request, tx, answer
    <2>5. InterruptedNotServed'
      BY <1>11 DEF TypeOK, InterruptedNotServed, Verdict, BlockResponse, Goto, cache, rules,
         request, tx, answer
    <2>6. BasisOK'
      BY <1>11 DEF TypeOK, BasisOK, InFlight, Verdict, BlockResponse, Goto, cache, rules,
         request, tx, answer
    <2>7. AllowingOK'
      BY <1>11 DEF TypeOK, AllowingOK, BlockResponse, Goto, cache, rules, request, tx, answer
    <2>8. CacheOK'
      BY <1>11 DEF TypeOK, CacheOK, BlockResponse, Goto, cache, rules, request, tx, answer
    <2> QED BY <2>1, <2>2, <2>3, <2>4, <2>5, <2>6, <2>7, <2>8
  <1>12. ASSUME NEW r \in Requests, CacheDecision(r) PROVE IInv'
    <2>1. TypeOK'
      BY <1>12 DEF TypeOK, Steps, CacheDecision, Goto, cache, rules, request, tx, answer
    <2>2. EventOK'
      BY <1>12 DEF TypeOK, EventOK, CacheDecision, Goto, cache, rules, request, tx, answer
    <2>3. EventMatchesAnswer'
      BY <1>12 DEF TypeOK, EventOK, EventMatchesAnswer, CacheDecision, Goto, cache, rules,
         request, tx, answer
    <2>same. \A q \in Requests : Verdict(q)' = Verdict(q)
      BY <1>12 DEF CacheDecision, Verdict, request, tx
    <2>pass. Verdict(r) \in Passing
      BY <1>12 DEF CacheDecision, PhaseOK
    <2>4. PhaseOK'
      BY <1>12, <2>same, <2>pass DEF PhaseOK, CacheDecision, Goto, TypeOK, Passing
    <2>5. InterruptedNotServed'
      BY <1>12 DEF TypeOK, InterruptedNotServed, Verdict, CacheDecision, Goto, cache, rules,
         request, tx, answer
    <2>6. BasisOK'
      BY <1>12 DEF TypeOK, BasisOK, InFlight, Verdict, CacheDecision, Goto, cache, rules,
         request, tx, answer
    <2>7. AllowingOK'
      BY <1>12 DEF TypeOK, AllowingOK, CacheDecision, Goto, cache, rules, request, tx, answer
    <2>8. CacheOK'
      <3>1. /\ fetched[r] <= now
            /\ now - fetched[r] <= MaxServe
            /\ fetched[r] <= allowing[key[r]]
        BY <1>12, <2>pass DEF CacheDecision, BasisOK, InFlight
      <3>2. now <= allowing[key[r]] + MaxServe
        BY <3>1 DEF TypeOK
      <3> QED BY <1>12, <3>2 DEF CacheOK, CacheDecision, TypeOK, rules
    <2> QED BY <2>1, <2>2, <2>3, <2>4, <2>5, <2>6, <2>7, <2>8
  <1>13. ASSUME NEW r \in Requests, Allow(r) PROVE IInv'
    <2>none. event[r] = <<>>
      BY <1>13 DEF EventOK, Allow
    <2>event. event' = [event EXCEPT ![r] = <<"allowed">>]
      BY <1>13, <2>none, FirstEvent DEF Allow
    <2>1. TypeOK'
      BY <1>13, <2>event DEF TypeOK, Steps, Allow, Goto, cache, rules, request, tx, answer
    <2>2. EventOK'
      BY <1>13, <2>event DEF TypeOK, EventOK, Allow, Goto, cache, rules, request, tx, answer
    <2>3. EventMatchesAnswer'
      BY <1>13, <2>event, <2>none DEF TypeOK, EventOK, EventMatchesAnswer, Allow, Goto, cache,
         rules, request, tx, answer
    <2>4. PhaseOK'
      BY <1>13 DEF TypeOK, PhaseOK, Verdict, Allow, Goto, cache, rules, request, tx, answer
    <2>5. InterruptedNotServed'
      BY <1>13 DEF TypeOK, InterruptedNotServed, Verdict, Allow, Goto, cache, rules, request,
         tx, answer, PhaseOK, Passing
    <2>6. BasisOK'
      BY <1>13 DEF TypeOK, BasisOK, InFlight, Verdict, Allow, Goto, cache, rules, request, tx,
         answer
    <2>7. AllowingOK'
      BY <1>13 DEF TypeOK, AllowingOK, Allow, Goto, cache, rules, request, tx, answer
    <2>8. CacheOK'
      BY <1>13 DEF TypeOK, CacheOK, Allow, Goto, cache, rules, request, tx, answer
    <2> QED BY <2>1, <2>2, <2>3, <2>4, <2>5, <2>6, <2>7, <2>8
  <1>14. ASSUME NEW r \in Requests, Close(r) PROVE IInv'
    <2>1. TypeOK'
      BY <1>14 DEF TypeOK, Steps, Close, Goto, cache, rules, request, tx, answer
    <2>2. EventOK'
      BY <1>14 DEF TypeOK, EventOK, Close, Goto, cache, rules, request, tx, answer
    <2>3. EventMatchesAnswer'
      BY <1>14 DEF TypeOK, EventOK, EventMatchesAnswer, Close, Goto, cache, rules, request, tx,
         answer
    <2>4. PhaseOK'
      BY <1>14 DEF TypeOK, PhaseOK, Verdict, Close, Goto, cache, rules, request, tx, answer
    <2>5. InterruptedNotServed'
      BY <1>14 DEF TypeOK, InterruptedNotServed, Verdict, Close, Goto, cache, rules, request,
         tx, answer
    <2>6. BasisOK'
      BY <1>14 DEF TypeOK, BasisOK, InFlight, Verdict, Close, Goto, cache, rules, request, tx,
         answer
    <2>7. AllowingOK'
      BY <1>14 DEF TypeOK, AllowingOK, Close, Goto, cache, rules, request, tx, answer
    <2>8. CacheOK'
      BY <1>14 DEF TypeOK, CacheOK, Close, Goto, cache, rules, request, tx, answer
    <2> QED BY <2>1, <2>2, <2>3, <2>4, <2>5, <2>6, <2>7, <2>8
  <1>15. ASSUME NEW r \in Requests, BlockRequest(r, "headers", "body") PROVE IInv'
    <2>none. event[r] = <<>>
      BY <1>15 DEF EventOK, BlockRequest
    <2>event. event' = [event EXCEPT ![r] = <<"blocked">>]
      BY <1>15, <2>none, FirstEvent DEF BlockRequest
    <2>1. TypeOK'
      BY <1>15, <2>event DEF TypeOK, Steps, BlockRequest, Goto, cache, rules, request, tx,
         answer, ServeWAFErrorPage
    <2>2. EventOK'
      BY <1>15, <2>event DEF TypeOK, EventOK, BlockRequest, Goto, cache, rules, request, tx,
         answer, ServeWAFErrorPage
    <2>3. EventMatchesAnswer'
      BY <1>15, <2>event, <2>none DEF TypeOK, EventOK, EventMatchesAnswer, BlockRequest, Goto,
         cache, rules, request, tx, answer, ServeWAFErrorPage
    <2>4. PhaseOK'
      BY <1>15 DEF TypeOK, PhaseOK, Verdict, BlockRequest, Goto, cache, rules, request, tx,
         answer, ServeWAFErrorPage
    <2>5. InterruptedNotServed'
      BY <1>15 DEF TypeOK, InterruptedNotServed, Verdict, BlockRequest, Goto, cache, rules,
         request, tx, answer, ServeWAFErrorPage
    <2>6. BasisOK'
      BY <1>15 DEF TypeOK, BasisOK, InFlight, Verdict, BlockRequest, Goto, cache, rules,
         request, tx, answer, ServeWAFErrorPage
    <2>7. AllowingOK'
      BY <1>15 DEF TypeOK, AllowingOK, BlockRequest, Goto, cache, rules, request, tx, answer,
         ServeWAFErrorPage
    <2>8. CacheOK'
      BY <1>15 DEF TypeOK, CacheOK, BlockRequest, Goto, cache, rules, request, tx, answer,
         ServeWAFErrorPage
    <2> QED BY <2>1, <2>2, <2>3, <2>4, <2>5, <2>6, <2>7, <2>8
  <1>16. ASSUME NEW r \in Requests, BlockRequest(r, "body", "forward") PROVE IInv'
    <2>none. event[r] = <<>>
      BY <1>16 DEF EventOK, BlockRequest
    <2>event. event' = [event EXCEPT ![r] = <<"blocked">>]
      BY <1>16, <2>none, FirstEvent DEF BlockRequest
    <2>1. TypeOK'
      BY <1>16, <2>event DEF TypeOK, Steps, BlockRequest, Goto, cache, rules, request, tx,
         answer, ServeWAFErrorPage
    <2>2. EventOK'
      BY <1>16, <2>event DEF TypeOK, EventOK, BlockRequest, Goto, cache, rules, request, tx,
         answer, ServeWAFErrorPage
    <2>3. EventMatchesAnswer'
      BY <1>16, <2>event, <2>none DEF TypeOK, EventOK, EventMatchesAnswer, BlockRequest, Goto,
         cache, rules, request, tx, answer, ServeWAFErrorPage
    <2>4. PhaseOK'
      BY <1>16 DEF TypeOK, PhaseOK, Verdict, BlockRequest, Goto, cache, rules, request, tx,
         answer, ServeWAFErrorPage
    <2>5. InterruptedNotServed'
      BY <1>16 DEF TypeOK, InterruptedNotServed, Verdict, BlockRequest, Goto, cache, rules,
         request, tx, answer, ServeWAFErrorPage
    <2>6. BasisOK'
      BY <1>16 DEF TypeOK, BasisOK, InFlight, Verdict, BlockRequest, Goto, cache, rules,
         request, tx, answer, ServeWAFErrorPage
    <2>7. AllowingOK'
      BY <1>16 DEF TypeOK, AllowingOK, BlockRequest, Goto, cache, rules, request, tx, answer,
         ServeWAFErrorPage
    <2>8. CacheOK'
      BY <1>16 DEF TypeOK, CacheOK, BlockRequest, Goto, cache, rules, request, tx, answer,
         ServeWAFErrorPage
    <2> QED BY <2>1, <2>2, <2>3, <2>4, <2>5, <2>6, <2>7, <2>8
  <1>17. ASSUME NEW r \in Requests, PassRequest(r, "headers", "body") PROVE IInv'
    <2>1. TypeOK'
      BY <1>17 DEF TypeOK, Steps, PassRequest, Goto, cache, rules, request, tx, answer
    <2>2. EventOK'
      BY <1>17 DEF TypeOK, EventOK, PassRequest, Goto, cache, rules, request, tx, answer
    <2>3. EventMatchesAnswer'
      BY <1>17 DEF TypeOK, EventOK, EventMatchesAnswer, PassRequest, Goto, cache, rules,
         request, tx, answer
    <2>4. PhaseOK'
      BY <1>17, <1>verdict DEF TypeOK, PhaseOK, Verdict, PassRequest, Goto, cache, rules,
         request, tx, answer, Passing
    <2>5. InterruptedNotServed'
      BY <1>17 DEF TypeOK, InterruptedNotServed, Verdict, PassRequest, Goto, cache, rules,
         request, tx, answer, PhaseOK, Passing
    <2>6. BasisOK'
      BY <1>17 DEF TypeOK, BasisOK, InFlight, Verdict, PassRequest, Goto, cache, rules, request,
         tx, answer
    <2>7. AllowingOK'
      BY <1>17 DEF TypeOK, AllowingOK, PassRequest, Goto, cache, rules, request, tx, answer
    <2>8. CacheOK'
      BY <1>17 DEF TypeOK, CacheOK, PassRequest, Goto, cache, rules, request, tx, answer
    <2> QED BY <2>1, <2>2, <2>3, <2>4, <2>5, <2>6, <2>7, <2>8
  <1>18. ASSUME NEW r \in Requests, PassRequest(r, "body", "forward") PROVE IInv'
    <2>1. TypeOK'
      BY <1>18 DEF TypeOK, Steps, PassRequest, Goto, cache, rules, request, tx, answer
    <2>2. EventOK'
      BY <1>18 DEF TypeOK, EventOK, PassRequest, Goto, cache, rules, request, tx, answer
    <2>3. EventMatchesAnswer'
      BY <1>18 DEF TypeOK, EventOK, EventMatchesAnswer, PassRequest, Goto, cache, rules,
         request, tx, answer
    <2>same. \A q \in Requests : Verdict(q)' = Verdict(q)
      BY <1>18 DEF PassRequest, Verdict, request, tx
    <2>pass. Verdict(r) \in Passing \cup {"response"}
      <3>1. Verdict(r) \in {"allowed", "body", "response"}
        BY <1>18, <1>verdict DEF PassRequest, PhaseOK
      <3>2. Verdict(r) = "body" => "body" \in Faults
        BY <1>18 DEF PassRequest
      <3> QED BY <3>1, <3>2 DEF Passing
    <2>4. PhaseOK'
      BY <1>18, <2>same, <2>pass DEF PhaseOK, PassRequest, Goto, TypeOK
    <2>5. InterruptedNotServed'
      BY <1>18 DEF TypeOK, InterruptedNotServed, Verdict, PassRequest, Goto, cache, rules,
         request, tx, answer, PhaseOK, Passing
    <2>6. BasisOK'
      BY <1>18 DEF TypeOK, BasisOK, InFlight, Verdict, PassRequest, Goto, cache, rules, request,
         tx, answer
    <2>7. AllowingOK'
      BY <1>18 DEF TypeOK, AllowingOK, PassRequest, Goto, cache, rules, request, tx, answer
    <2>8. CacheOK'
      BY <1>18 DEF TypeOK, CacheOK, PassRequest, Goto, cache, rules, request, tx, answer
    <2> QED BY <2>1, <2>2, <2>3, <2>4, <2>5, <2>6, <2>7, <2>8
  <1>20. ASSUME NEW r \in Requests, ForwardBreaksOff(r) PROVE IInv'
    <2>1. TypeOK'
      BY <1>20 DEF TypeOK, Steps, ForwardBreaksOff, Goto, cache, rules, request, tx, answer
    <2>2. EventOK'
      BY <1>20 DEF TypeOK, EventOK, ForwardBreaksOff, Goto, cache, rules, request, tx, answer
    <2>3. EventMatchesAnswer'
      BY <1>20 DEF TypeOK, EventOK, EventMatchesAnswer, ForwardBreaksOff, Goto, cache, rules,
         request, tx, answer
    <2>4. PhaseOK'
      BY <1>20 DEF TypeOK, PhaseOK, Verdict, ForwardBreaksOff, Goto, cache, rules, request, tx,
         answer
    <2>5. InterruptedNotServed'
      BY <1>20 DEF TypeOK, InterruptedNotServed, Verdict, ForwardBreaksOff, Goto, cache, rules,
         request, tx, answer
    <2>6. BasisOK'
      BY <1>20 DEF TypeOK, BasisOK, InFlight, Verdict, ForwardBreaksOff, Goto, cache, rules,
         request, tx, answer
    <2>7. AllowingOK'
      BY <1>20 DEF TypeOK, AllowingOK, ForwardBreaksOff, Goto, cache, rules, request, tx, answer
    <2>8. CacheOK'
      BY <1>20 DEF TypeOK, CacheOK, ForwardBreaksOff, Goto, cache, rules, request, tx, answer
    <2> QED BY <2>1, <2>2, <2>3, <2>4, <2>5, <2>6, <2>7, <2>8
  <1>19. CASE UNCHANGED vars
    BY <1>19 DEF TypeOK, EventOK, EventMatchesAnswer, PhaseOK, InterruptedNotServed, BasisOK,
              AllowingOK, CacheOK, InFlight, Verdict, vars, cache, rules, request, tx, answer
  <1> QED BY <1>1, <1>2, <1>3, <1>4, <1>5, <1>6, <1>7, <1>8, <1>9, <1>10, <1>11, <1>12, <1>13, <1>14, <1>15, <1>16, <1>17, <1>18, <1>19, <1>20 DEF Next, Serve, Phase

(* The type invariant and the rest of IInv hold of every behaviour. *)
THEOREM Invariance == Spec => []IInv
  BY InitInv, StepPreserves, PTL DEF Spec

(* Every variable keeps its type; in particular no request of the proxy    *)
(* is ever logged twice.                                                   *)
THEOREM TypeCorrect == Spec => []TypeOK
  <1>1. IInv => TypeOK
    BY DEF IInv
  <1> QED BY <1>1, Invariance, PTL

(* The event of a request says who answered it. *)
THEOREM EventsMatchAnswers == Spec => []EventMatchesAnswer
  <1>1. IInv => EventMatchesAnswer
    BY DEF IInv
  <1> QED BY <1>1, Invariance, PTL

(* A request interrupted before it is forwarded gets the WAF's page only. *)
THEOREM InterruptedAreNotServed == Spec => []InterruptedNotServed
  <1>1. IInv => InterruptedNotServed
    BY DEF IInv
  <1> QED BY <1>1, Invariance, PTL

(* A change of the rules reaches every request within TTL + MaxServe, for  *)
(* any number of concurrent requests: an entry is dated no later than      *)
(* MaxServe after rules that allowed it, and a hit does not renew it.      *)
THEOREM RuleChangesTakeEffect == Spec => RulesTakeEffect
  <1>1. ASSUME IInv, [Next]_vars, NEW r \in Requests, pc[r] = "lookup", pc'[r] = "skip"
        PROVE  now - allowing[key[r]] < TTL + MaxServe
    <2>1. Hit(r)
      BY <1>1 DEF IInv, TypeOK, Next, Serve, Phase, vars, Goto, Tick, ReloadRules,
         CleanCache, cache, rules, request, tx, answer, Arrive, Hit, Miss, GetWAF, GetWAFFails,
         ServeUninspected, BlockRequest, PassRequest, Forward, ForwardBreaksOff, BlockResponse,
         CacheDecision, Allow, Close
    <2>2. key[r] \in cached /\ now - timestamp[key[r]] < TTL
      BY <2>1 DEF Hit, Fresh
    <2>3. timestamp[key[r]] <= allowing[key[r]] + MaxServe
      BY <1>1, <2>2 DEF IInv, CacheOK
    <2>4. /\ now \in Int /\ timestamp[key[r]] \in Int /\ allowing[key[r]] \in Int
          /\ TTL \in Int /\ MaxServe \in Int
      BY <1>1, HandlerAssumption DEF IInv, TypeOK
    <2> QED BY <2>2, <2>3, <2>4
  <1>2. IInv /\ [Next]_vars =>
            [\A r \in Requests : pc[r] = "lookup" /\ pc'[r] = "skip" =>
                 now - allowing[key[r]] < TTL + MaxServe]_vars
    BY <1>1
  <1> QED BY <1>2, Invariance, PTL DEF Spec, RulesTakeEffect
=============================================================================
