-------------------------- MODULE AuthTokensProofs --------------------------
(* A logged-out token is refused: proofs for every value of the constants. *)
EXTENDS AuthTokens, TLAPS

\* A request holds a token Login gave out, and each step is of its kind.
RequestOK ==
    \A r \in Requests :
        /\ pc[r] # "idle" => token[r] \in issued
        /\ pc[r] \in {"check", "store"} => kind[r] # "ui"
        /\ pc[r] = "readuser" => kind[r] = "ui"

\* The row of a logged-out token stays as long as the token would be valid.
RowKept == \A t \in loggedOut : t \in blacklist \/ now >= t.exp

\* A late request found no row only because its token had expired.
LateOK ==
    \A r \in Requests : late[r] =>
        /\ token[r] \in loggedOut
        /\ kind[r] # "ui" => /\ pc[r] = "parse" => now >= token[r].exp
                             /\ pc[r] \notin {"accepted", "store"}

IInv == TypeOK /\ RequestOK /\ RowKept /\ LateOK

-----------------------------------------------------------------------------
LEMMA InitIInv == Init => IInv
  <1> SUFFICES ASSUME Init PROVE IInv
    OBVIOUS
  <1> USE AuthAssumption DEF AuthAssumption, Init
  <1>1. token \in [Requests -> Token]
    <2>1. (CHOOSE u \in Users : TRUE) \in Users
      OBVIOUS
    <2>. DEFINE first == CHOOSE u \in Users : TRUE
    <2>2. [user |-> first, exp |-> 0] \in Token
      BY <2>1 DEF Token
    <2>3. token = [r \in Requests |-> [user |-> first, exp |-> 0]]
      OBVIOUS
    <2>. HIDE DEF first
    <2>. QED
      BY ONLY <2>2, <2>3
  <1>2. TypeOK
    <2>. HIDE DEF AuthAssumption
    <2>1. now \in 0..MaxTime
      BY DEF AuthAssumption
    <2>. QED
      BY <1>1, <2>1 DEF TypeOK
  <1>3. RequestOK /\ RowKept /\ LateOK
    BY DEF RequestOK, RowKept, LateOK
  <1>. QED
    BY <1>2, <1>3 DEF IInv

\* The steps that belong to no request.
LEMMA OthersKeepIInv ==
  ASSUME IInv,
         Tick \/ CleanupExpiredTokens \/ \E u \in Users : Register(u) \/ Login(u) \/ DeleteUser(u)
  PROVE  IInv'
  <1> USE AuthAssumption DEF AuthAssumption, IInv, TypeOK, session
  <1>1. CASE Tick
    <2> USE <1>1 DEF Tick
    <2>1. TypeOK'
      OBVIOUS
    <2>2. RequestOK'
      BY DEF RequestOK
    <2>3. now' = now + 1 /\ now \in Int
      OBVIOUS
    <2>4. \A t \in issued : t.exp \in Int /\ (now >= t.exp => now' >= t.exp)
      BY <2>3 DEF Token
    <2>5. RowKept'
      BY <2>4 DEF RowKept
    <2>6. LateOK'
      <3> SUFFICES ASSUME NEW r \in Requests, late[r],
                          kind[r] # "ui", pc[r] = "parse", now >= token[r].exp
                   PROVE  now' >= token[r].exp
        BY DEF LateOK
      <3>. QED
        BY <2>4 DEF RequestOK
    <2>. QED
      BY <2>1, <2>2, <2>5, <2>6
  <1>2. CASE CleanupExpiredTokens
    <2> USE <1>2 DEF CleanupExpiredTokens
    <2>1. TypeOK'
      OBVIOUS
    <2>2. RequestOK' /\ LateOK'
      BY DEF RequestOK, LateOK
    <2>3. \A t \in issued : ~(t.exp >= now) => now >= t.exp
      BY DEF Token
    <2>4. RowKept'
      BY <2>3 DEF RowKept
    <2>. QED
      BY <2>1, <2>2, <2>4
  <1>3. ASSUME NEW u \in Users, Login(u) PROVE IInv'
    <2> USE <1>3 DEF Login
    <2>1. NewToken(u) \in Token
      BY DEF NewToken, Token
    <2>2. TypeOK'
      BY <2>1
    <2>3. RequestOK' /\ RowKept' /\ LateOK'
      BY DEF RequestOK, RowKept, LateOK
    <2>. QED
      BY <2>2, <2>3
  <1>4. ASSUME NEW u \in Users, Register(u) \/ DeleteUser(u) PROVE IInv'
    <2> USE <1>4 DEF Register, DeleteUser
    <2>1. TypeOK'
      OBVIOUS
    <2>2. RequestOK' /\ RowKept' /\ LateOK'
      BY DEF RequestOK, RowKept, LateOK
    <2>. QED
      BY <2>1, <2>2
  <1>. QED
    BY <1>1, <1>2, <1>3, <1>4

LEMMA ArrivalKeepsIInv ==
  ASSUME IInv, NEW r \in Requests, NEW t \in issued, NEW k \in Kinds, Request(r, t, k)
  PROVE  IInv'
  <1> USE AuthAssumption DEF AuthAssumption, IInv, TypeOK, Request
  <1>1. TypeOK'
    OBVIOUS
  <1>2. RequestOK' /\ RowKept' /\ LateOK'
    BY DEF RequestOK, RowKept, LateOK
  <1>. QED
    BY <1>1, <1>2

LEMMA RequestsKeepIInv ==
  ASSUME IInv, NEW r \in Requests, RequestStep(r)
  PROVE  IInv'
  <1> USE AuthAssumption DEF AuthAssumption, IInv, TypeOK, Goto
  <1>1. CASE CheckBlacklist(r)
    <2> USE <1>1 DEF CheckBlacklist
    <2>1. TypeOK' /\ RequestOK' /\ RowKept'
      BY DEF RequestOK, RowKept
    <2>2. ASSUME late[r], pc'[r] = "parse" PROVE now >= token[r].exp
      <3>1. token[r] \in loggedOut /\ token[r] \in issued
        BY <2>2 DEF LateOK
      <3>2. token[r] \notin blacklist \/ ~(token[r].exp >= now)
        BY <2>2 DEF IsTokenBlacklisted
      <3>. QED
        BY <3>1, <3>2 DEF RowKept, Token
    <2>3. LateOK'
      BY <2>2 DEF LateOK
    <2>. QED
      BY <2>1, <2>3
  <1>2. CASE ParseToken(r)
    <2> USE <1>2 DEF ParseToken
    <2>1. TypeOK' /\ RequestOK' /\ RowKept'
      BY DEF RequestOK, RowKept
    <2>2. ASSUME late[r], kind[r] # "ui" PROVE pc'[r] = "idle"
      <3>1. now >= token[r].exp /\ token[r] \in issued
        BY <2>2 DEF LateOK
      <3>2. ~Valid(token[r])
        BY <3>1 DEF Valid, Token
      <3>. QED
        BY <3>2
    <2>3. LateOK'
      BY <2>2 DEF LateOK
    <2>. QED
      BY <2>1, <2>3
  <1>3. CASE ReadUser(r)
    BY <1>3 DEF ReadUser, RequestOK, RowKept, LateOK
  <1>4. CASE Answer(r)
    BY <1>4 DEF Answer, RequestOK, RowKept, LateOK
  <1>5. CASE Logout(r)
    <2> USE <1>5 DEF Logout
    <2>1. token[r] \in issued
      BY DEF RequestOK
    <2>2. TypeOK' /\ RequestOK' /\ LateOK'
      BY <2>1 DEF RequestOK, LateOK
    <2>3. ~Valid(token[r]) => now >= token[r].exp
      BY <2>1 DEF Valid, Token
    <2>4. RowKept'
      BY <2>3 DEF RowKept
    <2>. QED
      BY <2>2, <2>4
  <1>6. CASE BlacklistToken(r)
    <2> USE <1>6 DEF BlacklistToken
    <2>1. token[r] \in issued
      BY DEF RequestOK
    <2>2. TypeOK' /\ RequestOK' /\ RowKept' /\ LateOK'
      BY <2>1 DEF RequestOK, RowKept, LateOK
    <2>. QED
      BY <2>2
  <1>7. CASE InsertFails(r)
    BY <1>7 DEF InsertFails, RequestOK, RowKept, LateOK
  <1>8. CASE LookupFails(r)
    BY <1>8 DEF LookupFails, RequestOK, RowKept, LateOK
  <1>. QED
    BY <1>1, <1>2, <1>3, <1>4, <1>5, <1>6, <1>7, <1>8 DEF RequestStep

\* The invariant that makes the blacklist and the check of exp one promise.
THEOREM Invariance == Spec => []IInv
  <1>1. IInv /\ [Next]_vars => IInv'
    <2> SUFFICES ASSUME IInv, [Next]_vars PROVE IInv'
      OBVIOUS
    <2>1. CASE UNCHANGED vars
      BY <2>1 DEF vars, session, IInv, TypeOK, RequestOK, RowKept, LateOK
    <2>2. CASE Next
      BY <2>2, OthersKeepIInv, ArrivalKeepsIInv, RequestsKeepIInv DEF Next
    <2>. QED
      BY <2>1, <2>2
  <1>. QED
    BY InitIInv, <1>1, PTL DEF Spec

\* Every variable keeps its type, and the blacklist holds issued tokens only.
THEOREM TypeCorrect == Spec => []TypeOK
  <1>1. IInv => TypeOK
    BY DEF IInv
  <1>. QED
    BY Invariance, <1>1, PTL

\* After a Logout that was answered 200 the API accepts the token from no later
\* request, for any number of users, requests and ticks (see LookupFails).
THEOREM LoggedOutTokensRefused == Spec => []LoggedOutRefused
  <1>1. IInv => LoggedOutRefused
    BY DEF IInv, LateOK, LoggedOutRefused
  <1>. QED
    BY Invariance, <1>1, PTL
-----------------------------------------------------------------------------
(* The refinement: a step of a request changes what RevocableTokens sees   *)
(* of that request alone.                                                  *)

\* A token that Login gives out expires within the clock.
ClockOK == issued \subseteq [user : Users, exp : 0..MaxTime]

LEMMA ClockInvariance == Spec => []ClockOK
  <1>1. Init => ClockOK
    BY DEF Init, ClockOK
  <1>2. TypeOK /\ ClockOK /\ [Next]_vars => ClockOK'
    <2> SUFFICES ASSUME TypeOK, ClockOK, [Next]_vars PROVE ClockOK'
      OBVIOUS
    <2>1. ASSUME NEW u \in Users, Login(u) PROVE ClockOK'
      <3>1. NewToken(u) \in [user : Users, exp : 0..MaxTime]
        BY <2>1, AuthAssumption DEF AuthAssumption, TypeOK, Login, NewToken
      <3>. QED
        BY <2>1, <3>1 DEF ClockOK, Login
    <2>2. CASE UNCHANGED issued
      BY <2>2 DEF ClockOK
    <2>. QED
      BY <2>1, <2>2 DEF Next, vars, Tick, CleanupExpiredTokens, Register, DeleteUser, Request, RequestStep,
         CheckBlacklist, LookupFails, ParseToken, ReadUser, Answer, Logout, BlacklistToken, InsertFails
  <1>. QED
    BY TypeCorrect, <1>1, <1>2, PTL DEF Spec

LEMMA OneRequestChanges ==
  ASSUME NEW r \in Requests,
         \A q \in Requests \ {r} : /\ pc'[q] = pc[q] /\ kind'[q] = kind[q]
                                   /\ token'[q] = token[q] /\ late'[q] = late[q]
  PROVE  RequestStates' = [RequestStates EXCEPT ![r] = RevocationState(r)']
  <1>1. \A q \in Requests \ {r} : RevocationState(q)' = RevocationState(q)
    BY DEF RevocationState, Judged
  <1>. QED
    BY <1>1 DEF RequestStates

\* What is left to show of a step of request r: how its state changes.
LEMMA RequestRefines ==
  ASSUME IInv, ClockOK, NEW r \in Requests,
         \/ RequestStep(r)
         \/ \E t \in issued, k \in Kinds : Request(r, t, k)
  PROVE  [Revocation!Next]_(Revocation!vars)
  <1> DEFINE Before == RevocationState(r)
             After == RevocationState(r)'
  <1>1. RequestStates[r] = Before /\ RequestStates' = [RequestStates EXCEPT ![r] = After]
    <2>1. RequestStates[r] = Before
      BY DEF RequestStates
    <2>2. \A q \in Requests \ {r} : /\ pc'[q] = pc[q] /\ kind'[q] = kind[q]
                                    /\ token'[q] = token[q] /\ late'[q] = late[q]
      BY DEF IInv, TypeOK, RequestStep, Request, Goto, CheckBlacklist, LookupFails, ParseToken,
         ReadUser, Answer, Logout, BlacklistToken, InsertFails
    <2>. QED
      BY <2>1, <2>2, OneRequestChanges
  <1>2. UNCHANGED issued
    BY DEF RequestStep, Request, CheckBlacklist, LookupFails, ParseToken, ReadUser,
       Answer, Logout, BlacklistToken, InsertFails
  <1> DEFINE Stutters == After = Before /\ loggedOut' = loggedOut
             Finishes == Before.phase # "idle" /\ After = [phase |-> "idle"] /\ loggedOut' = loggedOut
             Revokes == /\ Before.phase = "served" /\ After = [phase |-> "idle"]
                        /\ loggedOut' = loggedOut \cup {Before.token}
  <1>3. Stutters => UNCHANGED Revocation!vars
    BY <1>1, <1>2 DEF Revocation!vars, RequestStates
  <1>4. Finishes => Revocation!Next
    BY <1>1, <1>2 DEF Revocation!Next, Revocation!Finish, Revocation!Become, Revocation!Idle
  <1>5. Revokes => Revocation!Next
    BY <1>1, <1>2 DEF Revocation!Next, Revocation!Revoke, Revocation!Become, Revocation!Idle
  <1> USE DEF RevocationState, Judged, Goto, IInv, TypeOK
  <1>6. ASSUME NEW t \in issued, NEW k \in Kinds, Request(r, t, k)
        PROVE  Revocation!Next \/ Stutters
    <2>1. CASE k = "ui"
      BY <1>6, <2>1 DEF Request
    <2>2. CASE k # "ui"
      <3>1. Before.phase = "idle" /\ After = Revocation!Pending(t, t \notin loggedOut)
        BY <1>6, <2>2 DEF Request, Revocation!Pending
      <3>2. t \in [user : Users, exp : 0..MaxTime] /\ loggedOut' = loggedOut
        BY <1>6 DEF ClockOK, Request
      <3>3. Revocation!Arrive(r, t)
        BY <1>1, <1>2, <3>1, <3>2 DEF Revocation!Arrive, Revocation!Become
      <3>. QED
        BY <3>2, <3>3 DEF Revocation!Next
    <2>. QED
      BY <2>1, <2>2
  <1>7. CASE CheckBlacklist(r)
    <2>1. kind[r] # "ui" /\ pc[r] = "check"
      BY <1>7 DEF CheckBlacklist, RequestOK
    <2>2. Stutters \/ Finishes
      BY <1>7, <2>1 DEF CheckBlacklist
    <2>. QED
      BY <1>3, <1>4, <2>2
  <1>8. CASE LookupFails(r)
    <2>1. kind[r] # "ui" /\ pc[r] = "check"
      BY <1>8 DEF LookupFails, RequestOK
    <2>2. Before.phase = "pending" /\ After = Revocation!Pending(Before.token, TRUE)
      BY <1>8, <2>1 DEF LookupFails, Revocation!Pending
    <2>3. loggedOut' = loggedOut
      BY <1>8 DEF LookupFails
    <2>. QED
      BY <1>1, <1>2, <2>2, <2>3 DEF Revocation!Next, Revocation!Waive, Revocation!Become
  <1>9. CASE ParseToken(r)
    <2>1. CASE kind[r] = "ui"
      BY <1>9, <2>1, <1>3 DEF ParseToken
    <2>2. CASE kind[r] # "ui" /\ pc'[r] = "idle"
      <3>1. Finishes
        BY <1>9, <2>2 DEF ParseToken
      <3>. QED
        BY <1>4, <3>1
    <2>3. CASE kind[r] # "ui" /\ pc'[r] = "accepted"
      <3>1. ~late[r]
        BY <1>9, <2>3, RequestsKeepIInv DEF RequestStep, ParseToken, LateOK
      <3>2. Before.phase = "pending" /\ Before.entitled /\ After = Revocation!Served(Before.token)
        BY <1>9, <2>3, <3>1 DEF ParseToken, Revocation!Served
      <3>3. loggedOut' = loggedOut
        BY <1>9 DEF ParseToken
      <3>. QED
        BY <1>1, <1>2, <3>2, <3>3 DEF Revocation!Next, Revocation!Serve, Revocation!Become
    <2>. QED
      BY <1>9, <2>1, <2>2, <2>3 DEF ParseToken
  <1>10. CASE ReadUser(r)
    <2>1. Stutters
      BY <1>10 DEF ReadUser, RequestOK
    <2>. QED
      BY <1>3, <2>1
  <1>11. CASE Answer(r)
    <2>1. Stutters \/ Finishes
      BY <1>11 DEF Answer
    <2>. QED
      BY <1>3, <1>4, <2>1
  <1>12. CASE Logout(r)
    <2>1. Stutters \/ Revokes
      BY <1>12 DEF Logout
    <2>. QED
      BY <1>3, <1>5, <2>1
  <1>13. CASE BlacklistToken(r)
    <2>1. Finishes \/ Revokes
      BY <1>13 DEF BlacklistToken, RequestOK
    <2>. QED
      BY <1>4, <1>5, <2>1
  <1>14. CASE InsertFails(r)
    <2>1. Finishes
      BY <1>14 DEF InsertFails, RequestOK
    <2>. QED
      BY <1>4, <2>1
  <1>. QED
    BY <1>3, <1>6, <1>7, <1>8, <1>9, <1>10, <1>11, <1>12, <1>13, <1>14 DEF RequestStep

\* The blacklist, its cleanup and the expiry of tokens implement a set of revoked
\* tokens from which nothing is removed (see RevocableTokens).
THEOREM TokensAreRevocable == Spec => ImplementsRevocation
  <1>1. Init => Revocation!Init
    BY DEF Init, Revocation!Init, RequestStates, RevocationState, Judged, Revocation!Idle
  <1>2. IInv /\ ClockOK /\ [Next]_vars => [Revocation!Next]_(Revocation!vars)
    <2> SUFFICES ASSUME IInv, ClockOK, [Next]_vars
                 PROVE  [Revocation!Next]_(Revocation!vars)
      OBVIOUS
    <2> USE DEF Revocation!vars, RequestStates, RevocationState, Judged, session
    <2>1. ASSUME NEW u \in Users, Login(u) PROVE Revocation!Next
      <3>1. NewToken(u) \in [user : Users, exp : 0..MaxTime]
        BY <2>1, AuthAssumption DEF AuthAssumption, IInv, TypeOK, Login, NewToken
      <3>. QED
        BY <2>1, <3>1 DEF Login, Revocation!Next, Revocation!Issue
    <2>2. ASSUME NEW u \in Users, Register(u) \/ DeleteUser(u) PROVE UNCHANGED Revocation!vars
      BY <2>2 DEF Register, DeleteUser
    <2>3. CASE Tick \/ CleanupExpiredTokens \/ UNCHANGED vars
      BY <2>3 DEF Tick, CleanupExpiredTokens, vars
    <2>. QED
      BY <2>1, <2>2, <2>3, RequestRefines DEF Next
  <1>. QED
    BY Invariance, ClockInvariance, <1>1, <1>2, PTL DEF Spec, ImplementsRevocation, Revocation!Spec
=============================================================================
