--------------------------- MODULE RevocableTokens ---------------------------
(***************************************************************************)
(* What logging out promises, without tables, clocks and cleanups: tokens  *)
(* are issued, a request that was served with a token may revoke it, and   *)
(* a request is served only with a token that nobody had revoked when the  *)
(* request came.  AuthTokens shows that blacklisted_tokens implements it.  *)
(***************************************************************************)
CONSTANTS Tokens, Requests

VARIABLES
    issued,   \* the tokens given out
    revoked,  \* the tokens whose logout has succeeded
    request   \* per request: its phase, its token, whether it may be served

vars == <<issued, revoked, request>>

Idle == [phase |-> "idle"]
Pending(t, entitled) == [phase |-> "pending", token |-> t, entitled |-> entitled]
Served(t) == [phase |-> "served", token |-> t]

Init ==
    /\ issued = {}
    /\ revoked = {}
    /\ request = [r \in Requests |-> Idle]

Issue(t) ==
    /\ issued' = issued \cup {t}
    /\ UNCHANGED <<revoked, request>>

Become(r, state) == request' = [request EXCEPT ![r] = state]

Arrive(r, t) ==
    /\ request[r].phase = "idle"
    /\ t \in issued
    /\ Become(r, Pending(t, t \notin revoked))
    /\ UNCHANGED <<issued, revoked>>

\* Nothing is promised about a request while the store of revoked tokens does
\* not answer.
Waive(r) ==
    /\ request[r].phase = "pending"
    /\ Become(r, Pending(request[r].token, TRUE))
    /\ UNCHANGED <<issued, revoked>>

Serve(r) ==
    /\ request[r].phase = "pending"
    /\ request[r].entitled
    /\ Become(r, Served(request[r].token))
    /\ UNCHANGED <<issued, revoked>>

\* A served request is a logout, and it succeeds.
Revoke(r) ==
    /\ request[r].phase = "served"
    /\ revoked' = revoked \cup {request[r].token}
    /\ Become(r, Idle)
    /\ UNCHANGED issued

\* The request is answered: refused, or served without a logout that succeeds.
Finish(r) ==
    /\ request[r].phase # "idle"
    /\ Become(r, Idle)
    /\ UNCHANGED <<issued, revoked>>

Next ==
    \/ \E t \in Tokens : Issue(t)
    \/ \E r \in Requests :
        \/ \E t \in Tokens : Arrive(r, t)
        \/ Waive(r) \/ Serve(r) \/ Revoke(r) \/ Finish(r)

Spec == Init /\ [][Next]_vars
=============================================================================
