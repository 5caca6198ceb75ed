----------------------------- MODULE AuthTokens -----------------------------
(***************************************************************************)
(* The life of a JWT: Login issues it, JWTMiddleware and GetUserFromJWT    *)
(* accept it, Logout puts it into the blacklisted_tokens table and         *)
(* CleanupExpiredTokens takes it out (controllers/auth.go,                 *)
(* middleware/auth_middleware.go, models/token.go,                         *)
(* controllers/ui_controller.go, main.go).                                 *)
(*                                                                         *)
(* A token is its claims: the user and exp, in whole seconds.  (Two logins *)
(* of a user in the same second give the same string.)  Time passes        *)
(* between any two statements of a request.                                *)
(***************************************************************************)
EXTENDS Integers

CONSTANTS
    Users,
    Requests,   \* goroutines of the API's HTTP server
    Kinds,      \* what they serve: "api", "logout", "ui"
    Lifetime,   \* 24 hours
    MaxTime,    \* bound on the clock
    Faults      \* the operations that may fail

ASSUME AuthAssumption ==
    /\ Users # {}
    /\ Lifetime \in Nat \ {0}
    /\ MaxTime \in Nat
    /\ Kinds \subseteq {"api", "logout", "ui"}
    /\ Faults \subseteq {"insert", "query"}

VARIABLES
    now,
    users,      \* per user id: "new" before it has a row, "stored", "deleted"
    issued,     \* the tokens Login has given out
    blacklist,  \* the blacklisted_tokens table
    loggedOut,  \* history: the tokens whose Logout has answered 200
    pc, kind, token,
    late        \* history: the token was logged out when the request came (and the
                \* look-up of it did not fail)

session == <<pc, kind, token, late>>
vars == <<now, users, issued, blacklist, loggedOut, session>>

Token == [user : Users, exp : Nat]
NewToken(u) == [user |-> u, exp |-> now + Lifetime]
IsTokenBlacklisted(t) == t \in blacklist /\ t.exp >= now
Valid(t) == now < t.exp

Init ==
    /\ now = 0
    /\ users \in [Users -> {"new", "stored"}]
    /\ issued = {}
    /\ blacklist = {}
    /\ loggedOut = {}
    /\ pc = [r \in Requests |-> "idle"]
    /\ kind = [r \in Requests |-> "api"]
    /\ token = [r \in Requests |-> [user |-> CHOOSE u \in Users : TRUE, exp |-> 0]]
    /\ late = [r \in Requests |-> FALSE]

Goto(r, step) == pc' = [pc EXCEPT ![r] = step] /\ UNCHANGED <<kind, token, late>>

-----------------------------------------------------------------------------
Tick ==
    /\ now < MaxTime
    /\ now' = now + 1
    /\ UNCHANGED <<users, issued, blacklist, loggedOut, session>>

\* Tokens that expire after the end of the clock are not looked at (a bound).
Login(u) ==
    /\ users[u] = "stored"
    /\ now + Lifetime < MaxTime
    /\ issued' = issued \cup {NewToken(u)}
    /\ UNCHANGED <<now, users, blacklist, loggedOut, session>>

\* Register: an id is given once, also after its row is gone.
Register(u) ==
    /\ users[u] = "new"
    /\ users' = [users EXCEPT ![u] = "stored"]
    /\ UNCHANGED <<now, issued, blacklist, loggedOut, session>>

\* No row is no error; the tokens of the user stay what they are.
DeleteUser(u) ==
    /\ users' = [users EXCEPT ![u] = IF @ = "stored" THEN "deleted" ELSE @]
    /\ UNCHANGED <<now, issued, blacklist, loggedOut, session>>

\* Mutation: rows go by age instead of expiry.
CleanupOldTokens ==
    /\ blacklist' = {t \in blacklist : t.exp > now + 1}
    /\ UNCHANGED <<now, users, issued, loggedOut, session>>

\* Mutation: the cleanup runs at startup only.
CleanupAtStartup ==
    /\ now = 0
    /\ blacklist' = {t \in blacklist : t.exp >= now}
    /\ UNCHANGED <<now, users, issued, loggedOut, session>>

\* DELETE ... WHERE expires_at < now, every six hours.
CleanupExpiredTokens ==
    /\ blacklist' = {t \in blacklist : t.exp >= now}
    /\ UNCHANGED <<now, users, issued, loggedOut, session>>

-----------------------------------------------------------------------------
(* A request with a token: JWTMiddleware for /api/, GetUserFromJWT for pages. *)

Request(r, t, k) ==
    /\ pc[r] = "idle"
    /\ kind' = [kind EXCEPT ![r] = k]
    /\ token' = [token EXCEPT ![r] = t]
    /\ late' = [late EXCEPT ![r] = t \in loggedOut]
    /\ pc' = [pc EXCEPT ![r] = IF k = "ui" THEN "parse" ELSE "check"]
    /\ UNCHANGED <<now, users, issued, blacklist, loggedOut>>

CheckBlacklist(r) ==
    /\ pc[r] = "check"
    /\ Goto(r, IF IsTokenBlacklisted(token[r]) THEN "idle" ELSE "parse")
    /\ UNCHANGED <<now, users, issued, blacklist, loggedOut>>

\* Exist() says false of a query that fails too: the request is not refused, and
\* the properties below do not speak of it.
LookupFails(r) ==
    /\ "query" \in Faults
    /\ pc[r] = "check"
    /\ late' = [late EXCEPT ![r] = FALSE]
    /\ pc' = [pc EXCEPT ![r] = "parse"]
    /\ UNCHANGED <<now, users, issued, blacklist, loggedOut, kind, token>>

\* Mutation: the expiry of the claims is not looked at.
ParseTokenIgnoresExpiry(r) ==
    /\ pc[r] = "parse"
    /\ Goto(r, IF kind[r] = "ui" THEN "readuser" ELSE "accepted")
    /\ UNCHANGED <<now, users, issued, blacklist, loggedOut>>

\* jwt.Parse; a page then reads the row of the user.
ParseToken(r) ==
    /\ pc[r] = "parse"
    /\ Goto(r, IF ~Valid(token[r]) THEN "idle"
               ELSE IF kind[r] = "ui" THEN "readuser" ELSE "accepted")
    /\ UNCHANGED <<now, users, issued, blacklist, loggedOut>>

ReadUser(r) ==
    /\ pc[r] = "readuser"
    /\ Goto(r, IF users[token[r].user] = "stored" THEN "accepted" ELSE "idle")
    /\ UNCHANGED <<now, users, issued, blacklist, loggedOut>>

\* The handler or the page answers.
Answer(r) ==
    /\ pc[r] = "accepted"
    /\ kind[r] # "logout"
    /\ Goto(r, "idle")
    /\ UNCHANGED <<now, users, issued, blacklist, loggedOut>>

\* Logout parses the token again; one that is no longer valid is not stored, and
\* the answer is 200 all the same.
Logout(r) ==
    /\ pc[r] = "accepted"
    /\ kind[r] = "logout"
    /\ IF Valid(token[r])
       THEN Goto(r, "store") /\ UNCHANGED loggedOut
       ELSE Goto(r, "idle") /\ loggedOut' = loggedOut \cup {token[r]}
    /\ UNCHANGED <<now, users, issued, blacklist>>

\* Mutation: the row expires a lifetime after the logout.
BlacklistTokenFromNow(r) ==
    /\ pc[r] = "store"
    /\ blacklist' = blacklist \cup {[token[r] EXCEPT !.exp = now + Lifetime]}
    /\ loggedOut' = loggedOut \cup {token[r]}
    /\ Goto(r, "idle")
    /\ UNCHANGED <<now, users, issued>>

\* token_hash is unique: of two logouts with one token the second answers 500.
BlacklistToken(r) ==
    /\ pc[r] = "store"
    /\ IF token[r] \in blacklist
       THEN UNCHANGED <<blacklist, loggedOut>>
       ELSE /\ blacklist' = blacklist \cup {token[r]}
            /\ loggedOut' = loggedOut \cup {token[r]}
    /\ Goto(r, "idle")
    /\ UNCHANGED <<now, users, issued>>

\* The INSERT fails, and Logout answers 500.
InsertFails(r) ==
    /\ "insert" \in Faults
    /\ pc[r] = "store"
    /\ Goto(r, "idle")
    /\ UNCHANGED <<now, users, issued, blacklist, loggedOut>>

-----------------------------------------------------------------------------
RequestStep(r) ==
    \/ CheckBlacklist(r) \/ LookupFails(r)
    \/ ParseToken(r) \/ ReadUser(r) \/ Answer(r)
    \/ Logout(r) \/ BlacklistToken(r) \/ InsertFails(r)

Next ==
    \/ Tick
    \/ CleanupExpiredTokens
    \/ \E u \in Users : Register(u) \/ Login(u) \/ DeleteUser(u)
    \/ \E r \in Requests :
        \/ \E t \in issued, k \in Kinds : Request(r, t, k)
        \/ RequestStep(r)

Spec == Init /\ [][Next]_vars

\* Time passes, and the cleanup's ticker fires for as long as the program runs.
FairSpec == Spec /\ WF_vars(Tick) /\ WF_vars(CleanupExpiredTokens)

-----------------------------------------------------------------------------
(* Properties.                                                             *)

\* The values the variables take; the rows of the blacklist are tokens Login gave
\* out, each with its own exp.
TypeOK ==
    /\ now \in 0..MaxTime
    /\ users \in [Users -> {"new", "stored", "deleted"}]
    /\ issued \subseteq Token
    /\ blacklist \subseteq issued
    /\ loggedOut \subseteq issued
    /\ pc \in [Requests -> {"idle", "check", "parse", "readuser", "accepted", "store"}]
    /\ kind \in [Requests -> {"api", "logout", "ui"}]
    /\ token \in [Requests -> Token]
    /\ late \in [Requests -> BOOLEAN]

\* A token whose Logout was answered 200 opens the API to no request that comes
\* later, whatever the cleanup removes and however long the request takes
\* between the check of the blacklist and the check of exp, as long as the
\* database answers that check.
LoggedOutRefused ==
    \A r \in Requests : pc[r] = "accepted" /\ kind[r] # "ui" => ~late[r]

\* The table of hashes, its cleanup and the expiry of tokens together are a plain
\* set of revoked tokens from which nothing is ever removed: every step of the API
\* is a step of RevocableTokens or changes nothing there.  Requests of pages do
\* not take part.
Judged(r) == kind[r] # "ui" /\ pc[r] # "idle"
RevocationState(r) ==
    IF ~Judged(r) THEN [phase |-> "idle"]
    ELSE IF pc[r] \in {"check", "parse"}
    THEN [phase |-> "pending", token |-> token[r], entitled |-> ~late[r]]
    ELSE [phase |-> "served", token |-> token[r]]

RequestStates == [r \in Requests |-> RevocationState(r)]

Revocation == INSTANCE RevocableTokens WITH
    Tokens <- [user : Users, exp : 0..MaxTime],
    revoked <- loggedOut,
    request <- RequestStates

ImplementsRevocation == Revocation!Spec

\* The blacklist does not grow for ever: every row of it is removed.
BlacklistCleaned ==
    \A t \in [user : Users, exp : 0..MaxTime] : t \in blacklist ~> t \notin blacklist
=============================================================================
