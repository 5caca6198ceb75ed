----------------------------- MODULE WAFHandler -----------------------------
(***************************************************************************)
(* The handler that the proxy puts in front of the backend of a site with  *)
(* the WAF on: WAFManager.WAFHandler of proxy/waf.go, as ServeHTTP of      *)
(* proxy/proxy.go calls it, with the cache wafDecisionCache.               *)
(*                                                                         *)
(* A request is its cache key (method, path, query and client address) and *)
(* its content, which is everything else that the rules may look at.  A    *)
(* WAF instance, for one site, is the verdict it gives on each request:    *)
(* the phase in which it interrupts the transaction, or "allowed".         *)
(* WAFManager says which instance GetWAF returns.                          *)
(***************************************************************************)
EXTENDS Integers, Sequences

CONSTANTS
    Requests,  \* goroutines of the proxy's HTTP server
    Keys,
    Contents,
    Verdicts,  \* the verdicts that the rules in play may give
    TTL,       \* wafCacheTTL, 5 minutes
    MaxServe,  \* bound on the time from GetWAF to the end of the answer
    MaxTime,   \* bound on the clock
    Faults     \* "waf": GetWAF fails; "body": the body is not read;
               \* "backend": the backend's answer breaks off

ASSUME HandlerAssumption ==
    /\ Verdicts \subseteq {"allowed", "headers", "body", "response"}
    /\ TTL \in Nat \ {0}
    /\ MaxServe \in Nat
    /\ MaxTime \in Nat
    /\ Faults \subseteq {"waf", "body", "backend"}

VARIABLES
    now,
    policy,     \* the site's instance in wafInstances
    allowing,   \* history: for each key, when the loaded rules last allowed
                \* a request with that key, negative if they never did
    cached,     \* the keys of wafDecisionCache
    timestamp,  \* their timestamps
    pc, key, content,
    inst,       \* the instance of the request's transaction
    fetched,    \* when GetWAF returned it
    event,      \* the events LogWAFEvent was given for the request
    status,     \* whose status line the client has
    body        \* whose body

cache   == <<cached, timestamp>>
rules   == <<policy, allowing>>
request == <<key, content>>
tx      == <<inst, fetched>>
answer  == <<event, status, body>>
vars    == <<now, rules, cache, pc, request, tx, answer>>

Policies == [Keys \X Contents -> Verdicts]

(* The verdicts that let a request through to the client: where the body   *)
(* may not be read, a rule on the body does.                               *)
Passing == {"allowed"} \cup (Faults \cap {"body"})
Allows(p, k) == \E c \in Contents : p[<<k, c>>] \in Passing
Never == -(TTL + MaxServe)

Init ==
    /\ now = 0
    /\ policy \in Policies
    /\ allowing = [k \in Keys |-> IF Allows(policy, k) THEN 0 ELSE Never]
    /\ cached = {}
    /\ timestamp = [k \in Keys |-> 0]
    /\ pc = [r \in Requests |-> "idle"]
    /\ key \in [Requests -> Keys]
    /\ content \in [Requests -> Contents]
    /\ inst = [r \in Requests |-> policy]
    /\ fetched = [r \in Requests |-> 0]
    /\ event = [r \in Requests |-> <<>>]
    /\ status = [r \in Requests |-> "none"]
    /\ body = [r \in Requests |-> "none"]

Verdict(r) == inst[r][<<key[r], content[r]>>]
InFlight == {r \in Requests : pc[r] \in {"headers", "body", "forward", "response", "allow"}}
Goto(r, step) == pc' = [pc EXCEPT ![r] = step]

-----------------------------------------------------------------------------
(* The clock, in units of which a request in flight lasts at most MaxServe. *)
Tick ==
    /\ now < MaxTime
    /\ \A r \in InFlight : now - fetched[r] < MaxServe
    /\ now' = now + 1
    /\ allowing' = [k \in Keys |-> IF Allows(policy, k) THEN now + 1 ELSE allowing[k]]
    /\ UNCHANGED <<policy, cache, pc, request, tx, answer>>

(* The rules of the site change and an instance is built from them; the    *)
(* cache is left as it is.                                                 *)
ReloadRules(p) ==
    /\ policy' = p
    /\ allowing' = [k \in Keys |-> IF Allows(p, k) THEN now ELSE allowing[k]]
    /\ UNCHANGED <<now, cache, pc, request, tx, answer>>

(* Mutation: only entries of twice the age are removed. *)
CleanCacheLate ==
    /\ cached' = {k \in cached : now - timestamp[k] <= 2 * TTL}
    /\ cached' # cached
    /\ UNCHANGED <<now, rules, timestamp, pc, request, tx, answer>>

(* The cleanup of init(), every ten minutes. *)
CleanCache ==
    /\ cached' = {k \in cached : now - timestamp[k] <= TTL}
    /\ cached' # cached
    /\ UNCHANGED <<now, rules, timestamp, pc, request, tx, answer>>

(* ServeHTTP has found the site, counted the request and wrapped the handler. *)
Arrive(r, k, c) ==
    /\ pc[r] = "idle"
    /\ key' = [key EXCEPT ![r] = k]
    /\ content' = [content EXCEPT ![r] = c]
    /\ event' = [event EXCEPT ![r] = <<>>]
    /\ status' = [status EXCEPT ![r] = "none"]
    /\ body' = [body EXCEPT ![r] = "none"]
    /\ Goto(r, "lookup")
    /\ UNCHANGED <<now, rules, cache, tx>>

Fresh(k) == k \in cached /\ now - timestamp[k] < TTL

(* Mutation: a hit renews the entry. *)
HitRenews(r) ==
    /\ pc[r] = "lookup"
    /\ Fresh(key[r])
    /\ timestamp' = [timestamp EXCEPT ![key[r]] = now]
    /\ Goto(r, "skip")
    /\ UNCHANGED <<now, rules, cached, request, tx, answer>>

(* All entries say "allowed": a blocked request returns before the cache   *)
(* is written.                                                             *)
Hit(r) ==
    /\ pc[r] = "lookup"
    /\ Fresh(key[r])
    /\ Goto(r, "skip")
    /\ UNCHANGED <<now, rules, cache, request, tx, answer>>

Miss(r) ==
    /\ pc[r] = "lookup"
    /\ ~Fresh(key[r])
    /\ Goto(r, "getwaf")
    /\ UNCHANGED <<now, rules, cache, request, tx, answer>>

GetWAF(r) ==
    /\ pc[r] = "getwaf"
    /\ inst' = [inst EXCEPT ![r] = policy]
    /\ fetched' = [fetched EXCEPT ![r] = now]
    /\ Goto(r, "headers")
    /\ UNCHANGED <<now, rules, cache, request, answer>>

(* The request goes on to the backend without inspection. *)
GetWAFFails(r) ==
    /\ pc[r] = "getwaf"
    /\ "waf" \in Faults
    /\ Goto(r, "skip")
    /\ UNCHANGED <<now, rules, cache, request, tx, answer>>

(* next.ServeHTTP on the client's own writer: the client gets status and body. *)
ServeUninspected(r) ==
    /\ pc[r] = "skip"
    /\ status' = [status EXCEPT ![r] = "backend"]
    /\ body' = [body EXCEPT ![r] = "backend"]
    /\ Goto(r, "answered")
    /\ UNCHANGED <<now, rules, cache, request, tx, event>>

LogWAFEvent(r, action) == event' = [event EXCEPT ![r] = Append(@, action)]

(* serveWAFErrorPage, before anything was sent to the client. *)
ServeWAFErrorPage(r) ==
    /\ status' = [status EXCEPT ![r] = "blocked"]
    /\ body' = [body EXCEPT ![r] = "blocked"]

(* Mutation: the handler does not return after the page. *)
BlockRequestGoesOn(r, phase, next) ==
    /\ pc[r] = phase
    /\ Verdict(r) = phase
    /\ LogWAFEvent(r, "blocked")
    /\ ServeWAFErrorPage(r)
    /\ Goto(r, next)
    /\ UNCHANGED <<now, rules, cache, request, tx>>

(* The transaction is interrupted before the request is forwarded. *)
BlockRequest(r, phase, next) ==
    /\ pc[r] = phase
    /\ Verdict(r) = phase
    /\ LogWAFEvent(r, "blocked")
    /\ ServeWAFErrorPage(r)
    /\ Goto(r, "close")
    /\ UNCHANGED <<now, rules, cache, request, tx>>

PassRequest(r, phase, next) ==
    /\ pc[r] = phase
    /\ Verdict(r) # phase \/ (phase = "body" /\ "body" \in Faults)
    /\ Goto(r, next)
    /\ UNCHANGED <<now, rules, cache, request, tx, answer>>

(* next.ServeHTTP on the wrapper, which keeps the body and passes the      *)
(* status on.                                                              *)
Forward(r) ==
    /\ pc[r] = "forward"
    /\ status' = [status EXCEPT ![r] = "backend"]
    /\ Goto(r, "response")
    /\ UNCHANGED <<now, rules, cache, request, tx, event, body>>

(* The backend breaks off in its body: the reverse proxy panics with        *)
(* ErrAbortHandler, the deferred calls run, the client gets no answer.     *)
ForwardBreaksOff(r) ==
    /\ pc[r] = "forward"
    /\ "backend" \in Faults
    /\ Goto(r, "answered")
    /\ UNCHANGED <<now, rules, cache, request, tx, answer>>

(* Mutation: the block is not logged. *)
BlockResponseSilent(r) ==
    /\ pc[r] = "response"
    /\ Verdict(r) = "response"
    /\ body' = [body EXCEPT ![r] = "blocked"]
    /\ Goto(r, "close")
    /\ UNCHANGED <<now, rules, cache, request, tx, event, status>>

(* The response phases interrupt the transaction: http.Error(w, ...) sends *)
(* its text after the status that has gone out.                            *)
BlockResponse(r) ==
    /\ pc[r] = "response"
    /\ Verdict(r) = "response"
    /\ LogWAFEvent(r, "blocked")
    /\ body' = [body EXCEPT ![r] = "blocked"]
    /\ Goto(r, "close")
    /\ UNCHANGED <<now, rules, cache, request, tx, status>>

(* The decision is cached under the key of the request. *)
CacheDecision(r) ==
    /\ pc[r] = "response"
    /\ Verdict(r) # "response"
    /\ cached' = cached \cup {key[r]}
    /\ timestamp' = [timestamp EXCEPT ![key[r]] = now]
    /\ Goto(r, "allow")
    /\ UNCHANGED <<now, rules, request, tx, answer>>

(* The event is logged and the body written. *)
Allow(r) ==
    /\ pc[r] = "allow"
    /\ LogWAFEvent(r, "allowed")
    /\ body' = [body EXCEPT ![r] = "backend"]
    /\ Goto(r, "close")
    /\ UNCHANGED <<now, rules, cache, request, tx, status>>

(* The deferred ProcessLogging and Close, and the next request. *)
Close(r) ==
    /\ pc[r] \in {"close", "answered"}
    /\ Goto(r, "idle")
    /\ UNCHANGED <<now, rules, cache, request, tx, answer>>

Phase(r, phase, next) == BlockRequest(r, phase, next) \/ PassRequest(r, phase, next)

Serve(r) ==
    \/ Hit(r) \/ Miss(r)
    \/ GetWAF(r) \/ GetWAFFails(r)
    \/ ServeUninspected(r)
    \/ Phase(r, "headers", "body")
    \/ Phase(r, "body", "forward")
    \/ Forward(r) \/ ForwardBreaksOff(r)
    \/ BlockResponse(r) \/ CacheDecision(r) \/ Allow(r)
    \/ Close(r)

Next ==
    \/ Tick
    \/ \E p \in Policies : ReloadRules(p)
    \/ CleanCache
    \/ \E r \in Requests :
           \/ \E k \in Keys, c \in Contents : Arrive(r, k, c)
           \/ Serve(r)

Spec == Init /\ [][Next]_vars

(* The cleanup ticker fires for ever. *)
FairSpec == Spec /\ WF_vars(CleanCache)

-----------------------------------------------------------------------------
Steps == {"idle", "lookup", "skip", "answered", "getwaf", "headers", "body",
          "forward", "response", "allow", "close"}

(* The values the variables take: no request leaves more than one event.   *)
TypeOK ==
    /\ now \in Nat
    /\ policy \in Policies
    /\ allowing \in [Keys -> Int]
    /\ cached \subseteq Keys
    /\ timestamp \in [Keys -> Nat]
    /\ pc \in [Requests -> Steps]
    /\ key \in [Requests -> Keys]
    /\ content \in [Requests -> Contents]
    /\ inst \in [Requests -> Policies]
    /\ fetched \in [Requests -> Nat]
    /\ event \in [Requests -> {<<>>, <<"allowed">>, <<"blocked">>}]
    /\ status \in [Requests -> {"none", "blocked", "backend"}]
    /\ body \in [Requests -> {"none", "blocked", "backend"}]

(* Rule changes take effect although they do not touch the cache: a        *)
(* request skips the inspection only if rules loaded less than TTL +       *)
(* MaxServe ago allowed some request with its key.  (The time a request    *)
(* takes adds to the lifetime of the entry it writes.)                     *)
RulesTakeEffect ==
    [][\A r \in Requests :
           pc[r] = "lookup" /\ pc'[r] = "skip" =>
               now - allowing[key[r]] < TTL + MaxServe]_vars

(* A request that was inspected and answered leaves exactly one event,     *)
(* which says what became of it: "allowed" if the client has the backend's *)
(* answer, "blocked" if it has the WAF's.                                  *)
EventMatchesAnswer ==
    \A r \in Requests :
        pc[r] = "close" =>
            event[r] = <<IF body[r] = "backend" THEN "allowed" ELSE "blocked">>

(* Nothing reaches the client from the backend of a request whose          *)
(* transaction was interrupted before it was forwarded.                    *)
InterruptedNotServed ==
    \A r \in Requests :
        /\ pc[r] \in {"response", "allow", "close"}
        /\ Verdict(r) \in {"headers", "body"} \ Faults
        => status[r] = "blocked" /\ body[r] = "blocked"

(* The cache does not keep what has expired. *)
ExpiredEntriesRemoved ==
    \A k \in Keys :
        (k \in cached /\ now - timestamp[k] > TTL)
            ~> (k \notin cached \/ now - timestamp[k] <= TTL)
=============================================================================
