------------------------------ MODULE SiteServing ------------------------------
(***************************************************************************)
(* What SiteProxy does to the maps is what ServingPath lets its            *)
(* surroundings and its Start do: the two modules describe one ProxyServer *)
(* from its two sides, and this one joins them.  Requests, listeners and   *)
(* counters stand still.                                                   *)
(***************************************************************************)
EXTENDS SiteProxy

-----------------------------------------------------------------------------
(* SiteProxy's state as ServingPath sees it: a site is its domain, a       *)
(* certificate is there or not, a call of AddOrUpdateSite is one that has  *)
(* yet to write domainMap.                                                 *)

PathEntry(https) == IF https THEN "https" ELSE "http"
EntryOf(d) == IF domainMap[d] = None THEN "absent" ELSE PathEntry(domainMap[d].useHTTPS)

CallerOf(t) ==
    IF t # Monitor THEN "handler" ELSE IF started THEN "monitor" ELSE "start"
CallOf(t) ==
    [site |-> site[t].domain, entry |-> PathEntry(useHTTPS[t]), by |-> CallerOf(t)]
Calls == {CallOf(t) : t \in {u \in Threads : pc[u] = "publish"}}

StartOf ==
    IF pc[Monitor] = "starting" THEN "query"
    ELSE IF pc[Monitor] = "stopped" THEN "failed"
    ELSE IF started THEN "check" ELSE "load"

\* The sites Start has still to load; the one in hand counts until its call begins.
Unloaded ==
    IF started THEN {}
    ELSE {s.domain : s \in todo}
           \cup (IF pc[Monitor] = "load" THEN {site[Monitor].domain} ELSE {})

NoVisits == [d \in Domains |-> 0]

Path == INSTANCE ServingPath WITH
    Sites <- Domains, Certified <- Domains, Clients <- {}, NoName <- None,
    SiteTable <- FALSE, MaxRequests <- 0, Faults <- {},
    domainMap    <- [d \in Domains |-> EntryOf(d)],
    certificates <- {d \in Domains : certificates[d] # None},
    adding       <- Calls,
    start        <- StartOf,
    toLoad       <- Unloaded,
    monitoring   <- IF started THEN "waiting" ELSE "off",
    binding      <- IF started THEN {"http"} ELSE {},
    listening    <- {},
    busy         <- {},
    client       <- [c \in {} |-> None],
    forwarded    <- NoVisits,
    served       <- NoVisits,
    known        <- {},
    requestCounters <- NoVisits,
    step         <- "tick",
    counters     <- NoVisits,
    todo         <- {},
    request_count <- NoVisits,
    lost         <- NoVisits

\* What the handlers and the monitor do to domainMap and to the certificates, however
\* their steps interleave, are steps ServingPath knows: Start loads each active site it
\* has found, once, and opens the HTTP port after the last; of AddOrUpdateSite a handler,
\* Start and the monitor make one call at a time each; a certificate comes before its
\* entry and goes with it; a site that is to be served goes only when it is removed.
ImplementsServingPath == Path!PathSpec
=============================================================================
