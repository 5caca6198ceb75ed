---------------------------- MODULE ServingPath ----------------------------
(***************************************************************************)
(* The way of a request through the proxy (proxy/proxy.go): the HTTP and   *)
(* the HTTPS listener that Start and MonitorCertificates open, the choice  *)
(* of a certificate, the lookup of the site, the redirect to HTTPS, and    *)
(* the counters of RequestCounters, whose actions this module takes as     *)
(* they are.  What follows the count is in WAFHandler; who calls           *)
(* AddOrUpdateSite and RemoveSite, and with what, is in SiteProxy, which   *)
(* shows that its calls are among those that may come here, also while     *)
(* Start is loading.  A site stands for its domain.                        *)
(***************************************************************************)
EXTENDS RequestCounters, FiniteSets

CONSTANTS
    Certified,  \* the sites that may have a certificate that loads
    Clients,
    NoName      \* the server name of a client that sends none

ASSUME PathAssumption ==
    /\ Certified \subseteq Sites
    /\ NoName \notin Sites
    /\ IsFiniteSet(Clients)

VARIABLES
    domainMap,     \* per domain "absent", or its SiteProxy: "http", or "https" with UseHTTPS
    certificates,  \* the keys of CertificateManager.certificates
    adding,        \* calls of AddOrUpdateSite that have yet to write domainMap
    start,         \* where Start is
    toLoad,        \* the sites left in Start's LoadActiveSites
    monitoring,    \* MonitorCertificates: "off", "waiting", "started" (httpsStarted)
    binding,       \* the goroutines about to listen: Start's two and the monitor's
    listening,     \* the ports that are open
    busy,          \* the ports that another process holds
    client,        \* per client: how far its request is
    forwarded,     \* history: the requests of a site that went on to WAF or backend
    owed           \* history: the sites Start found active that nobody has removed

maps      == <<domainMap, certificates, adding, owed>>
starting  == <<start, toLoad, monitoring>>
listeners == <<binding, listening, busy>>
requests  == <<client, forwarded>>
pathVars  == <<vars, maps, starting, listeners, requests>>

Entries == {"http", "https"}
Callers == {"start", "monitor", "handler"}
Call(s, entry, by) == [site |-> s, entry |-> entry, by |-> by]
Request(at, s, tls) == [at |-> at, host |-> s, tls |-> tls]
NoRequest == Request("idle", NoName, FALSE)

PathInit ==
    /\ Init
    /\ domainMap = [s \in Sites |-> "absent"]
    /\ certificates = {}
    /\ adding = {}
    /\ start = "query"
    /\ toLoad = {}
    /\ monitoring = "off"
    /\ binding = {}
    /\ listening = {}
    /\ busy \in SUBSET {"https"}
    /\ client = [c \in Clients |-> NoRequest]
    /\ forwarded = Zero
    /\ owed = {}

-----------------------------------------------------------------------------
(* The maps.                                                               *)

(* AddOrUpdateSite up to the map: the certificate first, if it loads.  Of  *)
(* its callers Start and the monitor take one site after the other, and    *)
(* the handlers have proxyMutex.                                           *)
AddCertificate(s, entry, by) ==
    /\ \A call \in adding : call.by # by
    /\ entry = "https" => s \in Certified
    /\ adding' = adding \cup {Call(s, entry, by)}
    /\ certificates' = certificates \cup (IF entry = "https" THEN {s} ELSE {})
    /\ UNCHANGED <<domainMap, listeners, requests, vars>>

(* By a handler of the API, or by a round of MonitorSiteChanges.           *)
RefreshSite(s) ==
    /\ \E entry \in Entries, by \in {"handler", "monitor"} :
        /\ by = "monitor" => start \in {"check", "done"}
        /\ AddCertificate(s, entry, by)
    /\ UNCHANGED <<starting, owed>>

AddToMap(call) ==
    /\ call \in adding
    /\ adding' = adding \ {call}
    /\ domainMap' = [domainMap EXCEPT ![call.site] = call.entry]
    /\ UNCHANGED <<certificates, owed, starting, listeners, requests, vars>>

RemoveSite(s) ==
    /\ domainMap[s] # "absent"
    /\ domainMap' = [domainMap EXCEPT ![s] = "absent"]
    /\ certificates' = IF domainMap[s] = "https" THEN certificates \ {s} ELSE certificates
    /\ owed' = owed \ {s}
    /\ UNCHANGED <<adding, starting, listeners, requests, vars>>

-----------------------------------------------------------------------------
(* Start.                                                                  *)

Loading == start = "load" /\ \A call \in adding : call.by # "start"

QueryActiveSites ==
    /\ start = "query"
    /\ toLoad' \in SUBSET Sites
    /\ owed' = toLoad'
    /\ start' = "load"
    /\ UNCHANGED <<domainMap, certificates, adding, monitoring, listeners, requests, vars>>

(* Then there are no goroutines and no listener.                           *)
StartFails ==
    /\ start = "query"
    /\ start' = "failed"
    /\ UNCHANGED <<toLoad, monitoring, maps, listeners, requests, vars>>

LoadSite(s) ==
    /\ Loading
    /\ s \in toLoad
    /\ toLoad' = toLoad \ {s}
    /\ \E entry \in Entries : AddCertificate(s, entry, "start")
    /\ UNCHANGED <<start, monitoring, owed>>

(* A target that does not parse: the loop goes on. *)
SkipSite(s) ==
    /\ Loading
    /\ s \in toLoad
    /\ toLoad' = toLoad \ {s}
    /\ owed' = owed \ {s}
    /\ UNCHANGED <<start, monitoring, domainMap, certificates, adding, listeners, requests, vars>>

(* Mutation: the HTTP server does not wait for the sites. *)
StartListenersFirst ==
    /\ start = "load"
    /\ "http" \notin binding \cup listening
    /\ binding' = binding \cup {"http"}
    /\ IF Loading /\ toLoad = {}
       THEN start' = "check" /\ monitoring' = "waiting"
       ELSE UNCHANGED <<start, monitoring>>
    /\ UNCHANGED <<toLoad, maps, listening, busy, requests, vars>>

(* go MonitorSiteChanges(), MonitorCertificates(), ListenAndServe() *)
StartListeners ==
    /\ Loading
    /\ toLoad = {}
    /\ start' = "check"
    /\ monitoring' = "waiting"
    /\ binding' = binding \cup {"http"}
    /\ UNCHANGED <<toLoad, maps, listening, busy, requests, vars>>

(* Mutation: the monitor takes over what Start has seen. *)
CheckCertificatesMarks ==
    /\ start = "check"
    /\ start' = "done"
    /\ binding' = IF certificates = {} THEN binding ELSE binding \cup {"start"}
    /\ monitoring' = IF certificates = {} THEN monitoring ELSE "started"
    /\ UNCHANGED <<toLoad, maps, listening, busy, requests, vars>>

(* "Only start HTTPS server if we have certificates" *)
CheckCertificates ==
    /\ start = "check"
    /\ start' = "done"
    /\ binding' = IF certificates = {} THEN binding ELSE binding \cup {"start"}
    /\ UNCHANGED <<toLoad, monitoring, maps, listening, busy, requests, vars>>

(* The first tick that finds certificates starts the server too, whether   *)
(* it runs or not, and is the last to try.                                 *)
MonitorTick ==
    /\ monitoring = "waiting"
    /\ certificates # {}
    /\ monitoring' = "started"
    /\ binding' = binding \cup {"monitor"}
    /\ UNCHANGED <<start, toLoad, maps, listening, busy, requests, vars>>

Port(g) == IF g = "http" THEN "http" ELSE "https"

(* ListenAndServe, ListenAndServeTLS: of two on one port the second fails, *)
(* and a failure is only logged.                                           *)
Listen(g) ==
    /\ g \in binding
    /\ binding' = binding \ {g}
    /\ listening' = IF Port(g) \in busy THEN listening ELSE listening \cup {Port(g)}
    /\ UNCHANGED <<starting, maps, busy, requests, vars>>

(* The other process closes its port. *)
PortReleased ==
    /\ busy # {}
    /\ busy' = {}
    /\ UNCHANGED <<starting, maps, binding, listening, requests, vars>>

-----------------------------------------------------------------------------
(* A request.                                                              *)

Move(c, request) ==
    /\ client' = [client EXCEPT ![c] = request]
    /\ UNCHANGED <<maps, starting, listeners>>

Connect(c, s) ==
    /\ client[c].at = "idle"
    /\ "http" \in listening
    /\ Move(c, Request("lookup", s, FALSE))
    /\ UNCHANGED <<forwarded, vars>>

(* The certificates GetCertificate may answer with; nothing is ever added  *)
(* under "_default".                                                       *)
GetCertificate(name) ==
    IF name = NoName THEN certificates ELSE certificates \cap {name}

(* The name of the handshake need not be the host of the request. *)
ConnectTLS(c, s) ==
    /\ client[c].at = "idle"
    /\ "https" \in listening
    /\ \E name \in Sites \cup {NoName} : GetCertificate(name) # {}
    /\ Move(c, Request("lookup", s, TRUE))
    /\ UNCHANGED <<forwarded, vars>>

Answer(c, at) == Move(c, [client[c] EXCEPT !.at = at])

(* Mutation: a request counts as soon as its site is found. *)
LookupCounts(c) ==
    /\ client[c].at = "lookup"
    /\ LET host == client[c].host IN
       IF domainMap[host] = "absent"
       THEN Answer(c, "notfound") /\ UNCHANGED <<forwarded, vars>>
       ELSE /\ ServeHTTP(host)
            /\ Answer(c, IF domainMap[host] = "https" /\ ~client[c].tls
                         THEN "redirected" ELSE "forward")
            /\ UNCHANGED forwarded

(* The entry found is the request's from here on, whatever becomes of it.  *)
Lookup(c) ==
    /\ client[c].at = "lookup"
    /\ LET entry == domainMap[client[c].host] IN
       Answer(c, IF entry = "absent" THEN "notfound"
                 ELSE IF entry = "https" /\ ~client[c].tls THEN "redirected"
                 ELSE "count")
    /\ UNCHANGED <<forwarded, vars>>

Count(c) ==
    /\ client[c].at = "count"
    /\ ServeHTTP(client[c].host)
    /\ Answer(c, "forward")
    /\ UNCHANGED forwarded

(* To the WAF handler or straight to the backend. *)
Forward(c) ==
    /\ client[c].at = "forward"
    /\ forwarded' = [forwarded EXCEPT ![client[c].host] = @ + 1]
    /\ Answer(c, "answered")
    /\ UNCHANGED vars

(* The client asks again over TLS, if there is somebody to talk to. *)
FollowRedirect(c) ==
    /\ client[c].at = "redirected"
    /\ "https" \in listening
    /\ GetCertificate(client[c].host) # {}
    /\ Move(c, Request("lookup", client[c].host, TRUE))
    /\ UNCHANGED <<forwarded, vars>>

Leave(c) ==
    /\ client[c].at \in {"notfound", "redirected", "answered"}
    /\ Move(c, NoRequest)
    /\ UNCHANGED <<forwarded, vars>>

-----------------------------------------------------------------------------
StartStep ==
    \/ QueryActiveSites \/ StartFails
    \/ \E s \in Sites : LoadSite(s) \/ SkipSite(s)
    \/ \E call \in adding : call.by = "start" /\ AddToMap(call)
    \/ StartListeners \/ CheckCertificates

MapStep ==
    \/ \E s \in Sites : RefreshSite(s) \/ RemoveSite(s)
    \/ \E call \in adding : call.by # "start" /\ AddToMap(call)

ListenStep == MonitorTick \/ PortReleased \/ \E g \in binding : Listen(g)

ClientStep(c) ==
    \/ \E s \in Sites : Connect(c, s) \/ ConnectTLS(c, s)
    \/ Lookup(c) \/ Count(c) \/ Forward(c)
    \/ FollowRedirect(c) \/ Leave(c)

CountersStep == Round /\ UNCHANGED <<maps, starting, listeners, requests>>

PathNext ==
    \/ StartStep \/ MapStep \/ ListenStep
    \/ \E c \in Clients : ClientStep(c)
    \/ CountersStep

PathSpec == PathInit /\ [][PathNext]_pathVars

(* Start and the goroutines it starts run, and the tickers of the counters *)
(* and of MonitorCertificates tick.  Nobody has to send a request, call    *)
(* the API or release a port.                                              *)
PathFairSpec ==
    /\ PathSpec
    /\ WF_vars(Round)
    /\ WF_pathVars(StartStep)
    /\ WF_pathVars(MonitorTick)
    /\ \A g \in {"http", "start", "monitor"} : WF_pathVars(Listen(g))

-----------------------------------------------------------------------------
(* The values the variables take: certificates are of sites that have one, *)
(* an entry with UseHTTPS too, and a request at work is of a site.         *)
PathTypeOK ==
    /\ TypeOK
    /\ domainMap \in [Sites -> Entries \cup {"absent"}]
    /\ \A s \in Sites \ Certified : domainMap[s] # "https"
    /\ certificates \subseteq Certified
    /\ adding \subseteq [site : Sites, entry : Entries, by : Callers]
    /\ \A call \in adding : call.entry = "https" => call.site \in Certified
    /\ start \in {"query", "failed", "load", "check", "done"}
    /\ toLoad \subseteq Sites
    /\ monitoring \in {"off", "waiting", "started"}
    /\ binding \subseteq {"http", "start", "monitor"}
    /\ listening \subseteq {"http", "https"}
    /\ busy \subseteq {"https"}
    /\ client \in [Clients -> [at : {"idle", "lookup", "count", "forward", "notfound",
                                     "redirected", "answered"},
                               host : Sites \cup {NoName}, tls : BOOLEAN]]
    /\ \A c \in Clients : client[c].at # "idle" => client[c].host \in Sites
    /\ forwarded \in [Sites -> Nat]
    /\ owed \subseteq Sites

(* What is counted are the requests that go on to the WAF or the backend,  *)
(* each once: no redirect and no unknown host, although the client of a    *)
(* redirect comes twice, and whatever becomes of the entry meanwhile.      *)
Forwarding(s) == {c \in Clients : client[c].at = "forward" /\ client[c].host = s}
VisitsCountedOnce ==
    \A s \in Sites :
        request_count[s] + counters[s] + requestCounters[s] + lost[s]
            = forwarded[s] + Cardinality(Forwarding(s))

(* A restart answers no visitor of an active site with 404: when the HTTP  *)
(* port opens, what Start has found active is in domainMap.                *)
NoStartupGap ==
    "http" \in listening => \A s \in owed : domainMap[s] # "absent"

(* Once there are certificates for good, HTTPS comes up, whether they came *)
(* before Start's check or after, and also if Start found the port taken,  *)
(* as long as it is free when MonitorCertificates tries.                   *)
ListenerComesUp ==
    /\ <>[](start = "done" /\ certificates # {})
    /\ []("monitor" \in binding => "https" \notin busy)
    => <>("https" \in listening)
=============================================================================
