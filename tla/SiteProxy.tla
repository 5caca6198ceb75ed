------------------------------ MODULE SiteProxy ------------------------------
(***************************************************************************)
(* The sites the proxy serves (proxy/proxy.go, proxy/manager.go) and the   *)
(* API that changes them (controllers/site.go,                             *)
(* controllers/certificate_controller.go).                                 *)
(*                                                                         *)
(* The sites table is the truth, domainMap and the certificates map are    *)
(* caches of it in the proxy.  An API handler reads a row, changes it in   *)
(* memory, writes it back and calls RefreshSite or RemoveSiteFromProxy     *)
(* under proxyMutex.  MonitorSiteChanges copies the active rows once a     *)
(* minute and puts them into the maps one by one, without that mutex.      *)
(*                                                                         *)
(* A step is one database statement or one section of mapMutex or of the   *)
(* certificate manager's mutex.  The read of a certificate row and the     *)
(* AddCertificate that follows are one step: a certificate never changes.  *)
(* A read that fails leaves the state as it is, with two exceptions that   *)
(* are modelled ("read"): Exist() finds nothing, and the certificate that  *)
(* AddOrUpdateSite cannot read counts as missing.                          *)
(* A crash loses everything but the tables, and Init lets the program      *)
(* start on any tables, so a restart is a behaviour of its own.            *)
(***************************************************************************)
EXTENDS Integers, FiniteSets

CONSTANTS
    Ids, Domains, Targets, Certs,
    Unparsable,     \* the targets url.Parse refuses
    Mismatched,     \* the certificates whose private key is not theirs
    Handlers,       \* goroutines of the API's HTTP server
    Monitor,        \* the goroutine of Start, then of MonitorSiteChanges
    Operations,     \* the API requests that arrive
    Faults,         \* the operations that may fail
    MaxRequests,    \* bound on the API requests
    None

Threads == Handlers \cup {Monitor}
Statuses == {"pending", "active", "inactive"}
Rows(ids) == [id : ids, status : Statuses, domain : Domains, target : Targets,
              waf : BOOLEAN, cert : Certs \cup {None}]
Site == Rows(Ids)
NoSite(i, status) ==
    [id |-> i, status |-> status, domain |-> None, target |-> None,
     waf |-> FALSE, cert |-> None]
Entry == [site : Site, useHTTPS : BOOLEAN]

ASSUME SiteAssumption ==
    /\ Monitor \notin Handlers
    /\ None \notin Ids /\ None \notin Domains /\ None \notin Targets
    /\ None \notin Certs /\ None \notin Threads /\ None \notin Entry
    /\ MaxRequests \in Nat
    /\ Faults \subseteq {"read", "save", "start"}

VARIABLES
    sites,          \* the rows of the sites table ("free": not yet inserted)
    certRows,       \* the certificates table
    domainMap,      \* ProxyServer.domainMap
    certificates,   \* CertificateManager.certificates
    proxyMutex,     \* its holder
    pc,
    site,           \* the *models.Site each goroutine has in hand
    useHTTPS,       \* AddOrUpdateSite's local
    todo,           \* the rows left in LoadActiveSites' loop
    requests,       \* API requests so far
    quiet,          \* history: no API request ran since the loop's query
    started,        \* history: the LoadActiveSites that Start waits for is over
    owed,           \* history: the domains it found active that nobody removed since
    owned,          \* history: the domains each row has had in the table
    unread,         \* history: in a quiet round, whose certificate could not be read
    overtaken       \* history: removed while the monitor was adding them, and without
                    \* a certificate since

tables == <<sites, certRows>>
maps   == <<domainMap, certificates>>
loop   == <<todo, useHTTPS>>
history == <<requests, quiet, started, owed, owned, unread, overtaken>>
vars   == <<tables, maps, proxyMutex, pc, site, loop, history>>

Stored(i) == sites[i].status \in Statuses
\* Filter("domain", d).Exclude("id", i).Exist(); and the column's unique constraint.
DomainTaken(d, i) == \E j \in Ids \ {i} : Stored(j) /\ sites[j].domain = d
\* The handlers' checks by Exist(), which is false also when its query fails.
FoundFree(d, i) == ~DomainTaken(d, i) \/ "read" \in Faults
FoundUnused(c) == (\A i \in Ids : sites[i].cert # c) \/ "read" \in Faults

Usable(c) == c # None /\ certRows[c] = "stored" /\ c \notin Mismatched
\* What UseHTTPS may become: a usable certificate may fail to be read.
CertificateFound(c) == {Usable(c)} \cup (IF "read" \in Faults THEN {FALSE} ELSE {})

Init ==
    /\ sites \in [Ids -> Site \cup {NoSite(i, "free") : i \in Ids}]
    /\ certRows \in [Certs -> {"free", "stored"}]
    /\ \A i \in Ids :
        /\ sites[i].id = i
        /\ Stored(i) => ~DomainTaken(sites[i].domain, i)
        /\ sites[i].cert # None => certRows[sites[i].cert] = "stored"
    /\ domainMap = [d \in Domains |-> None]
    /\ certificates = [d \in Domains |-> None]
    /\ proxyMutex = None
    /\ pc = [t \in Threads |-> IF t = Monitor THEN "starting" ELSE "idle"]
    /\ site = [t \in Threads |-> NoSite(None, "free")]
    /\ useHTTPS = [t \in Threads |-> FALSE]
    /\ todo = {}
    /\ requests = 0
    /\ quiet = FALSE
    /\ started = FALSE
    /\ owed = {}
    /\ owned = [i \in Ids |-> IF Stored(i) THEN {sites[i].domain} ELSE {}]
    /\ unread = {}
    /\ overtaken = {}

Goto(t, step) == pc' = [pc EXCEPT ![t] = step]
Done(t) ==
    /\ Goto(t, "idle")
    /\ site' = [site EXCEPT ![t] = NoSite(None, "free")]

-----------------------------------------------------------------------------
(* The API: the first statement of each handler.                           *)

Arrive(h, op) ==
    /\ pc[h] = "idle"
    /\ op \in Operations
    /\ requests < MaxRequests
    /\ requests' = requests + 1
    /\ quiet' = FALSE
    /\ unread' = {}
    /\ UNCHANGED <<maps, proxyMutex, loop, started, owed, owned, overtaken>>

\* The domain is free, and the row to insert is built.  (Free ids: a bound.)
CreateSite(h) ==
    /\ Arrive(h, "create")
    /\ Cardinality({i \in Ids : sites[i].status = "free"})
         > Cardinality({g \in Handlers : pc[g] = "insert"})
    /\ \E d \in Domains, target \in Targets :
        /\ FoundFree(d, None)
        /\ site' = [site EXCEPT ![h] =
                [id |-> None, status |-> "pending", domain |-> d, target |-> target,
                 waf |-> FALSE, cert |-> None]]
    /\ Goto(h, "insert")
    /\ UNCHANGED tables

UpdateSite(h, i) ==
    /\ Arrive(h, "update")
    /\ Stored(i)
    /\ site' = [site EXCEPT ![h] = sites[i]]
    /\ Goto(h, "edit")
    /\ UNCHANGED tables

DeleteSite(h, i) ==
    /\ Arrive(h, "delete")
    /\ Stored(i)
    /\ site' = [site EXCEPT ![h] = sites[i]]
    /\ Goto(h, "delete")
    /\ UNCHANGED tables

ToggleSiteStatus(h, i) ==
    /\ Arrive(h, "status")
    /\ Stored(i)
    /\ LET active == sites[i].status = "active"
       IN  /\ site' = [site EXCEPT ![h] =
                   [sites[i] EXCEPT !.status = IF active THEN "inactive" ELSE "active"]]
           /\ Goto(h, IF active THEN "deactivate" ELSE "setstatus")
    /\ UNCHANGED tables

ToggleWAF(h, i) ==
    /\ Arrive(h, "waf")
    /\ Stored(i)
    /\ site' = [site EXCEPT ![h] = [sites[i] EXCEPT !.waf = ~@]]
    /\ Goto(h, "setwaf")
    /\ UNCHANGED tables

UploadCertificate(h, c) ==
    /\ Arrive(h, "certificate")
    /\ certRows[c] = "free"
    /\ certRows' = [certRows EXCEPT ![c] = "stored"]
    /\ UNCHANGED <<sites, pc, site>>

\* The "in use" check; the id waits in the cert field.
DeleteCertificate(h, c) ==
    /\ Arrive(h, "certificate")
    /\ certRows[c] = "stored"
    /\ FoundUnused(c)
    /\ site' = [site EXCEPT ![h].cert = c]
    /\ Goto(h, "delcert")
    /\ UNCHANGED tables

-----------------------------------------------------------------------------
(* The API: the statements that follow.                                    *)

\* Mutation: the new row keeps the id of the request, which has none.
InsertSiteWithoutId(h) ==
    /\ pc[h] = "insert"
    /\ \E i \in Ids : /\ sites[i].status = "free"
                      /\ sites' = [sites EXCEPT ![i] = site[h]]
    /\ Done(h)
    /\ UNCHANGED <<certRows, maps, proxyMutex, loop, history>>

InsertSite(h) ==
    /\ pc[h] = "insert"
    /\ IF DomainTaken(site[h].domain, None)
       THEN UNCHANGED <<sites, owned>>
       ELSE \E i \in Ids : /\ sites[i].status = "free"
                           /\ sites' = [sites EXCEPT ![i] = [site[h] EXCEPT !.id = i]]
                           /\ owned' = [owned EXCEPT ![i] = {site[h].domain}]
    /\ Done(h)
    /\ UNCHANGED <<certRows, maps, proxyMutex, loop, requests, quiet, started, owed,
                   unread, overtaken>>

\* The fields of the request, after the checks of the domain and the certificate
\* it names; a field it leaves out keeps the value read before, unchecked.
EditSite(h) ==
    /\ pc[h] = "edit"
    /\ \E d \in Domains, target \in Targets, status \in Statuses, c \in Certs \cup {None} :
        /\ d # site[h].domain => FoundFree(d, site[h].id)
        /\ c \notin {None, site[h].cert} => certRows[c] = "stored"
        /\ site' = [site EXCEPT ![h] =
                [@ EXCEPT !.domain = d, !.target = target, !.status = status, !.cert = c]]
    /\ Goto(h, "save")
    /\ UNCHANGED <<tables, maps, proxyMutex, loop, history>>

\* What follows a write: "If site is active, refresh it in the proxy".
Written(h) ==
    IF site[h].status = "active"
    THEN Goto(h, "refresh") /\ UNCHANGED site
    ELSE Done(h)

\* Mutation: an update that the constraint refuses is reported and refreshed all the same.
SaveSiteIgnoresRefusal(h) ==
    /\ pc[h] = "save"
    /\ LET s == site[h] IN
       IF Stored(s.id) /\ ~DomainTaken(s.domain, s.id)
       THEN /\ sites' = [sites EXCEPT ![s.id] = s]
            /\ owned' = [owned EXCEPT ![s.id] = @ \cup {s.domain}]
       ELSE UNCHANGED <<sites, owned>>
    /\ Written(h)
    /\ UNCHANGED <<certRows, maps, proxyMutex, loop, requests, quiet, started, owed,
                   unread, overtaken>>

\* o.Update(site) writes every column; of a deleted row it changes nothing and
\* reports no error.  The unique constraint on domain may refuse it.
SaveSite(h) ==
    /\ pc[h] = "save"
    /\ LET s == site[h] IN
       IF Stored(s.id) /\ DomainTaken(s.domain, s.id)
       THEN Done(h) /\ UNCHANGED <<sites, owned>>
       ELSE /\ IF Stored(s.id)
               THEN /\ sites' = [sites EXCEPT ![s.id] = s]
                    /\ owned' = [owned EXCEPT ![s.id] = @ \cup {s.domain}]
               ELSE UNCHANGED <<sites, owned>>
            /\ Written(h)
    /\ UNCHANGED <<certRows, maps, proxyMutex, loop, requests, quiet, started, owed,
                   unread, overtaken>>

\* o.Update(site, "Status")
SetStatus(h) ==
    /\ pc[h] = "setstatus"
    /\ LET s == site[h] IN
       sites' = IF Stored(s.id) THEN [sites EXCEPT ![s.id].status = s.status] ELSE sites
    /\ Written(h)
    /\ UNCHANGED <<certRows, maps, proxyMutex, loop, history>>

\* o.Update(site, "WAFEnabled")
SetWAF(h) ==
    /\ pc[h] = "setwaf"
    /\ LET s == site[h] IN
       sites' = IF Stored(s.id) THEN [sites EXCEPT ![s.id].waf = s.waf] ELSE sites
    /\ Written(h)
    /\ UNCHANGED <<certRows, maps, proxyMutex, loop, history>>

DeleteRow(h) ==
    /\ pc[h] = "delete"
    /\ sites' = [sites EXCEPT ![site[h].id] = NoSite(site[h].id, "deleted")]
    /\ Goto(h, "remove")
    /\ UNCHANGED <<certRows, maps, proxyMutex, site, loop, history>>

DeleteCertificateRow(h) ==
    /\ pc[h] = "delcert"
    /\ certRows' = [certRows EXCEPT ![site[h].cert] = "deleted"]
    /\ Done(h)
    /\ UNCHANGED <<sites, maps, proxyMutex, loop, history>>

\* The database refuses a write, and the handler answers 500.
WriteFails(h) ==
    /\ "save" \in Faults
    /\ pc[h] \in {"insert", "save", "setstatus", "setwaf", "delete", "delcert"}
    /\ Done(h)
    /\ UNCHANGED <<tables, maps, proxyMutex, loop, history>>

-----------------------------------------------------------------------------
(* The proxy.                                                              *)

\* The monitor has a domain's certificate added and its entry not yet.
Adding(d) == pc[Monitor] = "publish" /\ site[Monitor].domain = d /\ useHTTPS[Monitor]

\* RemoveSiteFromProxy, under proxyMutex; RemoveSite is one section of mapMutex.
\* DeleteSite is then done; ToggleSiteStatus has its row still to write.
RemoveSiteFromProxy(h) ==
    /\ pc[h] \in {"remove", "deactivate"}
    /\ proxyMutex = None
    /\ LET d == site[h].domain IN
       /\ domainMap' = [domainMap EXCEPT ![d] = None]
       /\ certificates' =
            IF domainMap[d] # None /\ domainMap[d].useHTTPS
            THEN [certificates EXCEPT ![d] = None]
            ELSE certificates
       /\ owed' = IF domainMap[d] # None THEN owed \ {d} ELSE owed
       /\ overtaken' = IF domainMap[d] = None THEN overtaken
                       ELSE IF Adding(d) THEN overtaken \cup {d} ELSE overtaken \ {d}
    /\ IF pc[h] = "remove" THEN Done(h) ELSE Goto(h, "setstatus") /\ UNCHANGED site
    /\ UNCHANGED <<tables, proxyMutex, loop, requests, quiet, started, owned, unread>>

\* Mutation: RefreshSite does without the mutex.
RefreshSiteUnlocked(h) ==
    /\ pc[h] = "refresh"
    /\ Goto(h, "load")
    /\ UNCHANGED <<tables, maps, proxyMutex, site, loop, history>>

RefreshSite(h) ==
    /\ pc[h] = "refresh"
    /\ proxyMutex = None
    /\ proxyMutex' = h
    /\ Goto(h, "load")
    /\ UNCHANGED <<tables, maps, site, loop, history>>

\* Mutation: RefreshSite returns without unlocking.
AddOrUpdateSiteReturnsLocked(t) ==
    /\ IF t = Monitor
       THEN Goto(t, "loop") /\ site' = [site EXCEPT ![t] = NoSite(None, "free")]
       ELSE Done(t)
    /\ UNCHANGED proxyMutex

\* The end of AddOrUpdateSite: RefreshSite unlocks and its handler answers, or
\* LoadActiveSites takes the next row.
AddOrUpdateSiteReturns(t) ==
    /\ IF t = Monitor
       THEN Goto(t, "loop") /\ site' = [site EXCEPT ![t] = NoSite(None, "free")]
       ELSE Done(t)
    /\ proxyMutex' = IF t = Monitor THEN proxyMutex ELSE None

\* Mutation: an update first removes the entry it will replace.
AddCertificateRemovesFirst(t) ==
    /\ pc[t] = "load"
    /\ useHTTPS' = [useHTTPS EXCEPT ![t] = Usable(site[t].cert)]
    /\ domainMap' = [domainMap EXCEPT ![site[t].domain] = None]
    /\ certificates' = [certificates EXCEPT ![site[t].domain] =
                            IF Usable(site[t].cert) THEN site[t].cert ELSE None]
    /\ Goto(t, "publish")
    /\ UNCHANGED <<tables, proxyMutex, site, todo, history>>

\* AddOrUpdateSite up to the map.  Every caller passes an active site, so its
\* first test, and the RemoveSite under it, are never reached.
AddCertificate(t) ==
    /\ pc[t] = "load"
    /\ IF site[t].target \in Unparsable
       THEN /\ AddOrUpdateSiteReturns(t)
            /\ owed' = IF t = Monitor /\ ~started THEN owed \ {site[t].domain} ELSE owed
            /\ UNCHANGED <<certificates, useHTTPS, unread, overtaken>>
       ELSE /\ \E found \in CertificateFound(site[t].cert) :
                 /\ useHTTPS' = [useHTTPS EXCEPT ![t] = found]
                 /\ IF found
                    THEN /\ certificates' = [certificates EXCEPT ![site[t].domain] = site[t].cert]
                         /\ overtaken' = overtaken \ {site[t].domain}
                    ELSE UNCHANGED <<certificates, overtaken>>
                 /\ unread' = IF quiet /\ Usable(site[t].cert) /\ ~found
                              THEN unread \cup {site[t].domain} ELSE unread
            /\ Goto(t, "publish")
            /\ UNCHANGED <<proxyMutex, site, owed>>
    /\ UNCHANGED <<tables, domainMap, todo, requests, quiet, started, owned>>

\* Mutation: an entry that is there already is kept.
AddToMapIfNew(t) ==
    /\ pc[t] = "publish"
    /\ domainMap' = [domainMap EXCEPT ![site[t].domain] =
                        IF @ # None THEN @
                        ELSE [site |-> site[t], useHTTPS |-> useHTTPS[t]]]
    /\ useHTTPS' = [useHTTPS EXCEPT ![t] = FALSE]
    /\ AddOrUpdateSiteReturns(t)
    /\ UNCHANGED <<tables, certificates, todo, history>>

\* domainMap[site.Domain] = siteProxy
AddToMap(t) ==
    /\ pc[t] = "publish"
    /\ domainMap' = [domainMap EXCEPT ![site[t].domain] =
                        [site |-> site[t], useHTTPS |-> useHTTPS[t]]]
    /\ useHTTPS' = [useHTTPS EXCEPT ![t] = FALSE]
    /\ AddOrUpdateSiteReturns(t)
    /\ UNCHANGED <<tables, certificates, todo, history>>

-----------------------------------------------------------------------------
(* LoadActiveSites, called by Start and then by every tick of the monitor. *)

\* The query: Filter("status", models.SiteStatusActive).  A query that fails on
\* a tick leaves everything as it is.
QueryActiveSites ==
    /\ pc[Monitor] \in {"starting", "idle"}
    /\ todo' = {s \in {sites[i] : i \in Ids} : s.status = "active"}
    /\ quiet' = (\A h \in Handlers : pc[h] = "idle")
    /\ owed' = IF pc[Monitor] = "starting" THEN {s.domain : s \in todo'} ELSE owed
    /\ unread' = {}
    /\ Goto(Monitor, "loop")
    /\ UNCHANGED <<tables, maps, proxyMutex, site, useHTTPS, requests, started, owned,
                   overtaken>>

\* In Start a failed query is the end: no monitor, no listener.
StartFails ==
    /\ "start" \in Faults
    /\ pc[Monitor] = "starting"
    /\ Goto(Monitor, "stopped")
    /\ UNCHANGED <<tables, maps, proxyMutex, site, loop, history>>

\* Mutation: LoadActiveSites returns from inside its loop.
NextSiteOnly ==
    /\ pc[Monitor] = "loop"
    /\ \E s \in todo : site' = [site EXCEPT ![Monitor] = s]
    /\ todo' = {}
    /\ Goto(Monitor, "load")
    /\ UNCHANGED <<tables, maps, proxyMutex, useHTTPS, history>>

NextSite ==
    /\ pc[Monitor] = "loop"
    /\ \E s \in todo :
        /\ site' = [site EXCEPT ![Monitor] = s]
        /\ todo' = todo \ {s}
    /\ Goto(Monitor, "load")
    /\ UNCHANGED <<tables, maps, proxyMutex, useHTTPS, history>>

LoopEnds ==
    /\ pc[Monitor] = "loop"
    /\ todo = {}
    /\ started' = TRUE
    /\ Goto(Monitor, "idle")
    /\ UNCHANGED <<tables, maps, proxyMutex, site, loop, requests, quiet, owed, owned,
                   unread, overtaken>>

-----------------------------------------------------------------------------
AddOrUpdateSite(t) == AddCertificate(t) \/ AddToMap(t)

MonitorStep ==
    \/ QueryActiveSites \/ StartFails \/ NextSite \/ LoopEnds
    \/ AddOrUpdateSite(Monitor)

Arrival(h) ==
    \/ CreateSite(h)
    \/ \E i \in Ids : \/ UpdateSite(h, i) \/ DeleteSite(h, i)
                      \/ ToggleSiteStatus(h, i) \/ ToggleWAF(h, i)
    \/ \E c \in Certs : UploadCertificate(h, c) \/ DeleteCertificate(h, c)

HandlerStep(h) ==
    \/ InsertSite(h) \/ EditSite(h) \/ SaveSite(h) \/ SetStatus(h) \/ SetWAF(h)
    \/ DeleteRow(h) \/ DeleteCertificateRow(h) \/ WriteFails(h)
    \/ RemoveSiteFromProxy(h) \/ RefreshSite(h) \/ AddOrUpdateSite(h)

Next ==
    \/ MonitorStep
    \/ \E h \in Handlers : Arrival(h) \/ HandlerStep(h)

Spec == Init /\ [][Next]_vars

\* The ticker fires for as long as the program runs.  A handler at work is
\* scheduled, and sync.Mutex hands itself to a waiter that has starved; nobody
\* has to send a request.
FairSpec ==
    /\ Spec
    /\ WF_vars(MonitorStep)
    /\ \A h \in Handlers : SF_vars(HandlerStep(h))

-----------------------------------------------------------------------------
(* Properties.                                                             *)

HandlerSteps ==
    {"idle", "insert", "edit", "save", "setstatus", "setwaf", "delete", "delcert",
     "remove", "deactivate", "refresh", "load", "publish"}
MonitorSteps == {"starting", "stopped", "idle", "loop", "load", "publish"}
InHand ==
    [id : Ids \cup {None}, status : Statuses \cup {"free"},
     domain : Domains \cup {None}, target : Targets \cup {None},
     waf : BOOLEAN, cert : Certs \cup {None}]

\* What a goroutine has in hand at a step.
SiteSteps == {"edit", "save", "setstatus", "setwaf", "delete", "remove", "deactivate",
              "refresh", "load", "publish"}
Holds(step, s) ==
    /\ step \in SiteSteps => s \in Site
    /\ step = "insert" => s \in Rows({None})
    /\ step = "delcert" => s.cert \in Certs

TablesOK ==
    /\ sites \in [Ids -> Site \cup {NoSite(i, s) : i \in Ids, s \in {"free", "deleted"}}]
    /\ \A i \in Ids : sites[i].id = i
    /\ certRows \in [Certs -> {"free", "stored", "deleted"}]
MapsOK ==
    /\ domainMap \in [Domains -> Entry \cup {None}]
    /\ \A d \in Domains : domainMap[d] # None => domainMap[d].site.domain = d
    /\ certificates \in [Domains -> Certs \cup {None}]
ControlOK ==
    /\ proxyMutex \in Handlers \cup {None}
    /\ pc \in [Threads -> HandlerSteps \cup MonitorSteps]
    /\ pc[Monitor] \in MonitorSteps
    /\ \A h \in Handlers : pc[h] \in HandlerSteps
    /\ useHTTPS \in [Threads -> BOOLEAN]
    /\ requests \in 0..MaxRequests
    /\ quiet \in BOOLEAN
    /\ started \in BOOLEAN
    /\ owed \subseteq Domains
    /\ owned \in [Ids -> SUBSET Domains]
    /\ unread \subseteq Domains
    /\ overtaken \subseteq Domains
HandOK ==
    /\ site \in [Threads -> InHand]
    /\ \A t \in Threads : Holds(pc[t], site[t])
    /\ todo \subseteq Site

\* The values the variables take: every entry is under its site's domain, and what
\* a goroutine inside a statement has in hand is what the statement needs.
TypeOK == TablesOK /\ MapsOK /\ ControlOK /\ HandOK

\* A domain is routed to a site only if the table gave it to that site: of two handlers
\* that both find it free, the one whose write is refused leaves the proxy alone, and so
\* does one that comes late with a row it read long ago.  (A site deleted during its own
\* update is the exception: the update of no row is no error, and RefreshSite follows.)
RoutedToOwner ==
    \A d \in Domains : domainMap[d] # None =>
        LET i == domainMap[d].site.id IN d \in owned[i] \/ sites[i].status = "deleted"

Deployable(s) == s.status = "active" /\ s.target \notin Unparsable
ServedAs(s, https) ==
    LET e == domainMap[s.domain] IN
    /\ e # None
    /\ e.site = s
    /\ e.useHTTPS = https
    /\ https => certificates[s.domain] = s.cert

\* Whatever the handlers and earlier rounds of the monitor left behind, a round
\* of LoadActiveSites that no API request overlaps ends with every active site
\* served as its row says, over HTTPS exactly when its certificate is usable and
\* this round could read it.
MonitorRepairs ==
    quiet /\ pc[Monitor] = "idle" =>
        \A i \in Ids : Deployable(sites[i]) =>
            \/ ServedAs(sites[i], Usable(sites[i].cert))
            \/ sites[i].domain \in unread /\ ServedAs(sites[i], FALSE)

\* An entry with UseHTTPS has a certificate to show, though the maps have a mutex each
\* and reads of certificates fail: proxyMutex keeps the handlers apart, and against the
\* monitor, which does without, only a removal between its AddCertificate and its entry
\* takes the certificate away, until somebody adds the site again.
HTTPSEntriesHaveCertificates ==
    \A d \in Domains :
        domainMap[d] # None /\ domainMap[d].useHTTPS =>
            certificates[d] # None \/ d \in overtaken

\* A domain that is served stops being served only when DeleteSite or
\* ToggleSiteStatus removes it: no refresh, by a handler or by the monitor,
\* leaves a gap in which its visitors see 404.
NoGapInService ==
    [][\A d \in Domains :
          domainMap[d] # None /\ domainMap'[d] = None =>
              \E h \in Handlers : /\ pc[h] \in {"remove", "deactivate"}
                                  /\ pc'[h] # pc[h]
                                  /\ site[h].domain = d]_vars

\* Every handler answers: none waits for proxyMutex for ever.
HandlersAnswered == \A h \in Handlers : []<>(pc[h] = "idle")

\* Once the API is no longer used, the proxy comes to serve every active site as
\* its row says, and from then on keeps doing so (as long as certificates can be read).
ActiveSitesServed ==
    <>[](\A i \in Ids :
            Deployable(sites[i]) => ServedAs(sites[i], Usable(sites[i].cert)))

\* Once the API is no longer used, the proxy comes to serve active sites only.
OnlyActiveSitesServed ==
    <>[](\A d \in Domains : domainMap[d] # None =>
            \E i \in Ids : sites[i].status = "active" /\ sites[i].domain = d)
=============================================================================
