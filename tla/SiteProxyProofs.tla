--------------------------- MODULE SiteProxyProofs ---------------------------
(* Proofs of the safety properties of SiteProxy, for any number of sites,   *)
(* domains, certificates and handlers, and any set of faults.               *)
EXTENDS SiteServing, TLAPS

\* Who holds proxyMutex: a handler inside AddOrUpdateSite.
ProxyMutexOK == \A h \in Handlers : pc[h] \in {"load", "publish"} => proxyMutex = h

\* The table gives a domain to one row.
DomainsUnique ==
    \A i, j \in Ids :
        Stored(i) /\ Stored(j) /\ sites[i].domain = sites[j].domain => i = j

\* The table has given row i the domain d; of a deleted row nothing is said.
Had(i, d) == d \in owned[i] \/ sites[i].status = "deleted"
\* The steps from which a goroutine may come to put its site into domainMap.
PublishingSteps == {"setstatus", "setwaf", "deactivate", "refresh", "load", "publish"}
Owns(step, s) ==
    /\ step \in {"edit", "save"} => sites[s.id].status # "free"
    /\ step \in PublishingSteps => Had(s.id, s.domain)

\* Every row of the table owns its domain, and so does every site a goroutine is
\* about to put into domainMap.
RowsOwn ==
    \A i \in Ids :
        /\ Stored(i) => sites[i].domain \in owned[i]
        /\ sites[i].status = "free" => owned[i] = {}
OwnedOK ==
    /\ RowsOwn
    /\ \A s \in todo : Had(s.id, s.domain)
    /\ \A t \in Threads : Owns(pc[t], site[t])
    /\ RoutedToOwner

\* A certificate that AddOrUpdateSite has added stays until its entry is in
\* domainMap, unless it is overtaken.
CertificatesOK ==
    /\ HTTPSEntriesHaveCertificates
    /\ \A t \in Threads : pc[t] = "publish" /\ useHTTPS[t] =>
          certificates[site[t].domain] # None \/ site[t].domain \in overtaken

\* What a round no request overlaps has in hand are rows of the table, ...
InFlight(s) == pc[Monitor] \in {"load", "publish"} /\ site[Monitor] = s
RoundOK ==
    quiet =>
        /\ \A h \in Handlers : pc[h] = "idle"
        /\ pc[Monitor] \in {"idle", "loop", "load", "publish"}
        /\ pc[Monitor] = "idle" => todo = {}
        /\ \A s \in todo : s = sites[s.id]
        /\ pc[Monitor] \in {"load", "publish"} => site[Monitor] = sites[site[Monitor].id]
        /\ pc[Monitor] = "publish" =>
              IF useHTTPS[Monitor]
              THEN /\ Usable(site[Monitor].cert)
                   /\ certificates[site[Monitor].domain] = site[Monitor].cert
              ELSE Usable(site[Monitor].cert) => site[Monitor].domain \in unread
\* ... and every other active site is served, as far as its certificate could be read.
Served(s) == \/ ServedAs(s, Usable(s.cert))
             \/ s.domain \in unread /\ ServedAs(s, FALSE)
ServedOK ==
    quiet => \A i \in Ids : Deployable(sites[i]) =>
        sites[i] \in todo \/ InFlight(sites[i]) \/ Served(sites[i])

IInv ==
    /\ TypeOK /\ ProxyMutexOK /\ DomainsUnique /\ OwnedOK
    /\ CertificatesOK /\ RoundOK /\ ServedOK

-----------------------------------------------------------------------------
(* Records.                                                                *)

\* The fields of a site.
LEMMA SiteFacts ==
  ASSUME NEW s \in Site
  PROVE  /\ s \in InHand
         /\ s.id \in Ids /\ s.status \in Statuses /\ s.domain \in Domains
         /\ s.target \in Targets /\ s.waf \in BOOLEAN /\ s.cert \in Certs \cup {None}
  BY DEF Site, Rows, InHand

\* A toggle of a site is the site with one field changed.
LEMMA SiteUpdates ==
  ASSUME NEW s \in Site, NEW st \in Statuses, NEW b \in BOOLEAN
  PROVE  /\ [s EXCEPT !.status = st] \in Site /\ [s EXCEPT !.status = st].id = s.id
         /\ [s EXCEPT !.status = st].domain = s.domain
         /\ [s EXCEPT !.status = st].cert = s.cert
         /\ [s EXCEPT !.status = st].status = st
         /\ [s EXCEPT !.waf = b] \in Site /\ [s EXCEPT !.waf = b].id = s.id
         /\ [s EXCEPT !.waf = b].domain = s.domain
         /\ [s EXCEPT !.waf = b].status = s.status
         /\ [s EXCEPT !.waf = b].cert = s.cert
  BY DEF Site, Rows

\* UpdateSite's edit of a site is a site.
LEMMA SiteEdited ==
  ASSUME NEW s \in Site, NEW d \in Domains, NEW target \in Targets,
         NEW st \in Statuses, NEW c \in Certs \cup {None}
  PROVE  [s EXCEPT !.domain = d, !.target = target, !.status = st, !.cert = c] \in Site
  BY DEF Site, Rows

\* The row CreateSite inserts is the site it built, with its id.
LEMMA NewSite ==
  ASSUME NEW s \in Rows({None}), NEW i \in Ids
  PROVE  /\ s \in InHand
         /\ [s EXCEPT !.id = i] \in Site /\ [s EXCEPT !.id = i].id = i
         /\ [s EXCEPT !.id = i].domain = s.domain
         /\ s.domain \in Domains /\ s.status \in Statuses
  BY DEF Site, Rows, InHand

\* A row that is not there is no site.
LEMMA AbsentSite ==
  ASSUME NEW i \in Ids \cup {None}, NEW st \in {"free", "deleted"}
  PROVE  /\ NoSite(i, "free") \in InHand
         /\ NoSite(i, st).id = i /\ NoSite(i, st).status = st /\ st \notin Statuses
  BY DEF NoSite, InHand, Statuses

\* DeleteCertificate keeps the certificate's id where a site keeps its own.
LEMMA HandCert ==
  ASSUME NEW s \in InHand, NEW c \in Certs
  PROVE  [s EXCEPT !.cert = c] \in InHand /\ [s EXCEPT !.cert = c].cert = c
  BY DEF InHand

\* A row that is there is a site; what Init lets the table hold is typed.
LEMMA StoredSite ==
  ASSUME TablesOK, NEW i \in Ids, Stored(i)
  PROVE  sites[i] \in Site /\ sites[i].id = i
  <1>1. sites[i] \in Site \cup {NoSite(j, st) : j \in Ids, st \in {"free", "deleted"}}
    BY DEF TablesOK
  <1>2. ASSUME NEW j \in Ids, NEW st \in {"free", "deleted"}, sites[i] = NoSite(j, st)
        PROVE  FALSE
    BY <1>2, AbsentSite DEF Stored
  <1>. QED
    BY <1>1, <1>2 DEF TablesOK

\* One row changes.
LEMMA TablesStep ==
  ASSUME TablesOK, NEW i \in Ids, UNCHANGED certRows, NEW s,
         s \in Site \/ s = NoSite(i, "deleted"), s.id = i,
         sites' = [sites EXCEPT ![i] = s]
  PROVE  TablesOK'
  <1>1. s \in Site \cup {NoSite(j, st) : j \in Ids, st \in {"free", "deleted"}}
    OBVIOUS
  <1>. QED
    BY <1>1 DEF TablesOK

\* AddCertificate goes on with the certificate it has found, or without one.
LEMMA CertificateAdded ==
  ASSUME NEW t \in Threads, AddCertificate(t), site[t].target \notin Unparsable,
         useHTTPS \in [Threads -> BOOLEAN]
  PROVE  \E found \in BOOLEAN :
            /\ found => Usable(site[t].cert) /\ site[t].cert # None
            /\ useHTTPS' = [useHTTPS EXCEPT ![t] = found] /\ useHTTPS'[t] = found
            /\ certificates' = IF found THEN [certificates EXCEPT ![site[t].domain] = site[t].cert]
                               ELSE certificates
            /\ overtaken' = IF found THEN overtaken \ {site[t].domain} ELSE overtaken
            /\ unread' = IF quiet /\ Usable(site[t].cert) /\ ~found
                         THEN unread \cup {site[t].domain} ELSE unread
            /\ pc' = [pc EXCEPT ![t] = "publish"]
            /\ UNCHANGED <<proxyMutex, site, owed>>
  <1>1. PICK found \in CertificateFound(site[t].cert) :
           /\ useHTTPS' = [useHTTPS EXCEPT ![t] = found]
           /\ certificates' = IF found THEN [certificates EXCEPT ![site[t].domain] = site[t].cert]
                              ELSE certificates
           /\ overtaken' = IF found THEN overtaken \ {site[t].domain} ELSE overtaken
           /\ unread' = IF quiet /\ Usable(site[t].cert) /\ ~found
                        THEN unread \cup {site[t].domain} ELSE unread
    BY DEF AddCertificate
  <1>2. found \in BOOLEAN /\ (found => Usable(site[t].cert) /\ site[t].cert # None)
    BY <1>1 DEF CertificateFound, Usable
  <1>3. pc' = [pc EXCEPT ![t] = "publish"] /\ UNCHANGED <<proxyMutex, site, owed>>
    BY DEF AddCertificate, Goto
  <1>. QED
    BY <1>1, <1>2, <1>3

\* Every write leaves rows in the tables.
LEMMA NextTablesOK ==
  ASSUME IInv, Next
  PROVE  TablesOK'
  <1> USE SiteAssumption DEF SiteAssumption, IInv, TypeOK, tables, maps, loop, history, Goto, Done, Threads
  <1>1. ASSUME NEW h \in Handlers, CreateSite(h) PROVE TablesOK'
    BY <1>1 DEF CreateSite, Arrive, TablesOK
  <1>2. ASSUME NEW h \in Handlers, NEW i \in Ids, UpdateSite(h, i) PROVE TablesOK'
    BY <1>2 DEF UpdateSite, Arrive, TablesOK
  <1>3. ASSUME NEW h \in Handlers, NEW i \in Ids, DeleteSite(h, i) PROVE TablesOK'
    BY <1>3 DEF DeleteSite, Arrive, TablesOK
  <1>4. ASSUME NEW h \in Handlers, NEW i \in Ids, ToggleSiteStatus(h, i) PROVE TablesOK'
    BY <1>4 DEF ToggleSiteStatus, Arrive, TablesOK
  <1>5. ASSUME NEW h \in Handlers, NEW i \in Ids, ToggleWAF(h, i) PROVE TablesOK'
    BY <1>5 DEF ToggleWAF, Arrive, TablesOK
  <1>6. ASSUME NEW h \in Handlers, NEW c \in Certs, UploadCertificate(h, c) PROVE TablesOK'
    BY <1>6 DEF UploadCertificate, TablesOK
  <1>7. ASSUME NEW h \in Handlers, NEW c \in Certs, DeleteCertificate(h, c) PROVE TablesOK'
    BY <1>7 DEF DeleteCertificate, Arrive, TablesOK
  <1>8. ASSUME NEW h \in Handlers, InsertSite(h) PROVE TablesOK'
    <2>1. CASE UNCHANGED sites
      BY <2>1, <1>8 DEF InsertSite, TablesOK
    <2>2. ASSUME NEW i \in Ids, sites' = [sites EXCEPT ![i] = [site[h] EXCEPT !.id = i]]
          PROVE  TablesOK'
      <3>1. site[h] \in Rows({None})
        BY <1>8 DEF InsertSite, HandOK, Holds
      <3>2. [site[h] EXCEPT !.id = i] \in Site /\ [site[h] EXCEPT !.id = i].id = i
        BY <3>1, NewSite
      <3>3. UNCHANGED certRows
        BY <1>8 DEF InsertSite
      <3>. QED
        BY <2>2, <3>2, <3>3, TablesStep
    <2>. QED
      BY <2>1, <2>2, <1>8 DEF InsertSite
  <1>9. ASSUME NEW h \in Handlers, EditSite(h) PROVE TablesOK'
    BY <1>9 DEF EditSite, TablesOK
  <1>10. ASSUME NEW h \in Handlers, SaveSite(h) PROVE TablesOK'
    <2>1. CASE UNCHANGED sites
      BY <2>1, <1>10 DEF SaveSite, TablesOK
    <2>2. CASE sites' = [sites EXCEPT ![site[h].id] = site[h]]
      <3>1. site[h] \in Site
        BY <1>10 DEF SaveSite, HandOK, Holds, SiteSteps
      <3>2. site[h].id \in Ids /\ UNCHANGED certRows
        BY <3>1, <1>10, SiteFacts DEF SaveSite
      <3>. QED
        BY <2>2, <3>1, <3>2, TablesStep
    <2>. QED
      BY <2>1, <2>2, <1>10 DEF SaveSite
  <1>11. ASSUME NEW h \in Handlers, SetStatus(h) PROVE TablesOK'
    <2>1. CASE UNCHANGED sites
      BY <2>1, <1>11 DEF SetStatus, TablesOK
    <2>2. CASE Stored(site[h].id) /\ sites' = [sites EXCEPT ![site[h].id].status = site[h].status]
      <3>. DEFINE i == site[h].id
      <3>1. site[h] \in Site
        BY <1>11 DEF SetStatus, HandOK, Holds, SiteSteps
      <3>2. i \in Ids /\ site[h].status \in Statuses /\ site[h].waf \in BOOLEAN
        BY <3>1, SiteFacts
      <3>3. sites[i] \in Site /\ sites[i].id = i
        BY <2>2, <3>2, StoredSite
      <3>4. sites' = [sites EXCEPT ![i] = [sites[i] EXCEPT !.status = site[h].status]]
        BY <2>2
      <3>5. /\ [sites[i] EXCEPT !.status = site[h].status] \in Site
            /\ [sites[i] EXCEPT !.status = site[h].status].id = i
        BY <3>2, <3>3, SiteUpdates
      <3>6. UNCHANGED certRows
        BY <1>11 DEF SetStatus
      <3>. HIDE DEF i
      <3>. QED
        BY <3>2, <3>4, <3>5, <3>6, TablesStep
    <2>. QED
      BY <2>1, <2>2, <1>11 DEF SetStatus
  <1>12. ASSUME NEW h \in Handlers, SetWAF(h) PROVE TablesOK'
    <2>1. CASE UNCHANGED sites
      BY <2>1, <1>12 DEF SetWAF, TablesOK
    <2>2. CASE Stored(site[h].id) /\ sites' = [sites EXCEPT ![site[h].id].waf = site[h].waf]
      <3>. DEFINE i == site[h].id
      <3>1. site[h] \in Site
        BY <1>12 DEF SetWAF, HandOK, Holds, SiteSteps
      <3>2. i \in Ids /\ site[h].status \in Statuses /\ site[h].waf \in BOOLEAN
        BY <3>1, SiteFacts
      <3>3. sites[i] \in Site /\ sites[i].id = i
        BY <2>2, <3>2, StoredSite
      <3>4. sites' = [sites EXCEPT ![i] = [sites[i] EXCEPT !.waf = site[h].waf]]
        BY <2>2
      <3>5. /\ [sites[i] EXCEPT !.waf = site[h].waf] \in Site
            /\ [sites[i] EXCEPT !.waf = site[h].waf].id = i
        BY <3>2, <3>3, SiteUpdates
      <3>6. UNCHANGED certRows
        BY <1>12 DEF SetWAF
      <3>. HIDE DEF i
      <3>. QED
        BY <3>2, <3>4, <3>5, <3>6, TablesStep
    <2>. QED
      BY <2>1, <2>2, <1>12 DEF SetWAF
  <1>13. ASSUME NEW h \in Handlers, DeleteRow(h) PROVE TablesOK'
    <2>1. site[h] \in Site
      BY <1>13 DEF DeleteRow, HandOK, Holds, SiteSteps
    <2>2. NoSite(site[h].id, "deleted").id = site[h].id /\ site[h].id \in Ids
      BY <2>1, SiteFacts, AbsentSite
    <2>3. /\ sites' = [sites EXCEPT ![site[h].id] = NoSite(site[h].id, "deleted")]
          /\ UNCHANGED certRows
      BY <1>13 DEF DeleteRow
    <2>. QED
      BY <2>2, <2>3, TablesStep
  <1>14. ASSUME NEW h \in Handlers, DeleteCertificateRow(h) PROVE TablesOK'
    BY <1>14 DEF DeleteCertificateRow, TablesOK, HandOK, Holds
  <1>15. ASSUME NEW h \in Handlers, WriteFails(h) PROVE TablesOK'
    BY <1>15 DEF WriteFails, TablesOK
  <1>16. ASSUME NEW h \in Handlers, RemoveSiteFromProxy(h) PROVE TablesOK'
    BY <1>16 DEF RemoveSiteFromProxy, TablesOK
  <1>17. ASSUME NEW h \in Handlers, RefreshSite(h) PROVE TablesOK'
    BY <1>17 DEF RefreshSite, TablesOK
  <1>18. ASSUME QueryActiveSites PROVE TablesOK'
    BY <1>18 DEF QueryActiveSites, TablesOK
  <1>19. ASSUME StartFails PROVE TablesOK'
    BY <1>19 DEF StartFails, TablesOK
  <1>20. ASSUME NextSite PROVE TablesOK'
    BY <1>20 DEF NextSite, TablesOK
  <1>21. ASSUME LoopEnds PROVE TablesOK'
    BY <1>21 DEF LoopEnds, TablesOK
  <1>22. ASSUME NEW t \in Threads, AddCertificate(t) PROVE TablesOK'
    BY <1>22 DEF AddCertificate, AddOrUpdateSiteReturns, TablesOK
  <1>23. ASSUME NEW t \in Threads, AddToMap(t) PROVE TablesOK'
    BY <1>23 DEF AddToMap, AddOrUpdateSiteReturns, TablesOK
  <1>. HIDE DEF IInv, TypeOK, tables, maps, loop, history, Goto, Done, Threads
  <1>. QED
    BY <1>1, <1>2, <1>3, <1>4, <1>5, <1>6, <1>7, <1>8, <1>9, <1>10, <1>11, <1>12, <1>13, <1>14, <1>15, <1>16, <1>17, <1>18, <1>19, <1>20, <1>21, <1>22, <1>23,
       SiteAssumption DEF SiteAssumption, Next, MonitorStep, Arrival, HandlerStep, AddOrUpdateSite, Threads

\* What AddOrUpdateSite puts into the maps is an entry under its own domain.
LEMMA NextMapsOK ==
  ASSUME IInv, Next
  PROVE  MapsOK'
  <1> USE SiteAssumption DEF SiteAssumption, IInv, TypeOK, tables, maps, loop, history, Goto, Done, Threads
  <1>1. ASSUME NEW h \in Handlers, CreateSite(h) PROVE MapsOK'
    BY <1>1 DEF CreateSite, Arrive, MapsOK
  <1>2. ASSUME NEW h \in Handlers, NEW i \in Ids, UpdateSite(h, i) PROVE MapsOK'
    BY <1>2 DEF UpdateSite, Arrive, MapsOK
  <1>3. ASSUME NEW h \in Handlers, NEW i \in Ids, DeleteSite(h, i) PROVE MapsOK'
    BY <1>3 DEF DeleteSite, Arrive, MapsOK
  <1>4. ASSUME NEW h \in Handlers, NEW i \in Ids, ToggleSiteStatus(h, i) PROVE MapsOK'
    BY <1>4 DEF ToggleSiteStatus, Arrive, MapsOK
  <1>5. ASSUME NEW h \in Handlers, NEW i \in Ids, ToggleWAF(h, i) PROVE MapsOK'
    BY <1>5 DEF ToggleWAF, Arrive, MapsOK
  <1>6. ASSUME NEW h \in Handlers, NEW c \in Certs, UploadCertificate(h, c) PROVE MapsOK'
    BY <1>6 DEF UploadCertificate, Arrive, MapsOK
  <1>7. ASSUME NEW h \in Handlers, NEW c \in Certs, DeleteCertificate(h, c) PROVE MapsOK'
    BY <1>7 DEF DeleteCertificate, Arrive, MapsOK
  <1>8. ASSUME NEW h \in Handlers, InsertSite(h) PROVE MapsOK'
    BY <1>8 DEF InsertSite, MapsOK
  <1>9. ASSUME NEW h \in Handlers, EditSite(h) PROVE MapsOK'
    BY <1>9 DEF EditSite, MapsOK
  <1>10. ASSUME NEW h \in Handlers, SaveSite(h) PROVE MapsOK'
    BY <1>10 DEF SaveSite, Written, MapsOK
  <1>11. ASSUME NEW h \in Handlers, SetStatus(h) PROVE MapsOK'
    BY <1>11 DEF SetStatus, Written, MapsOK
  <1>12. ASSUME NEW h \in Handlers, SetWAF(h) PROVE MapsOK'
    BY <1>12 DEF SetWAF, Written, MapsOK
  <1>13. ASSUME NEW h \in Handlers, DeleteRow(h) PROVE MapsOK'
    BY <1>13 DEF DeleteRow, MapsOK
  <1>14. ASSUME NEW h \in Handlers, DeleteCertificateRow(h) PROVE MapsOK'
    BY <1>14 DEF DeleteCertificateRow, MapsOK
  <1>15. ASSUME NEW h \in Handlers, WriteFails(h) PROVE MapsOK'
    BY <1>15 DEF WriteFails, MapsOK
  <1>16. ASSUME NEW h \in Handlers, RemoveSiteFromProxy(h) PROVE MapsOK'
    BY <1>16 DEF RemoveSiteFromProxy, MapsOK
  <1>17. ASSUME NEW h \in Handlers, RefreshSite(h) PROVE MapsOK'
    BY <1>17 DEF RefreshSite, MapsOK
  <1>18. ASSUME QueryActiveSites PROVE MapsOK'
    BY <1>18 DEF QueryActiveSites, MapsOK
  <1>19. ASSUME StartFails PROVE MapsOK'
    BY <1>19 DEF StartFails, MapsOK
  <1>20. ASSUME NextSite PROVE MapsOK'
    BY <1>20 DEF NextSite, MapsOK
  <1>21. ASSUME LoopEnds PROVE MapsOK'
    BY <1>21 DEF LoopEnds, MapsOK
  <1>22. ASSUME NEW t \in Threads, AddCertificate(t) PROVE MapsOK'
    <2>1. site[t] \in Site
      BY <1>22 DEF AddCertificate, HandOK, Holds, SiteSteps
    <2>2. site[t].domain \in Domains /\ site[t].cert \in Certs \cup {None}
      BY <2>1, SiteFacts
    <2>3. \/ certificates' = certificates
          \/ certificates' = [certificates EXCEPT ![site[t].domain] = site[t].cert]
      BY <1>22 DEF AddCertificate
    <2>. QED
      BY <2>2, <2>3, <1>22 DEF AddCertificate, MapsOK
  <1>23. ASSUME NEW t \in Threads, AddToMap(t) PROVE MapsOK'
    <2>. DEFINE e == [site |-> site[t], useHTTPS |-> useHTTPS[t]]
    <2>1. site[t] \in Site /\ useHTTPS[t] \in BOOLEAN
      BY <1>23 DEF AddToMap, HandOK, Holds, SiteSteps, ControlOK
    <2>2. site[t].domain \in Domains
      BY <2>1, SiteFacts
    <2>3. e \in Entry /\ e.site = site[t]
      BY <2>1 DEF Entry
    <2>4. domainMap' = [domainMap EXCEPT ![site[t].domain] = e] /\ UNCHANGED certificates
      BY <1>23 DEF AddToMap
    <2>. HIDE DEF e
    <2>. QED
      BY <2>2, <2>3, <2>4 DEF MapsOK
  <1>. HIDE DEF IInv, TypeOK, tables, maps, loop, history, Goto, Done, Threads
  <1>. QED
    BY <1>1, <1>2, <1>3, <1>4, <1>5, <1>6, <1>7, <1>8, <1>9, <1>10, <1>11, <1>12, <1>13, <1>14, <1>15, <1>16, <1>17, <1>18, <1>19, <1>20, <1>21, <1>22, <1>23,
       SiteAssumption DEF SiteAssumption, Next, MonitorStep, Arrival, HandlerStep, AddOrUpdateSite, Threads

\* A request that arrives is counted.
LEMMA ArriveStep ==
  ASSUME ControlOK, NEW h \in Handlers, NEW op, Arrive(h, op),
         NEW step \in HandlerSteps, pc' = [pc EXCEPT ![h] = step]
  PROVE  ControlOK'
  <1>. USE SiteAssumption DEF SiteAssumption, Threads, Arrive, history, loop
  <1>1. requests' \in 0..MaxRequests
    <2>1. requests \in 0..MaxRequests /\ requests < MaxRequests /\ requests' = requests + 1
      BY DEF ControlOK
    <2>2. MaxRequests \in Nat
      OBVIOUS
    <2>. QED
      BY ONLY <2>1, <2>2
  <1>2. /\ pc' \in [Threads -> HandlerSteps \cup MonitorSteps]
        /\ pc'[Monitor] = pc[Monitor]
        /\ \A g \in Handlers : pc'[g] \in HandlerSteps
    BY DEF ControlOK
  <1>. QED
    BY <1>1, <1>2 DEF ControlOK

\* Every goroutine goes from a step to a step.
LEMMA NextControlOK ==
  ASSUME IInv, Next
  PROVE  ControlOK'
  <1> USE SiteAssumption DEF SiteAssumption, IInv, TypeOK, tables, maps, loop, history, Goto, Done, Threads, HandlerSteps, MonitorSteps
  <1>1. ASSUME NEW h \in Handlers, CreateSite(h) PROVE ControlOK'
    <2>. DEFINE step == "insert"
    <2>1. Arrive(h, "create") /\ pc' = [pc EXCEPT ![h] = step] /\ step \in HandlerSteps
      BY <1>1 DEF CreateSite, HandlerSteps
    <2>. HIDE DEF step
    <2>. QED
      BY <2>1, ArriveStep
  <1>2. ASSUME NEW h \in Handlers, NEW i \in Ids, UpdateSite(h, i) PROVE ControlOK'
    <2>. DEFINE step == "edit"
    <2>1. Arrive(h, "update") /\ pc' = [pc EXCEPT ![h] = step] /\ step \in HandlerSteps
      BY <1>2 DEF UpdateSite, HandlerSteps
    <2>. HIDE DEF step
    <2>. QED
      BY <2>1, ArriveStep
  <1>3. ASSUME NEW h \in Handlers, NEW i \in Ids, DeleteSite(h, i) PROVE ControlOK'
    <2>. DEFINE step == "delete"
    <2>1. Arrive(h, "delete") /\ pc' = [pc EXCEPT ![h] = step] /\ step \in HandlerSteps
      BY <1>3 DEF DeleteSite, HandlerSteps
    <2>. HIDE DEF step
    <2>. QED
      BY <2>1, ArriveStep
  <1>4. ASSUME NEW h \in Handlers, NEW i \in Ids, ToggleSiteStatus(h, i) PROVE ControlOK'
    <2>. DEFINE step == IF sites[i].status = "active" THEN "deactivate" ELSE "setstatus"
    <2>1. Arrive(h, "status") /\ pc' = [pc EXCEPT ![h] = step] /\ step \in HandlerSteps
      BY <1>4 DEF ToggleSiteStatus, HandlerSteps
    <2>. HIDE DEF step
    <2>. QED
      BY <2>1, ArriveStep
  <1>5. ASSUME NEW h \in Handlers, NEW i \in Ids, ToggleWAF(h, i) PROVE ControlOK'
    <2>. DEFINE step == "setwaf"
    <2>1. Arrive(h, "waf") /\ pc' = [pc EXCEPT ![h] = step] /\ step \in HandlerSteps
      BY <1>5 DEF ToggleWAF, HandlerSteps
    <2>. HIDE DEF step
    <2>. QED
      BY <2>1, ArriveStep
  <1>6. ASSUME NEW h \in Handlers, NEW c \in Certs, UploadCertificate(h, c) PROVE ControlOK'
    <2>1. Arrive(h, "certificate") /\ pc' = [pc EXCEPT ![h] = "idle"]
      BY <1>6 DEF UploadCertificate, Arrive, ControlOK
    <2>. QED
      BY <2>1, ArriveStep DEF HandlerSteps
  <1>7. ASSUME NEW h \in Handlers, NEW c \in Certs, DeleteCertificate(h, c) PROVE ControlOK'
    <2>. DEFINE step == "delcert"
    <2>1. Arrive(h, "certificate") /\ pc' = [pc EXCEPT ![h] = step] /\ step \in HandlerSteps
      BY <1>7 DEF DeleteCertificate, HandlerSteps
    <2>. HIDE DEF step
    <2>. QED
      BY <2>1, ArriveStep
  <1>8. ASSUME NEW h \in Handlers, InsertSite(h) PROVE ControlOK'
    <2>a. site[h] \in Rows({None})
      BY <1>8 DEF InsertSite, HandOK, Holds
    <2>1. site[h].domain \in Domains
      BY <2>a DEF Rows
    <2>2. owned' \in [Ids -> SUBSET Domains]
      BY <2>1, <1>8 DEF InsertSite, ControlOK
    <2>. QED
      BY <2>2, <1>8 DEF InsertSite, ControlOK
  <1>9. ASSUME NEW h \in Handlers, EditSite(h) PROVE ControlOK'
    BY <1>9 DEF EditSite, ControlOK
  <1>10. ASSUME NEW h \in Handlers, SaveSite(h) PROVE ControlOK'
    <2>1. site[h].domain \in Domains /\ site[h].id \in Ids
      BY <1>10, SiteFacts DEF SaveSite, HandOK, Holds, SiteSteps
    <2>2. \/ owned' = owned
          \/ owned' = [owned EXCEPT ![site[h].id] = @ \cup {site[h].domain}]
      BY <1>10 DEF SaveSite
    <2>3. owned' \in [Ids -> SUBSET Domains]
      BY <2>1, <2>2 DEF ControlOK
    <2>. QED
      BY <2>3, <1>10 DEF SaveSite, Written, ControlOK
  <1>11. ASSUME NEW h \in Handlers, SetStatus(h) PROVE ControlOK'
    BY <1>11 DEF SetStatus, Written, ControlOK
  <1>12. ASSUME NEW h \in Handlers, SetWAF(h) PROVE ControlOK'
    BY <1>12 DEF SetWAF, Written, ControlOK
  <1>13. ASSUME NEW h \in Handlers, DeleteRow(h) PROVE ControlOK'
    BY <1>13 DEF DeleteRow, ControlOK
  <1>14. ASSUME NEW h \in Handlers, DeleteCertificateRow(h) PROVE ControlOK'
    BY <1>14 DEF DeleteCertificateRow, ControlOK
  <1>15. ASSUME NEW h \in Handlers, WriteFails(h) PROVE ControlOK'
    BY <1>15 DEF WriteFails, ControlOK
  <1>16. ASSUME NEW h \in Handlers, RemoveSiteFromProxy(h) PROVE ControlOK'
    <2>1. site[h].domain \in Domains
      BY <1>16, SiteFacts DEF RemoveSiteFromProxy, HandOK, Holds, SiteSteps
    <2>2. overtaken' \subseteq Domains /\ owed' \subseteq Domains
      BY <2>1, <1>16 DEF RemoveSiteFromProxy, ControlOK
    <2>. QED
      BY <2>2, <1>16 DEF RemoveSiteFromProxy, ControlOK
  <1>17. ASSUME NEW h \in Handlers, RefreshSite(h) PROVE ControlOK'
    BY <1>17 DEF RefreshSite, ControlOK
  <1>18. ASSUME QueryActiveSites PROVE ControlOK'
    <2>1. owed' = IF pc[Monitor] = "starting" THEN {s.domain : s \in todo'} ELSE owed
      BY <1>18 DEF QueryActiveSites
    <2>2. todo' \subseteq Site
      BY <1>18, StoredSite DEF QueryActiveSites, Stored, Statuses
    <2>3. owed' \subseteq Domains
      BY <2>1, <2>2, SiteFacts DEF ControlOK
    <2>. QED
      BY <1>18, <2>3 DEF QueryActiveSites, ControlOK
  <1>19. ASSUME StartFails PROVE ControlOK'
    BY <1>19 DEF StartFails, ControlOK
  <1>20. ASSUME NextSite PROVE ControlOK'
    BY <1>20 DEF NextSite, ControlOK
  <1>21. ASSUME LoopEnds PROVE ControlOK'
    BY <1>21 DEF LoopEnds, ControlOK
  <1>22. ASSUME NEW t \in Threads, AddCertificate(t) PROVE ControlOK'
    <2>1. site[t].domain \in Domains
      BY <1>22, SiteFacts DEF AddCertificate, HandOK, Holds, SiteSteps
    <2>2. CASE site[t].target \in Unparsable
      BY <2>2, <1>22 DEF AddCertificate, AddOrUpdateSiteReturns, ControlOK
    <2>3. CASE site[t].target \notin Unparsable
      <3>1. PICK found \in BOOLEAN :
               /\ useHTTPS' = [useHTTPS EXCEPT ![t] = found]
               /\ overtaken' = IF found THEN overtaken \ {site[t].domain} ELSE overtaken
               /\ unread' = IF quiet /\ Usable(site[t].cert) /\ ~found
                            THEN unread \cup {site[t].domain} ELSE unread
               /\ pc' = [pc EXCEPT ![t] = "publish"]
               /\ UNCHANGED <<proxyMutex, owed>>
        BY <1>22, <2>3, CertificateAdded DEF ControlOK
      <3>2. useHTTPS' \in [Threads -> BOOLEAN] /\ overtaken' \subseteq Domains /\ unread' \subseteq Domains
        BY <2>1, <3>1 DEF ControlOK
      <3>3. /\ pc' \in [Threads -> HandlerSteps \cup MonitorSteps]
            /\ pc'[Monitor] \in MonitorSteps
            /\ \A h \in Handlers : pc'[h] \in HandlerSteps
        BY <3>1 DEF ControlOK
      <3>4. UNCHANGED <<requests, quiet, started, owned>>
        BY <1>22 DEF AddCertificate
      <3>. QED
        BY <3>1, <3>2, <3>3, <3>4 DEF ControlOK
    <2>. QED
      BY <2>2, <2>3
  <1>23. ASSUME NEW t \in Threads, AddToMap(t) PROVE ControlOK'
    BY <1>23 DEF AddToMap, AddOrUpdateSiteReturns, ControlOK
  <1>. HIDE DEF IInv, TypeOK, tables, maps, loop, history, Goto, Done, Threads, HandlerSteps, MonitorSteps
  <1>. QED
    BY <1>1, <1>2, <1>3, <1>4, <1>5, <1>6, <1>7, <1>8, <1>9, <1>10, <1>11, <1>12, <1>13, <1>14, <1>15, <1>16, <1>17, <1>18, <1>19, <1>20, <1>21, <1>22, <1>23,
       SiteAssumption DEF SiteAssumption, Next, MonitorStep, Arrival, HandlerStep, AddOrUpdateSite, Threads

\* A goroutine goes on with another site in hand, ...
LEMMA HandStep ==
  ASSUME HandOK, ControlOK, NEW t \in Threads, NEW step, NEW s \in InHand, Holds(step, s),
         site' = [site EXCEPT ![t] = s], pc' = [pc EXCEPT ![t] = step], UNCHANGED todo
  PROVE  HandOK'
  <1>1. site' \in [Threads -> InHand]
    BY DEF HandOK
  <1>2. ASSUME NEW u \in Threads PROVE Holds(pc'[u], site'[u])
    <2>1. CASE u = t
      <3>1. pc'[u] = step /\ site'[u] = s
        BY <2>1 DEF HandOK, ControlOK
      <3>. QED
        BY <3>1
    <2>2. CASE u # t
      <3>1. pc'[u] = pc[u] /\ site'[u] = site[u]
        BY <2>2 DEF HandOK, ControlOK
      <3>. QED
        BY <3>1 DEF HandOK
    <2>. QED
      BY <2>1, <2>2
  <1>3. \A u \in Threads : Holds(pc[u], site[u])'
    BY <1>2 DEF Holds
  <1>. QED
    BY <1>1, <1>3 DEF HandOK

\* ... with the same one, ...
LEMMA GotoStep ==
  ASSUME HandOK, ControlOK, NEW t \in Threads, NEW step, Holds(step, site[t]),
         Goto(t, step), UNCHANGED <<site, todo>>
  PROVE  HandOK'
  <1>1. site' = [site EXCEPT ![t] = site[t]] /\ site[t] \in InHand
    BY DEF HandOK
  <1>. QED
    BY <1>1, HandStep DEF Goto

\* ... with none.
LEMMA DoneStep ==
  ASSUME HandOK, ControlOK, NEW t \in Threads, Done(t), UNCHANGED todo
  PROVE  HandOK'
  <1>1. NoSite(None, "free") \in InHand /\ Holds("idle", NoSite(None, "free"))
    BY AbsentSite DEF Holds, SiteSteps
  <1>. QED
    BY <1>1, HandStep DEF Done, Goto

\* Every goroutine keeps in hand what its next statement needs.
LEMMA NextHandOK ==
  ASSUME IInv, Next
  PROVE  HandOK'
  <1> USE SiteAssumption DEF SiteAssumption, IInv, TypeOK, tables, maps, loop, history, Goto, Done, Threads
  <1>1. ASSUME NEW h \in Handlers, CreateSite(h) PROVE HandOK'
    <2>1. PICK d \in Domains, target \in Targets :
              site' = [site EXCEPT ![h] =
                [id |-> None, status |-> "pending", domain |-> d, target |-> target,
                 waf |-> FALSE, cert |-> None]]
      BY <1>1 DEF CreateSite
    <2>. DEFINE s == [id |-> None, status |-> "pending", domain |-> d, target |-> target,
                      waf |-> FALSE, cert |-> None]
    <2>2. s \in Rows({None})
      BY DEF Rows, Statuses
    <2>3. s \in InHand /\ Holds("insert", s)
      BY <2>2 DEF Rows, InHand, Holds, SiteSteps
    <2>4. site' = [site EXCEPT ![h] = s] /\ pc' = [pc EXCEPT ![h] = "insert"] /\ todo' = todo
      BY <2>1, <1>1 DEF CreateSite, Arrive
    <2>. HIDE DEF s
    <2>. QED
      BY <2>3, <2>4, HandStep
  <1>2. ASSUME NEW h \in Handlers, NEW i \in Ids, UpdateSite(h, i) PROVE HandOK'
    <2>. DEFINE s == sites[i]
    <2>1. s \in InHand /\ Holds("edit", s)
      <3>1. s \in Site
        BY <1>2, StoredSite DEF UpdateSite
      <3>. QED
        BY <3>1, SiteFacts DEF Holds, SiteSteps
    <2>2. site' = [site EXCEPT ![h] = s] /\ pc' = [pc EXCEPT ![h] = "edit"] /\ todo' = todo
      BY <1>2 DEF UpdateSite, Arrive
    <2>. HIDE DEF s
    <2>. QED
      BY <2>1, <2>2, HandStep
  <1>3. ASSUME NEW h \in Handlers, NEW i \in Ids, DeleteSite(h, i) PROVE HandOK'
    <2>. DEFINE s == sites[i]
    <2>1. s \in InHand /\ Holds("delete", s)
      <3>1. s \in Site
        BY <1>3, StoredSite DEF DeleteSite
      <3>. QED
        BY <3>1, SiteFacts DEF Holds, SiteSteps
    <2>2. site' = [site EXCEPT ![h] = s] /\ pc' = [pc EXCEPT ![h] = "delete"] /\ todo' = todo
      BY <1>3 DEF DeleteSite, Arrive
    <2>. HIDE DEF s
    <2>. QED
      BY <2>1, <2>2, HandStep
  <1>4. ASSUME NEW h \in Handlers, NEW i \in Ids, ToggleSiteStatus(h, i) PROVE HandOK'
    <2>. DEFINE on == sites[i].status = "active"
                s == [sites[i] EXCEPT !.status = IF on THEN "inactive" ELSE "active"]
                step == IF on THEN "deactivate" ELSE "setstatus"
    <2>1. s \in InHand /\ Holds(step, s)
      <3>1. sites[i] \in Site
        BY <1>4, StoredSite DEF ToggleSiteStatus
      <3>2. s \in Site
        BY <3>1, SiteUpdates DEF Statuses
      <3>. QED
        BY <3>2, SiteFacts DEF Holds, SiteSteps
    <2>2. site' = [site EXCEPT ![h] = s] /\ pc' = [pc EXCEPT ![h] = step] /\ todo' = todo
      BY <1>4 DEF ToggleSiteStatus, Arrive
    <2>. HIDE DEF s, step
    <2>. QED
      BY <2>1, <2>2, HandStep
  <1>5. ASSUME NEW h \in Handlers, NEW i \in Ids, ToggleWAF(h, i) PROVE HandOK'
    <2>. DEFINE s == [sites[i] EXCEPT !.waf = ~@]
    <2>1. s \in InHand /\ Holds("setwaf", s)
      <3>1. sites[i] \in Site
        BY <1>5, StoredSite DEF ToggleWAF
      <3>2. s \in Site
        BY <3>1, SiteFacts, SiteUpdates
      <3>. QED
        BY <3>2, SiteFacts DEF Holds, SiteSteps
    <2>2. site' = [site EXCEPT ![h] = s] /\ pc' = [pc EXCEPT ![h] = "setwaf"] /\ todo' = todo
      BY <1>5 DEF ToggleWAF, Arrive
    <2>. HIDE DEF s
    <2>. QED
      BY <2>1, <2>2, HandStep
  <1>6. ASSUME NEW h \in Handlers, NEW c \in Certs, UploadCertificate(h, c) PROVE HandOK'
    BY <1>6 DEF UploadCertificate, Arrive, HandOK
  <1>7. ASSUME NEW h \in Handlers, NEW c \in Certs, DeleteCertificate(h, c) PROVE HandOK'
    <2>. DEFINE s == [site[h] EXCEPT !.cert = c]
    <2>1. s \in InHand /\ Holds("delcert", s)
      BY HandCert DEF Holds, HandOK, SiteSteps
    <2>2. site' = [site EXCEPT ![h] = s] /\ pc' = [pc EXCEPT ![h] = "delcert"] /\ todo' = todo
      BY <1>7 DEF DeleteCertificate, Arrive
    <2>. HIDE DEF s
    <2>. QED
      BY <2>1, <2>2, HandStep
  <1>8. ASSUME NEW h \in Handlers, InsertSite(h) PROVE HandOK'
    <2>1. pc' = [pc EXCEPT ![h] = "idle"] /\ site' = [site EXCEPT ![h] = NoSite(None, "free")]
      BY <1>8 DEF InsertSite
    <2>. QED
      BY <2>1, <1>8, DoneStep DEF InsertSite
  <1>9. ASSUME NEW h \in Handlers, EditSite(h) PROVE HandOK'
    <2>1. PICK d \in Domains, target \in Targets, st \in Statuses, c \in Certs \cup {None} :
              site' = [site EXCEPT ![h] =
                [@ EXCEPT !.domain = d, !.target = target, !.status = st, !.cert = c]]
      BY <1>9 DEF EditSite
    <2>. DEFINE s == [site[h] EXCEPT !.domain = d, !.target = target, !.status = st, !.cert = c]
    <2>2. site[h] \in Site
      BY <1>9 DEF EditSite, HandOK, Holds, SiteSteps
    <2>3. s \in Site
      BY <2>2, SiteEdited
    <2>4. s \in InHand /\ Holds("save", s)
      BY <2>3, SiteFacts DEF Holds, SiteSteps
    <2>5. site' = [site EXCEPT ![h] = s] /\ pc' = [pc EXCEPT ![h] = "save"] /\ todo' = todo
      BY <2>1, <1>9 DEF EditSite, HandOK
    <2>. HIDE DEF s
    <2>. QED
      BY <2>4, <2>5, HandStep
  <1>10. ASSUME NEW h \in Handlers, SaveSite(h) PROVE HandOK'
    <2>1. CASE Done(h)
      BY <2>1, <1>10, DoneStep DEF SaveSite
    <2>2. CASE Goto(h, "refresh") /\ UNCHANGED site
      <3>1. site[h] \in Site
        BY <1>10 DEF SaveSite, HandOK, Holds, SiteSteps
      <3>. QED
        BY <3>1, <2>2, <1>10, GotoStep DEF SaveSite, Holds, SiteSteps
    <2>. QED
      BY <2>1, <2>2, <1>10 DEF SaveSite, Written
  <1>11. ASSUME NEW h \in Handlers, SetStatus(h) PROVE HandOK'
    <2>1. CASE Done(h)
      BY <2>1, <1>11, DoneStep DEF SetStatus
    <2>2. CASE Goto(h, "refresh") /\ UNCHANGED site
      <3>1. site[h] \in Site
        BY <1>11 DEF SetStatus, HandOK, Holds, SiteSteps
      <3>. QED
        BY <3>1, <2>2, <1>11, GotoStep DEF SetStatus, Holds, SiteSteps
    <2>. QED
      BY <2>1, <2>2, <1>11 DEF SetStatus, Written
  <1>12. ASSUME NEW h \in Handlers, SetWAF(h) PROVE HandOK'
    <2>1. CASE Done(h)
      BY <2>1, <1>12, DoneStep DEF SetWAF
    <2>2. CASE Goto(h, "refresh") /\ UNCHANGED site
      <3>1. site[h] \in Site
        BY <1>12 DEF SetWAF, HandOK, Holds, SiteSteps
      <3>. QED
        BY <3>1, <2>2, <1>12, GotoStep DEF SetWAF, Holds, SiteSteps
    <2>. QED
      BY <2>1, <2>2, <1>12 DEF SetWAF, Written
  <1>13. ASSUME NEW h \in Handlers, DeleteRow(h) PROVE HandOK'
    <2>1. site[h] \in Site
      BY <1>13 DEF DeleteRow, HandOK, Holds, SiteSteps
    <2>. QED
      BY <2>1, <1>13, GotoStep DEF DeleteRow, Holds, SiteSteps
  <1>14. ASSUME NEW h \in Handlers, DeleteCertificateRow(h) PROVE HandOK'
    <2>1. pc' = [pc EXCEPT ![h] = "idle"] /\ site' = [site EXCEPT ![h] = NoSite(None, "free")]
      BY <1>14 DEF DeleteCertificateRow
    <2>. QED
      BY <2>1, <1>14, DoneStep DEF DeleteCertificateRow
  <1>15. ASSUME NEW h \in Handlers, WriteFails(h) PROVE HandOK'
    <2>1. pc' = [pc EXCEPT ![h] = "idle"] /\ site' = [site EXCEPT ![h] = NoSite(None, "free")]
      BY <1>15 DEF WriteFails
    <2>. QED
      BY <2>1, <1>15, DoneStep DEF WriteFails
  <1>16. ASSUME NEW h \in Handlers, RemoveSiteFromProxy(h) PROVE HandOK'
    <2>1. CASE Done(h)
      BY <2>1, <1>16, DoneStep DEF RemoveSiteFromProxy
    <2>2. CASE Goto(h, "setstatus") /\ UNCHANGED site
      <3>1. site[h] \in Site
        BY <1>16 DEF RemoveSiteFromProxy, HandOK, Holds, SiteSteps
      <3>. QED
        BY <3>1, <2>2, <1>16, GotoStep DEF RemoveSiteFromProxy, Holds, SiteSteps
    <2>. QED
      BY <2>1, <2>2, <1>16 DEF RemoveSiteFromProxy
  <1>17. ASSUME NEW h \in Handlers, RefreshSite(h) PROVE HandOK'
    <2>1. site[h] \in Site
      BY <1>17 DEF RefreshSite, HandOK, Holds, SiteSteps
    <2>. QED
      BY <2>1, <1>17, GotoStep DEF RefreshSite, Holds, SiteSteps
  <1>18. ASSUME QueryActiveSites PROVE HandOK'
    <2>1. todo' \subseteq Site
      BY <1>18, StoredSite DEF QueryActiveSites, Stored, Statuses
    <2>2. \A t \in Threads : Holds(pc'[t], site[t])
      BY <1>18 DEF QueryActiveSites, Holds, SiteSteps, HandOK, ControlOK
    <2>. QED
      BY <2>1, <2>2, <1>18 DEF QueryActiveSites, HandOK
  <1>19. ASSUME StartFails PROVE HandOK'
    <2>1. \A t \in Threads : Holds(pc'[t], site[t])
      BY <1>19 DEF StartFails, Holds, SiteSteps, HandOK, ControlOK
    <2>. QED
      BY <2>1, <1>19 DEF StartFails, HandOK
  <1>20. ASSUME NextSite PROVE HandOK'
    <2>1. PICK s \in todo : site' = [site EXCEPT ![Monitor] = s] /\ todo' = todo \ {s}
      BY <1>20 DEF NextSite
    <2>2. s \in Site /\ s \in InHand /\ Holds("load", s)
      BY SiteFacts DEF HandOK, Holds, SiteSteps
    <2>3. todo' \subseteq Site
      BY <2>1 DEF HandOK
    <2>. QED
      BY <2>1, <2>2, <2>3, <1>20 DEF NextSite, HandOK, ControlOK
  <1>21. ASSUME LoopEnds PROVE HandOK'
    <2>1. \A t \in Threads : Holds(pc'[t], site[t])
      BY <1>21 DEF LoopEnds, Holds, SiteSteps, HandOK, ControlOK
    <2>. QED
      BY <2>1, <1>21 DEF LoopEnds, HandOK
  <1>22. ASSUME NEW t \in Threads, AddCertificate(t) PROVE HandOK'
    <2>1. CASE Goto(t, "loop") /\ site' = [site EXCEPT ![t] = NoSite(None, "free")]
      <3>1. NoSite(None, "free") \in InHand /\ Holds("loop", NoSite(None, "free"))
        BY AbsentSite DEF Holds, SiteSteps
      <3>. QED
        BY <2>1, <3>1, <1>22, HandStep DEF AddToMap, AddCertificate
    <2>2. CASE Done(t)
      BY <2>2, <1>22, DoneStep DEF AddToMap, AddCertificate
    <2>3. CASE Goto(t, "publish") /\ UNCHANGED site
      <3>1. site[t] \in Site
        BY <1>22 DEF AddCertificate, HandOK, Holds, SiteSteps
      <3>. QED
        BY <3>1, <2>3, <1>22, GotoStep DEF AddCertificate, Holds, SiteSteps
    <2>. QED
      BY <2>1, <2>2, <2>3, <1>22 DEF AddCertificate, AddOrUpdateSiteReturns
  <1>23. ASSUME NEW t \in Threads, AddToMap(t) PROVE HandOK'
    <2>1. CASE Goto(t, "loop") /\ site' = [site EXCEPT ![t] = NoSite(None, "free")]
      <3>1. NoSite(None, "free") \in InHand /\ Holds("loop", NoSite(None, "free"))
        BY AbsentSite DEF Holds, SiteSteps
      <3>. QED
        BY <2>1, <3>1, <1>23, HandStep DEF AddToMap, AddCertificate
    <2>2. CASE Done(t)
      BY <2>2, <1>23, DoneStep DEF AddToMap, AddCertificate
    <2>. QED
      BY <2>1, <2>2, <1>23 DEF AddToMap, AddOrUpdateSiteReturns
  <1>. HIDE DEF IInv, TypeOK, tables, maps, loop, history, Goto, Done, Threads
  <1>. QED
    BY <1>1, <1>2, <1>3, <1>4, <1>5, <1>6, <1>7, <1>8, <1>9, <1>10, <1>11, <1>12, <1>13, <1>14, <1>15, <1>16, <1>17, <1>18, <1>19, <1>20, <1>21, <1>22, <1>23,
       SiteAssumption DEF SiteAssumption, Next, MonitorStep, Arrival, HandlerStep, AddOrUpdateSite, Threads

\* proxyMutex is passed on by the handler that holds it only.
LEMMA NextProxyMutexOK ==
  ASSUME IInv, Next
  PROVE  ProxyMutexOK'
  <1> USE SiteAssumption DEF SiteAssumption, IInv, TypeOK, tables, maps, loop, history, Goto, Done, Threads
  <1>1. ASSUME NEW h \in Handlers, CreateSite(h) PROVE ProxyMutexOK'
    BY <1>1 DEF CreateSite, Arrive, ControlOK, ProxyMutexOK
  <1>2. ASSUME NEW h \in Handlers, NEW i \in Ids, UpdateSite(h, i) PROVE ProxyMutexOK'
    BY <1>2 DEF UpdateSite, Arrive, ControlOK, ProxyMutexOK
  <1>3. ASSUME NEW h \in Handlers, NEW i \in Ids, DeleteSite(h, i) PROVE ProxyMutexOK'
    BY <1>3 DEF DeleteSite, Arrive, ControlOK, ProxyMutexOK
  <1>4. ASSUME NEW h \in Handlers, NEW i \in Ids, ToggleSiteStatus(h, i) PROVE ProxyMutexOK'
    BY <1>4 DEF ToggleSiteStatus, Arrive, ControlOK, ProxyMutexOK
  <1>5. ASSUME NEW h \in Handlers, NEW i \in Ids, ToggleWAF(h, i) PROVE ProxyMutexOK'
    BY <1>5 DEF ToggleWAF, Arrive, ControlOK, ProxyMutexOK
  <1>6. ASSUME NEW h \in Handlers, NEW c \in Certs, UploadCertificate(h, c) PROVE ProxyMutexOK'
    BY <1>6 DEF UploadCertificate, Arrive, ControlOK, ProxyMutexOK
  <1>7. ASSUME NEW h \in Handlers, NEW c \in Certs, DeleteCertificate(h, c) PROVE ProxyMutexOK'
    BY <1>7 DEF DeleteCertificate, Arrive, ControlOK, ProxyMutexOK
  <1>8. ASSUME NEW h \in Handlers, InsertSite(h) PROVE ProxyMutexOK'
    BY <1>8 DEF InsertSite, ControlOK, ProxyMutexOK
  <1>9. ASSUME NEW h \in Handlers, EditSite(h) PROVE ProxyMutexOK'
    BY <1>9 DEF EditSite, ControlOK, ProxyMutexOK
  <1>10. ASSUME NEW h \in Handlers, SaveSite(h) PROVE ProxyMutexOK'
    BY <1>10 DEF SaveSite, Written, ControlOK, ProxyMutexOK
  <1>11. ASSUME NEW h \in Handlers, SetStatus(h) PROVE ProxyMutexOK'
    BY <1>11 DEF SetStatus, Written, ControlOK, ProxyMutexOK
  <1>12. ASSUME NEW h \in Handlers, SetWAF(h) PROVE ProxyMutexOK'
    BY <1>12 DEF SetWAF, Written, ControlOK, ProxyMutexOK
  <1>13. ASSUME NEW h \in Handlers, DeleteRow(h) PROVE ProxyMutexOK'
    BY <1>13 DEF DeleteRow, ControlOK, ProxyMutexOK
  <1>14. ASSUME NEW h \in Handlers, DeleteCertificateRow(h) PROVE ProxyMutexOK'
    BY <1>14 DEF DeleteCertificateRow, ControlOK, ProxyMutexOK
  <1>15. ASSUME NEW h \in Handlers, WriteFails(h) PROVE ProxyMutexOK'
    BY <1>15 DEF WriteFails, ControlOK, ProxyMutexOK
  <1>16. ASSUME NEW h \in Handlers, RemoveSiteFromProxy(h) PROVE ProxyMutexOK'
    BY <1>16 DEF RemoveSiteFromProxy, ControlOK, ProxyMutexOK
  <1>17. ASSUME NEW h \in Handlers, RefreshSite(h) PROVE ProxyMutexOK'
    BY <1>17 DEF RefreshSite, ControlOK, ProxyMutexOK
  <1>18. ASSUME QueryActiveSites PROVE ProxyMutexOK'
    BY <1>18 DEF QueryActiveSites, ControlOK, ProxyMutexOK
  <1>19. ASSUME StartFails PROVE ProxyMutexOK'
    BY <1>19 DEF StartFails, ControlOK, ProxyMutexOK
  <1>20. ASSUME NextSite PROVE ProxyMutexOK'
    BY <1>20 DEF NextSite, ControlOK, ProxyMutexOK
  <1>21. ASSUME LoopEnds PROVE ProxyMutexOK'
    BY <1>21 DEF LoopEnds, ControlOK, ProxyMutexOK
  <1>22. ASSUME NEW t \in Threads, AddCertificate(t) PROVE ProxyMutexOK'
    BY <1>22 DEF AddCertificate, AddOrUpdateSiteReturns, ControlOK, ProxyMutexOK
  <1>23. ASSUME NEW t \in Threads, AddToMap(t) PROVE ProxyMutexOK'
    BY <1>23 DEF AddToMap, AddOrUpdateSiteReturns, ControlOK, ProxyMutexOK
  <1>. HIDE DEF IInv, TypeOK, tables, maps, loop, history, Goto, Done, Threads
  <1>. QED
    BY <1>1, <1>2, <1>3, <1>4, <1>5, <1>6, <1>7, <1>8, <1>9, <1>10, <1>11, <1>12, <1>13, <1>14, <1>15, <1>16, <1>17, <1>18, <1>19, <1>20, <1>21, <1>22, <1>23,
       SiteAssumption DEF SiteAssumption, Next, MonitorStep, Arrival, HandlerStep, AddOrUpdateSite, Threads

\* A row whose domain no other row has may be written.
LEMMA DomainStep ==
  ASSUME TablesOK, DomainsUnique, NEW i \in Ids, NEW s,
         sites' = [sites EXCEPT ![i] = s], ~DomainTaken(s.domain, i)
  PROVE  DomainsUnique'
  <1>1. \A j \in Ids : sites'[j] = IF j = i THEN s ELSE sites[j]
    BY DEF TablesOK
  <1>2. \A j \in Ids \ {i} : Stored(j)' => Stored(j) /\ sites[j].domain # s.domain
    BY <1>1 DEF DomainTaken, Stored
  <1>. QED
    BY <1>1, <1>2 DEF DomainsUnique, Stored

\* Every write is of such a row: the constraint refuses the others.
LEMMA NextDomainsUnique ==
  ASSUME IInv, Next
  PROVE  DomainsUnique'
  <1> USE SiteAssumption DEF SiteAssumption, IInv, TypeOK, tables, maps, loop, history, Goto, Done, Threads
  <1>1. ASSUME NEW h \in Handlers, CreateSite(h) PROVE DomainsUnique'
    BY <1>1 DEF CreateSite, Arrive, DomainsUnique, Stored
  <1>2. ASSUME NEW h \in Handlers, NEW i \in Ids, UpdateSite(h, i) PROVE DomainsUnique'
    BY <1>2 DEF UpdateSite, Arrive, DomainsUnique, Stored
  <1>3. ASSUME NEW h \in Handlers, NEW i \in Ids, DeleteSite(h, i) PROVE DomainsUnique'
    BY <1>3 DEF DeleteSite, Arrive, DomainsUnique, Stored
  <1>4. ASSUME NEW h \in Handlers, NEW i \in Ids, ToggleSiteStatus(h, i) PROVE DomainsUnique'
    BY <1>4 DEF ToggleSiteStatus, Arrive, DomainsUnique, Stored
  <1>5. ASSUME NEW h \in Handlers, NEW i \in Ids, ToggleWAF(h, i) PROVE DomainsUnique'
    BY <1>5 DEF ToggleWAF, Arrive, DomainsUnique, Stored
  <1>6. ASSUME NEW h \in Handlers, NEW c \in Certs, UploadCertificate(h, c) PROVE DomainsUnique'
    BY <1>6 DEF UploadCertificate, Arrive, DomainsUnique, Stored
  <1>7. ASSUME NEW h \in Handlers, NEW c \in Certs, DeleteCertificate(h, c) PROVE DomainsUnique'
    BY <1>7 DEF DeleteCertificate, Arrive, DomainsUnique, Stored
  <1>8. ASSUME NEW h \in Handlers, InsertSite(h) PROVE DomainsUnique'
    <2>1. CASE UNCHANGED sites
      BY <2>1 DEF DomainsUnique, Stored
    <2>2. ASSUME NEW i \in Ids, sites' = [sites EXCEPT ![i] = [site[h] EXCEPT !.id = i]],
                 ~DomainTaken(site[h].domain, None)
          PROVE  DomainsUnique'
      <3>1. site[h] \in Rows({None})
        BY <1>8 DEF InsertSite, HandOK, Holds
      <3>2. [site[h] EXCEPT !.id = i].domain = site[h].domain
        BY <3>1, NewSite
      <3>3. ~DomainTaken(site[h].domain, i)
        BY <2>2 DEF DomainTaken
      <3>. QED
        BY <2>2, <3>2, <3>3, DomainStep
    <2>. QED
      BY <2>1, <2>2, <1>8 DEF InsertSite
  <1>9. ASSUME NEW h \in Handlers, EditSite(h) PROVE DomainsUnique'
    BY <1>9 DEF EditSite, DomainsUnique, Stored
  <1>10. ASSUME NEW h \in Handlers, SaveSite(h) PROVE DomainsUnique'
    <2>1. CASE UNCHANGED sites
      BY <2>1 DEF DomainsUnique, Stored
    <2>2. CASE sites' = [sites EXCEPT ![site[h].id] = site[h]]
               /\ ~DomainTaken(site[h].domain, site[h].id)
      <3>1. site[h] \in Site
        BY <1>10 DEF SaveSite, HandOK, Holds, SiteSteps
      <3>2. site[h].id \in Ids
        BY <3>1, SiteFacts
      <3>. QED
        BY <2>2, <3>2, DomainStep
    <2>. QED
      BY <2>1, <2>2, <1>10 DEF SaveSite
  <1>11. ASSUME NEW h \in Handlers, SetStatus(h) PROVE DomainsUnique'
    <2>1. CASE UNCHANGED sites
      BY <2>1 DEF DomainsUnique, Stored
    <2>2. CASE Stored(site[h].id) /\ sites' = [sites EXCEPT ![site[h].id].status = site[h].status]
      <3>. DEFINE i == site[h].id
      <3>1. site[h] \in Site
        BY <1>11 DEF SetStatus, HandOK, Holds, SiteSteps
      <3>2. i \in Ids /\ site[h].status \in Statuses /\ site[h].waf \in BOOLEAN
        BY <3>1, SiteFacts
      <3>3. sites[i] \in Site
        BY <2>2, <3>2, StoredSite
      <3>4. sites' = [sites EXCEPT ![i] = [sites[i] EXCEPT !.status = site[h].status]]
        BY <2>2
      <3>5. [sites[i] EXCEPT !.status = site[h].status].domain = sites[i].domain
        BY <3>2, <3>3, SiteUpdates
      <3>6. ~DomainTaken(sites[i].domain, i)
        BY <2>2, <3>2 DEF DomainsUnique, DomainTaken
      <3>. HIDE DEF i
      <3>. QED
        BY <3>2, <3>4, <3>5, <3>6, DomainStep
    <2>. QED
      BY <2>1, <2>2, <1>11 DEF SetStatus
  <1>12. ASSUME NEW h \in Handlers, SetWAF(h) PROVE DomainsUnique'
    <2>1. CASE UNCHANGED sites
      BY <2>1 DEF DomainsUnique, Stored
    <2>2. CASE Stored(site[h].id) /\ sites' = [sites EXCEPT ![site[h].id].waf = site[h].waf]
      <3>. DEFINE i == site[h].id
      <3>1. site[h] \in Site
        BY <1>12 DEF SetWAF, HandOK, Holds, SiteSteps
      <3>2. i \in Ids /\ site[h].status \in Statuses /\ site[h].waf \in BOOLEAN
        BY <3>1, SiteFacts
      <3>3. sites[i] \in Site
        BY <2>2, <3>2, StoredSite
      <3>4. sites' = [sites EXCEPT ![i] = [sites[i] EXCEPT !.waf = site[h].waf]]
        BY <2>2
      <3>5. [sites[i] EXCEPT !.waf = site[h].waf].domain = sites[i].domain
        BY <3>2, <3>3, SiteUpdates
      <3>6. ~DomainTaken(sites[i].domain, i)
        BY <2>2, <3>2 DEF DomainsUnique, DomainTaken
      <3>. HIDE DEF i
      <3>. QED
        BY <3>2, <3>4, <3>5, <3>6, DomainStep
    <2>. QED
      BY <2>1, <2>2, <1>12 DEF SetWAF
  <1>13. ASSUME NEW h \in Handlers, DeleteRow(h) PROVE DomainsUnique'
    <2>1. site[h] \in Site
      BY <1>13 DEF DeleteRow, HandOK, Holds, SiteSteps
    <2>2. site[h].id \in Ids
      BY <2>1, SiteFacts
    <2>3. NoSite(site[h].id, "deleted").status \notin Statuses
      BY <2>2, AbsentSite
    <2>4. \A j \in Ids : /\ Stored(j)' => Stored(j) /\ sites'[j] = sites[j]
      BY <2>2, <2>3, <1>13 DEF DeleteRow, Stored, TablesOK
    <2>. QED
      BY <2>4 DEF DomainsUnique
  <1>14. ASSUME NEW h \in Handlers, DeleteCertificateRow(h) PROVE DomainsUnique'
    BY <1>14 DEF DeleteCertificateRow, DomainsUnique, Stored
  <1>15. ASSUME NEW h \in Handlers, WriteFails(h) PROVE DomainsUnique'
    BY <1>15 DEF WriteFails, DomainsUnique, Stored
  <1>16. ASSUME NEW h \in Handlers, RemoveSiteFromProxy(h) PROVE DomainsUnique'
    BY <1>16 DEF RemoveSiteFromProxy, DomainsUnique, Stored
  <1>17. ASSUME NEW h \in Handlers, RefreshSite(h) PROVE DomainsUnique'
    BY <1>17 DEF RefreshSite, DomainsUnique, Stored
  <1>18. ASSUME QueryActiveSites PROVE DomainsUnique'
    BY <1>18 DEF QueryActiveSites, DomainsUnique, Stored
  <1>19. ASSUME StartFails PROVE DomainsUnique'
    BY <1>19 DEF StartFails, DomainsUnique, Stored
  <1>20. ASSUME NextSite PROVE DomainsUnique'
    BY <1>20 DEF NextSite, DomainsUnique, Stored
  <1>21. ASSUME LoopEnds PROVE DomainsUnique'
    BY <1>21 DEF LoopEnds, DomainsUnique, Stored
  <1>22. ASSUME NEW t \in Threads, AddCertificate(t) PROVE DomainsUnique'
    BY <1>22 DEF AddCertificate, AddOrUpdateSiteReturns, DomainsUnique, Stored
  <1>23. ASSUME NEW t \in Threads, AddToMap(t) PROVE DomainsUnique'
    BY <1>23 DEF AddToMap, AddOrUpdateSiteReturns, DomainsUnique, Stored
  <1>. HIDE DEF IInv, TypeOK, tables, maps, loop, history, Goto, Done, Threads
  <1>. QED
    BY <1>1, <1>2, <1>3, <1>4, <1>5, <1>6, <1>7, <1>8, <1>9, <1>10, <1>11, <1>12, <1>13, <1>14, <1>15, <1>16, <1>17, <1>18, <1>19, <1>20, <1>21, <1>22, <1>23,
       SiteAssumption DEF SiteAssumption, Next, MonitorStep, Arrival, HandlerStep, AddOrUpdateSite, Threads

-----------------------------------------------------------------------------
(* Which domains a row has had.                                            *)

\* A step takes no domain from a row that has had it, and frees no row.
HadNext(i, d) == d \in owned'[i] \/ sites'[i].status = "deleted"
OwnersKeep ==
    \A i \in Ids : /\ sites[i].status # "free" => sites'[i].status # "free"
                   /\ \A d \in Domains : Had(i, d) => HadNext(i, d)
OwnsNext(step, s) ==
    /\ step \in {"edit", "save"} => sites'[s.id].status # "free"
    /\ step \in PublishingSteps => HadNext(s.id, s.domain)

\* One row is written, with what it owns.
LEMMA RowOwns ==
  ASSUME TablesOK, ControlOK, RowsOwn, NEW i \in Ids, NEW s, NEW o,
         sites' = [sites EXCEPT ![i] = s], owned' = [owned EXCEPT ![i] = o],
         s.status # "free", s.status \in Statuses => s.domain \in o,
         owned[i] \subseteq o, sites[i].status = "deleted" => s.status = "deleted"
  PROVE  RowsOwn' /\ OwnersKeep
  <1>1. \A j \in Ids : /\ sites'[j] = IF j = i THEN s ELSE sites[j]
                       /\ owned'[j] = IF j = i THEN o ELSE owned[j]
    BY DEF TablesOK, ControlOK
  <1>2. RowsOwn'
    BY <1>1 DEF RowsOwn, Stored
  <1>3. OwnersKeep
    BY <1>1 DEF OwnersKeep, HadNext, Had
  <1>. QED
    BY <1>2, <1>3

\* Every write leaves rows that own their domains, and takes none away.
LEMMA NextRowsOwn ==
  ASSUME IInv, Next
  PROVE  RowsOwn' /\ OwnersKeep
  <1>. USE DEF IInv, TypeOK, OwnedOK, Threads
  <1>1. ASSUME UNCHANGED <<sites, owned>> PROVE RowsOwn' /\ OwnersKeep
    BY <1>1 DEF RowsOwn, Stored, OwnersKeep, HadNext, Had
  <1>2. ASSUME NEW h \in Handlers, InsertSite(h) PROVE RowsOwn' /\ OwnersKeep
    <2>1. CASE UNCHANGED <<sites, owned>>
      BY <1>1, <2>1
    <2>2. ASSUME NEW i \in Ids, sites[i].status = "free",
                 sites' = [sites EXCEPT ![i] = [site[h] EXCEPT !.id = i]],
                 owned' = [owned EXCEPT ![i] = {site[h].domain}]
          PROVE  RowsOwn' /\ OwnersKeep
      <3>a. site[h] \in Rows({None})
        BY <1>2 DEF InsertSite, HandOK, Holds
      <3>1. /\ [site[h] EXCEPT !.id = i] \in Site
            /\ [site[h] EXCEPT !.id = i].domain \in {site[h].domain}
        BY <3>a, NewSite
      <3>2. [site[h] EXCEPT !.id = i].status # "free"
        BY <3>1, SiteFacts DEF Statuses
      <3>3. owned[i] \subseteq {site[h].domain}
        BY <2>2 DEF RowsOwn
      <3>. QED
        BY <2>2, <3>1, <3>2, <3>3, RowOwns
    <2>. QED
      BY <1>2, <2>1, <2>2 DEF InsertSite
  <1>3. ASSUME NEW h \in Handlers, SaveSite(h) PROVE RowsOwn' /\ OwnersKeep
    <2>1. CASE UNCHANGED <<sites, owned>>
      BY <1>1, <2>1
    <2>2. CASE /\ Stored(site[h].id)
               /\ sites' = [sites EXCEPT ![site[h].id] = site[h]]
               /\ owned' = [owned EXCEPT ![site[h].id] = @ \cup {site[h].domain}]
      <3>. DEFINE i == site[h].id  o == owned[i] \cup {site[h].domain}
      <3>1. i \in Ids /\ site[h].status \in Statuses
        BY <1>3, SiteFacts DEF SaveSite, HandOK, Holds, SiteSteps
      <3>2. owned' = [owned EXCEPT ![i] = o] /\ owned[i] \subseteq o /\ site[h].domain \in o
        BY <2>2
      <3>3. site[h].status # "free" /\ sites[i].status # "deleted"
        BY <2>2, <3>1 DEF Stored, Statuses
      <3>4. sites' = [sites EXCEPT ![i] = site[h]]
        BY <2>2
      <3>. HIDE DEF i, o
      <3>. QED
        BY <3>1, <3>2, <3>3, <3>4, RowOwns
    <2>. QED
      BY <1>3, <2>1, <2>2 DEF SaveSite
  <1>4. ASSUME NEW i \in Ids, NEW s \in Site, Stored(i), sites' = [sites EXCEPT ![i] = s],
               s.domain = sites[i].domain, UNCHANGED owned
        PROVE  RowsOwn' /\ OwnersKeep
    <2>1. owned' = [owned EXCEPT ![i] = owned[i]] /\ s.domain \in owned[i]
      BY <1>4 DEF ControlOK, RowsOwn
    <2>2. s.status # "free" /\ sites[i].status # "deleted"
      BY <1>4, SiteFacts DEF Stored, Statuses
    <2>. QED
      BY <1>4, <2>1, <2>2, RowOwns
  <1>5. ASSUME NEW h \in Handlers, SetStatus(h) PROVE RowsOwn' /\ OwnersKeep
    <2>1. CASE UNCHANGED sites
      BY <1>1, <1>5, <2>1 DEF SetStatus, history
    <2>2. CASE Stored(site[h].id) /\ sites' = [sites EXCEPT ![site[h].id].status = site[h].status]
      <3>. DEFINE i == site[h].id  s == [sites[i] EXCEPT !.status = site[h].status]
      <3>1. i \in Ids /\ site[h].status \in Statuses /\ site[h].waf \in BOOLEAN
        BY <1>5, SiteFacts DEF SetStatus, HandOK, Holds, SiteSteps
      <3>2. sites[i] \in Site
        BY <2>2, <3>1, StoredSite
      <3>3. s \in Site /\ s.domain = sites[i].domain
        BY <3>1, <3>2, SiteUpdates
      <3>4. Stored(i) /\ sites' = [sites EXCEPT ![i] = s] /\ UNCHANGED owned
        BY <1>5, <2>2 DEF SetStatus, history
      <3>. HIDE DEF i, s
      <3>. QED
        BY <1>4, <3>1, <3>3, <3>4
    <2>. QED
      BY <1>5, <2>1, <2>2 DEF SetStatus
  <1>6. ASSUME NEW h \in Handlers, SetWAF(h) PROVE RowsOwn' /\ OwnersKeep
    <2>1. CASE UNCHANGED sites
      BY <1>1, <1>6, <2>1 DEF SetWAF, history
    <2>2. CASE Stored(site[h].id) /\ sites' = [sites EXCEPT ![site[h].id].waf = site[h].waf]
      <3>. DEFINE i == site[h].id  s == [sites[i] EXCEPT !.waf = site[h].waf]
      <3>1. i \in Ids /\ site[h].status \in Statuses /\ site[h].waf \in BOOLEAN
        BY <1>6, SiteFacts DEF SetWAF, HandOK, Holds, SiteSteps
      <3>2. sites[i] \in Site
        BY <2>2, <3>1, StoredSite
      <3>3. s \in Site /\ s.domain = sites[i].domain
        BY <3>1, <3>2, SiteUpdates
      <3>4. Stored(i) /\ sites' = [sites EXCEPT ![i] = s] /\ UNCHANGED owned
        BY <1>6, <2>2 DEF SetWAF, history
      <3>. HIDE DEF i, s
      <3>. QED
        BY <1>4, <3>1, <3>3, <3>4
    <2>. QED
      BY <1>6, <2>1, <2>2 DEF SetWAF
  <1>7. ASSUME NEW h \in Handlers, DeleteRow(h) PROVE RowsOwn' /\ OwnersKeep
    <2>. DEFINE i == site[h].id  s == NoSite(i, "deleted")
    <2>1. i \in Ids
      BY <1>7, SiteFacts DEF DeleteRow, HandOK, Holds, SiteSteps
    <2>2. s.status = "deleted" /\ "deleted" \notin Statuses
      BY <2>1, AbsentSite
    <2>3. sites' = [sites EXCEPT ![i] = s] /\ owned' = [owned EXCEPT ![i] = owned[i]]
      BY <1>7 DEF DeleteRow, history, ControlOK
    <2>. HIDE DEF i, s
    <2>. QED
      BY <2>1, <2>2, <2>3, RowOwns
  <1>8. \/ UNCHANGED <<sites, owned>>
        \/ \E h \in Handlers :
              InsertSite(h) \/ SaveSite(h) \/ SetStatus(h) \/ SetWAF(h) \/ DeleteRow(h)
    BY DEF Next, MonitorStep, Arrival, HandlerStep, AddOrUpdateSite, tables, history,
       CreateSite, UpdateSite, DeleteSite, ToggleSiteStatus, ToggleWAF, UploadCertificate,
       DeleteCertificate, Arrive, EditSite, DeleteCertificateRow, WriteFails,
       RemoveSiteFromProxy, RefreshSite, AddCertificate, AddToMap, QueryActiveSites,
       StartFails, NextSite, LoopEnds
  <1>. QED
    BY <1>1, <1>2, <1>3, <1>5, <1>6, <1>7, <1>8

\* A goroutine goes on with a site that owns its domain, if it may publish it.
LEMMA OwnStep ==
  ASSUME HandOK, ControlOK, OwnedOK, OwnersKeep,
         NEW t \in Threads, NEW step, NEW s, OwnsNext(step, s),
         pc' = [pc EXCEPT ![t] = step], site' = [site EXCEPT ![t] = s],
         \A r \in todo' : r \in todo \/ HadNext(r.id, r.domain)
  PROVE  /\ \A r \in todo' : HadNext(r.id, r.domain)
         /\ \A u \in Threads : OwnsNext(pc'[u], site'[u])
  <1>1. ASSUME NEW r \in todo' PROVE HadNext(r.id, r.domain)
    <2>1. CASE r \in todo
      <3>1. r.id \in Ids /\ r.domain \in Domains
        BY <2>1, SiteFacts DEF HandOK
      <3>. QED
        BY <2>1, <3>1 DEF OwnedOK, OwnersKeep
    <2>. QED
      BY <2>1
  <1>2. ASSUME NEW u \in Threads, u # t PROVE OwnsNext(pc'[u], site'[u])
    <2>1. pc'[u] = pc[u] /\ site'[u] = site[u]
      BY <1>2 DEF HandOK, ControlOK
    <2>2. Owns(pc[u], site[u])
      BY DEF OwnedOK
    <2>3. CASE pc[u] \in SiteSteps
      <3>1. site[u].id \in Ids /\ site[u].domain \in Domains
        BY <2>3, SiteFacts DEF HandOK, Holds
      <3>. QED
        BY <2>1, <2>2, <3>1 DEF Owns, OwnsNext, OwnersKeep
    <2>4. CASE pc[u] \notin SiteSteps
      BY <2>1, <2>4 DEF OwnsNext, PublishingSteps, SiteSteps
    <2>. QED
      BY <2>3, <2>4
  <1>3. OwnsNext(pc'[t], site'[t])
    <2>1. pc'[t] = step /\ site'[t] = s
      BY DEF HandOK, ControlOK
    <2>. QED
      BY <2>1
  <1>. QED
    BY <1>1, <1>2, <1>3

\* What every goroutine has in hand.
HandsOwn ==
    /\ \A r \in todo' : HadNext(r.id, r.domain)
    /\ \A u \in Threads : OwnsNext(pc'[u], site'[u])

\* A row read from the table owns its domain, and an update keeps what was read or
\* writes the new domain first.
LEMMA NextHandsOwn ==
  ASSUME IInv, Next
  PROVE  HandsOwn
  <1>. USE SiteAssumption DEF SiteAssumption, IInv, TypeOK, Goto, Done, Threads
  <1>0. OwnersKeep
    BY NextRowsOwn
  <1>a. ASSUME NEW t \in Threads, NEW step, NEW s, OwnsNext(step, s),
               pc' = [pc EXCEPT ![t] = step], site' = [site EXCEPT ![t] = s],
               todo' \subseteq todo
        PROVE  HandsOwn
    BY <1>0, <1>a, OwnStep DEF HandsOwn
  <1>b. ASSUME NEW t \in Threads, NEW step, NEW s,
               step \notin PublishingSteps \cup {"edit", "save"},
               pc' = [pc EXCEPT ![t] = step], site' = [site EXCEPT ![t] = s],
               todo' \subseteq todo
        PROVE  HandsOwn
    BY <1>a, <1>b DEF OwnsNext
  <1>c. ASSUME NEW h \in Handlers, Done(h), UNCHANGED todo PROVE HandsOwn
    BY <1>b, <1>c DEF PublishingSteps
  <1>d. ASSUME NEW t \in Threads, NEW step \in PublishingSteps,
               pc[t] \in PublishingSteps, pc' = [pc EXCEPT ![t] = step],
               UNCHANGED <<site, todo>>
        PROVE  HandsOwn
    <2>1. Had(site[t].id, site[t].domain) /\ site[t].id \in Ids /\ site[t].domain \in Domains
      BY <1>d, SiteFacts DEF OwnedOK, Owns, HandOK, Holds, PublishingSteps, SiteSteps
    <2>2. OwnsNext(step, site[t])
      BY <1>0, <1>d, <2>1 DEF OwnersKeep, OwnsNext, PublishingSteps
    <2>3. site' = [site EXCEPT ![t] = site[t]]
      BY <1>d DEF HandOK
    <2>. QED
      BY <1>a, <1>d, <2>2, <2>3
  <1>e. ASSUME NEW i \in Ids, Stored(i), UNCHANGED <<sites, owned>>
        PROVE  /\ sites[i] \in Site /\ sites[i].id = i
               /\ sites'[i].status # "free" /\ HadNext(i, sites[i].domain)
    <2>1. sites[i] \in Site /\ sites[i].id = i
      BY <1>e, StoredSite
    <2>2. sites[i].domain \in owned[i] /\ sites[i].status # "free"
      BY <1>e DEF OwnedOK, RowsOwn, Stored, Statuses
    <2>. QED
      BY <1>e, <2>1, <2>2 DEF HadNext
  <1>1. ASSUME NEW h \in Handlers, CreateSite(h) PROVE HandsOwn
    <2>1. PICK s : site' = [site EXCEPT ![h] = s]
      BY <1>1 DEF CreateSite
    <2>2. pc' = [pc EXCEPT ![h] = "insert"] /\ UNCHANGED todo
      BY <1>1 DEF CreateSite, Arrive, loop
    <2>. QED
      BY <1>b, <2>1, <2>2 DEF PublishingSteps
  <1>2. ASSUME NEW h \in Handlers, NEW i \in Ids, UpdateSite(h, i) PROVE HandsOwn
    <2>1. Stored(i) /\ UNCHANGED <<sites, owned, todo>>
      BY <1>2 DEF UpdateSite, Arrive, loop, tables
    <2>. DEFINE s == sites[i]
    <2>2. OwnsNext("edit", s)
      BY <1>e, <2>1 DEF OwnsNext, PublishingSteps
    <2>3. pc' = [pc EXCEPT ![h] = "edit"] /\ site' = [site EXCEPT ![h] = s]
      BY <1>2 DEF UpdateSite
    <2>. HIDE DEF s
    <2>. QED
      BY <1>a, <2>1, <2>2, <2>3
  <1>3. ASSUME NEW h \in Handlers, NEW i \in Ids, DeleteSite(h, i) PROVE HandsOwn
    <2>1. PICK s : site' = [site EXCEPT ![h] = s]
      BY <1>3 DEF DeleteSite
    <2>2. pc' = [pc EXCEPT ![h] = "delete"] /\ UNCHANGED todo
      BY <1>3 DEF DeleteSite, Arrive, loop
    <2>. QED
      BY <1>b, <2>1, <2>2 DEF PublishingSteps
  <1>4. ASSUME NEW h \in Handlers, NEW i \in Ids, ToggleSiteStatus(h, i) PROVE HandsOwn
    <2>1. Stored(i) /\ UNCHANGED <<sites, owned, todo>>
      BY <1>4 DEF ToggleSiteStatus, Arrive, loop, tables
    <2>. DEFINE on == sites[i].status = "active"
                s == [sites[i] EXCEPT !.status = IF on THEN "inactive" ELSE "active"]
                step == IF on THEN "deactivate" ELSE "setstatus"
    <2>2. s.id = i /\ s.domain = sites[i].domain
      BY <1>e, <2>1, SiteUpdates DEF Statuses
    <2>3. OwnsNext(step, s)
      BY <1>e, <2>1, <2>2 DEF OwnsNext, PublishingSteps
    <2>4. pc' = [pc EXCEPT ![h] = step] /\ site' = [site EXCEPT ![h] = s]
      BY <1>4 DEF ToggleSiteStatus
    <2>. HIDE DEF s, step
    <2>. QED
      BY <1>a, <2>1, <2>3, <2>4
  <1>5. ASSUME NEW h \in Handlers, NEW i \in Ids, ToggleWAF(h, i) PROVE HandsOwn
    <2>1. Stored(i) /\ UNCHANGED <<sites, owned, todo>>
      BY <1>5 DEF ToggleWAF, Arrive, loop, tables
    <2>. DEFINE s == [sites[i] EXCEPT !.waf = ~@]
    <2>2. s.id = i /\ s.domain = sites[i].domain
      BY <1>e, <2>1, SiteFacts, SiteUpdates
    <2>3. OwnsNext("setwaf", s)
      BY <1>e, <2>1, <2>2 DEF OwnsNext, PublishingSteps
    <2>4. pc' = [pc EXCEPT ![h] = "setwaf"] /\ site' = [site EXCEPT ![h] = s]
      BY <1>5 DEF ToggleWAF
    <2>. HIDE DEF s
    <2>. QED
      BY <1>a, <2>1, <2>3, <2>4
  <1>6. ASSUME NEW h \in Handlers, NEW c \in Certs, UploadCertificate(h, c) PROVE HandsOwn
    <2>1. /\ pc' = [pc EXCEPT ![h] = "idle"] /\ site' = [site EXCEPT ![h] = site[h]]
          /\ UNCHANGED todo
      BY <1>6 DEF UploadCertificate, Arrive, loop, ControlOK, HandOK
    <2>. QED
      BY <1>b, <2>1 DEF PublishingSteps
  <1>7. ASSUME NEW h \in Handlers, NEW c \in Certs, DeleteCertificate(h, c) PROVE HandsOwn
    <2>1. PICK s : site' = [site EXCEPT ![h] = s]
      BY <1>7 DEF DeleteCertificate
    <2>2. pc' = [pc EXCEPT ![h] = "delcert"] /\ UNCHANGED todo
      BY <1>7 DEF DeleteCertificate, Arrive, loop
    <2>. QED
      BY <1>b, <2>1, <2>2 DEF PublishingSteps
  <1>8. ASSUME NEW h \in Handlers, InsertSite(h) PROVE HandsOwn
    BY <1>c, <1>8 DEF InsertSite, loop
  <1>9. ASSUME NEW h \in Handlers, EditSite(h) PROVE HandsOwn
    <2>1. PICK d \in Domains, target \in Targets, st \in Statuses, c \in Certs \cup {None} :
              site' = [site EXCEPT ![h] =
                [@ EXCEPT !.domain = d, !.target = target, !.status = st, !.cert = c]]
      BY <1>9 DEF EditSite
    <2>. DEFINE s == [site[h] EXCEPT !.domain = d, !.target = target, !.status = st, !.cert = c]
    <2>a. site[h] \in Site
      BY <1>9 DEF EditSite, HandOK, Holds, SiteSteps
    <2>2. s.id = site[h].id /\ site[h].id \in Ids
      BY <2>a DEF Site, Rows
    <2>3. sites[site[h].id].status # "free"
      BY <1>9 DEF EditSite, OwnedOK, Owns
    <2>4. OwnsNext("save", s)
      BY <1>0, <2>2, <2>3 DEF OwnersKeep, OwnsNext, PublishingSteps
    <2>5. /\ pc' = [pc EXCEPT ![h] = "save"] /\ site' = [site EXCEPT ![h] = s]
          /\ UNCHANGED todo
      BY <1>9, <2>1 DEF EditSite, HandOK, loop
    <2>. HIDE DEF s
    <2>. QED
      BY <1>a, <2>4, <2>5
  <1>10. ASSUME NEW h \in Handlers, SaveSite(h) PROVE HandsOwn
    <2>1. CASE Done(h)
      BY <1>c, <1>10, <2>1 DEF SaveSite, loop
    <2>2. CASE Goto(h, "refresh") /\ UNCHANGED site /\ ~Done(h)
      <3>. DEFINE i == site[h].id  d == site[h].domain
      <3>1. i \in Ids /\ d \in Domains
        BY <1>10, SiteFacts DEF SaveSite, HandOK, Holds, SiteSteps
      <3>2. sites[i].status # "free"
        BY <1>10 DEF SaveSite, OwnedOK, Owns
      <3>3. ASSUME Stored(i) PROVE HadNext(i, d)
        <4>1. owned' = [owned EXCEPT ![i] = @ \cup {d}]
          BY <1>10, <2>2, <3>3 DEF SaveSite
        <4>. HIDE DEF i, d
        <4>. QED
          BY <3>1, <4>1 DEF HadNext, ControlOK
      <3>4. ASSUME ~Stored(i) PROVE HadNext(i, d)
        <4>1. sites[i].status = "deleted"
          <5>1. sites[i] \in Site \cup {NoSite(j, st) : j \in Ids, st \in {"free", "deleted"}}
            BY <3>1 DEF TablesOK
          <5>. HIDE DEF i
          <5>. QED
            BY <3>2, <3>4, <5>1, SiteFacts, AbsentSite DEF Stored
        <4>2. UNCHANGED sites
          BY <1>10, <2>2, <3>4 DEF SaveSite
        <4>. QED
          BY <4>1, <4>2 DEF HadNext
      <3>5. HadNext(i, d)
        BY <3>3, <3>4
      <3>6. OwnsNext("refresh", site[h])
        BY <3>5 DEF OwnsNext
      <3>7. site' = [site EXCEPT ![h] = site[h]]
        BY <2>2 DEF HandOK
      <3>. QED
        BY <1>a, <1>10, <2>2, <3>6, <3>7 DEF SaveSite, loop
    <2>. QED
      BY <1>10, <2>1, <2>2 DEF SaveSite, Written
  <1>11. ASSUME NEW h \in Handlers, SetStatus(h) PROVE HandsOwn
    BY <1>c, <1>d, <1>11 DEF SetStatus, Written, PublishingSteps, loop
  <1>12. ASSUME NEW h \in Handlers, SetWAF(h) PROVE HandsOwn
    BY <1>c, <1>d, <1>12 DEF SetWAF, Written, PublishingSteps, loop
  <1>13. ASSUME NEW h \in Handlers, DeleteRow(h) PROVE HandsOwn
    <2>1. /\ pc' = [pc EXCEPT ![h] = "remove"] /\ site' = [site EXCEPT ![h] = site[h]]
          /\ UNCHANGED todo
      BY <1>13 DEF DeleteRow, loop, HandOK
    <2>. QED
      BY <1>b, <2>1 DEF PublishingSteps
  <1>14. ASSUME NEW h \in Handlers, DeleteCertificateRow(h) PROVE HandsOwn
    BY <1>c, <1>14 DEF DeleteCertificateRow, loop
  <1>15. ASSUME NEW h \in Handlers, WriteFails(h) PROVE HandsOwn
    BY <1>c, <1>15 DEF WriteFails, loop
  <1>16. ASSUME NEW h \in Handlers, RemoveSiteFromProxy(h) PROVE HandsOwn
    BY <1>c, <1>d, <1>16 DEF RemoveSiteFromProxy, PublishingSteps, loop
  <1>17. ASSUME NEW h \in Handlers, RefreshSite(h) PROVE HandsOwn
    BY <1>d, <1>17 DEF RefreshSite, PublishingSteps, loop
  <1>18. ASSUME QueryActiveSites PROVE HandsOwn
    <2>1. ASSUME NEW r \in todo' PROVE HadNext(r.id, r.domain)
      <3>1. PICK i \in Ids : r = sites[i] /\ Stored(i)
        BY <1>18 DEF QueryActiveSites, Stored, Statuses
      <3>. QED
        BY <1>e, <1>18, <3>1 DEF QueryActiveSites, tables
    <2>2. /\ pc' = [pc EXCEPT ![Monitor] = "loop"]
          /\ site' = [site EXCEPT ![Monitor] = site[Monitor]]
      BY <1>18 DEF QueryActiveSites, HandOK
    <2>3. OwnsNext("loop", site[Monitor])
      BY DEF OwnsNext, PublishingSteps
    <2>. QED
      BY <1>0, <2>1, <2>2, <2>3, OwnStep DEF HandsOwn
  <1>19. ASSUME StartFails \/ LoopEnds PROVE HandsOwn
    <2>1. PICK step \in {"stopped", "idle"} : pc' = [pc EXCEPT ![Monitor] = step]
      BY <1>19 DEF StartFails, LoopEnds
    <2>2. site' = [site EXCEPT ![Monitor] = site[Monitor]] /\ UNCHANGED todo
      BY <1>19 DEF StartFails, LoopEnds, HandOK, loop
    <2>. QED
      BY <1>b, <2>1, <2>2 DEF PublishingSteps
  <1>20. ASSUME NextSite PROVE HandsOwn
    <2>1. PICK s \in todo : site' = [site EXCEPT ![Monitor] = s] /\ todo' = todo \ {s}
      BY <1>20 DEF NextSite
    <2>2. Had(s.id, s.domain) /\ s.id \in Ids /\ s.domain \in Domains
      BY SiteFacts DEF OwnedOK, HandOK
    <2>3. OwnsNext("load", s)
      BY <1>0, <2>2 DEF OwnersKeep, OwnsNext
    <2>. QED
      BY <1>a, <1>20, <2>1, <2>3 DEF NextSite
  <1>21. ASSUME NEW t \in Threads, AddOrUpdateSite(t) PROVE HandsOwn
    <2>1. UNCHANGED todo
      BY <1>21 DEF AddOrUpdateSite, AddCertificate, AddToMap
    <2>2. CASE AddOrUpdateSiteReturns(t)
      <3>1. PICK step \in {"idle", "loop"} : pc' = [pc EXCEPT ![t] = step]
        BY <2>2 DEF AddOrUpdateSiteReturns
      <3>2. PICK s : site' = [site EXCEPT ![t] = s]
        BY <2>2 DEF AddOrUpdateSiteReturns
      <3>. QED
        BY <1>b, <2>1, <3>1, <3>2 DEF PublishingSteps
    <2>3. CASE pc[t] = "load" /\ Goto(t, "publish") /\ UNCHANGED site
      BY <1>d, <2>1, <2>3 DEF PublishingSteps
    <2>. QED
      BY <1>21, <2>2, <2>3 DEF AddOrUpdateSite, AddCertificate, AddToMap
  <1>. HIDE DEF SiteAssumption, IInv, TypeOK, Goto, Done, Threads
  <1>. QED
    BY <1>1, <1>2, <1>3, <1>4, <1>5, <1>6, <1>7, <1>8, <1>9, <1>10, <1>11, <1>12, <1>13, <1>14,
       <1>15, <1>16, <1>17, <1>18, <1>19, <1>20, <1>21
       DEF Next, MonitorStep, Arrival, HandlerStep, Threads

\* What AddToMap puts into domainMap owns its domain; what is there already goes on to.
LEMMA NextOwnedOK ==
  ASSUME IInv, Next
  PROVE  OwnedOK'
  <1>. USE DEF IInv, TypeOK
  <1>1. RowsOwn' /\ OwnersKeep /\ HandsOwn
    BY NextRowsOwn, NextHandsOwn
  <1>2. ASSUME NEW d \in Domains, domainMap[d] # None
        PROVE  HadNext(domainMap[d].site.id, d)
    <2>1. domainMap[d].site \in Site
      BY <1>2, SiteAssumption DEF SiteAssumption, MapsOK, Entry
    <2>2. domainMap[d].site.id \in Ids
      BY <2>1, SiteFacts
    <2>. QED
      BY <1>1, <1>2, <2>2 DEF OwnedOK, RoutedToOwner, OwnersKeep, Had
  <1>3. ASSUME NEW d \in Domains, domainMap'[d] # None
        PROVE  HadNext(domainMap'[d].site.id, d)
    <2>1. ASSUME NEW t \in Threads, AddToMap(t) PROVE HadNext(domainMap'[d].site.id, d)
      <3>. DEFINE e == [site |-> site[t], useHTTPS |-> useHTTPS[t]]
      <3>1. domainMap' = [domainMap EXCEPT ![site[t].domain] = e] /\ e.site = site[t]
        BY <2>1 DEF AddToMap
      <3>. HIDE DEF e
      <3>2. CASE d # site[t].domain
        BY <1>2, <1>3, <3>1, <3>2 DEF MapsOK
      <3>3. CASE d = site[t].domain
        <4>1. Had(site[t].id, d) /\ site[t].id \in Ids
          BY <2>1, <3>3, SiteFacts
             DEF AddToMap, OwnedOK, Owns, PublishingSteps, HandOK, Holds, SiteSteps
        <4>2. HadNext(site[t].id, d)
          BY <1>1, <4>1 DEF OwnersKeep
        <4>. QED
          BY <3>1, <3>3, <4>2 DEF MapsOK
      <3>. QED
        BY <3>2, <3>3
    <2>2. ASSUME NEW h \in Handlers, RemoveSiteFromProxy(h)
          PROVE  HadNext(domainMap'[d].site.id, d)
      BY <1>2, <1>3, <2>2 DEF RemoveSiteFromProxy, MapsOK
    <2>3. \/ UNCHANGED domainMap
          \/ \E t \in Threads : AddToMap(t)
          \/ \E h \in Handlers : RemoveSiteFromProxy(h)
      BY DEF Next, MonitorStep, Arrival, HandlerStep, AddOrUpdateSite, Threads, maps,
         CreateSite, UpdateSite, DeleteSite, ToggleSiteStatus, ToggleWAF, UploadCertificate,
         DeleteCertificate, Arrive, InsertSite, EditSite, SaveSite, SetStatus, SetWAF,
         DeleteRow, DeleteCertificateRow, WriteFails, RefreshSite, AddCertificate,
         QueryActiveSites, StartFails, NextSite, LoopEnds
    <2>. QED
      BY <1>2, <1>3, <2>1, <2>2, <2>3
  <1>4. RoutedToOwner'
    BY <1>3 DEF RoutedToOwner, HadNext
  <1>5. (\A s \in todo : Had(s.id, s.domain))' /\ (\A t \in Threads : Owns(pc[t], site[t]))'
    BY <1>1 DEF HandsOwn, HadNext, OwnsNext, Had, Owns
  <1>. QED
    BY <1>1, <1>4, <1>5 DEF OwnedOK

-----------------------------------------------------------------------------
(* The certificates of entries over HTTPS.                                 *)

\* RemoveSite runs while no handler is between AddCertificate and the map; if the
\* monitor is, it is overtaken.
LEMMA NextCertificatesOK ==
  ASSUME IInv, Next
  PROVE  CertificatesOK'
  <1> USE SiteAssumption DEF SiteAssumption, IInv, TypeOK, tables, maps, loop, history, Goto, Done, Threads
  <1>1. ASSUME NEW h \in Handlers, CreateSite(h) PROVE CertificatesOK'
    BY <1>1 DEF CreateSite, Arrive, ControlOK, HandOK, CertificatesOK, HTTPSEntriesHaveCertificates
  <1>2. ASSUME NEW h \in Handlers, NEW i \in Ids, UpdateSite(h, i) PROVE CertificatesOK'
    BY <1>2 DEF UpdateSite, Arrive, ControlOK, HandOK, CertificatesOK, HTTPSEntriesHaveCertificates
  <1>3. ASSUME NEW h \in Handlers, NEW i \in Ids, DeleteSite(h, i) PROVE CertificatesOK'
    BY <1>3 DEF DeleteSite, Arrive, ControlOK, HandOK, CertificatesOK, HTTPSEntriesHaveCertificates
  <1>4. ASSUME NEW h \in Handlers, NEW i \in Ids, ToggleSiteStatus(h, i) PROVE CertificatesOK'
    BY <1>4
       DEF ToggleSiteStatus, Arrive, ControlOK, HandOK, CertificatesOK, HTTPSEntriesHaveCertificates
  <1>5. ASSUME NEW h \in Handlers, NEW i \in Ids, ToggleWAF(h, i) PROVE CertificatesOK'
    BY <1>5 DEF ToggleWAF, Arrive, ControlOK, HandOK, CertificatesOK, HTTPSEntriesHaveCertificates
  <1>6. ASSUME NEW h \in Handlers, NEW c \in Certs, UploadCertificate(h, c) PROVE CertificatesOK'
    BY <1>6
       DEF UploadCertificate, Arrive, ControlOK, HandOK, CertificatesOK, HTTPSEntriesHaveCertificates
  <1>7. ASSUME NEW h \in Handlers, NEW c \in Certs, DeleteCertificate(h, c) PROVE CertificatesOK'
    BY <1>7
       DEF DeleteCertificate, Arrive, ControlOK, HandOK, CertificatesOK, HTTPSEntriesHaveCertificates
  <1>8. ASSUME NEW h \in Handlers, InsertSite(h) PROVE CertificatesOK'
    BY <1>8 DEF InsertSite, ControlOK, HandOK, CertificatesOK, HTTPSEntriesHaveCertificates
  <1>9. ASSUME NEW h \in Handlers, EditSite(h) PROVE CertificatesOK'
    BY <1>9 DEF EditSite, ControlOK, HandOK, CertificatesOK, HTTPSEntriesHaveCertificates
  <1>10. ASSUME NEW h \in Handlers, SaveSite(h) PROVE CertificatesOK'
    BY <1>10 DEF SaveSite, Written, ControlOK, HandOK, CertificatesOK, HTTPSEntriesHaveCertificates
  <1>11. ASSUME NEW h \in Handlers, SetStatus(h) PROVE CertificatesOK'
    BY <1>11 DEF SetStatus, Written, ControlOK, HandOK, CertificatesOK, HTTPSEntriesHaveCertificates
  <1>12. ASSUME NEW h \in Handlers, SetWAF(h) PROVE CertificatesOK'
    BY <1>12 DEF SetWAF, Written, ControlOK, HandOK, CertificatesOK, HTTPSEntriesHaveCertificates
  <1>13. ASSUME NEW h \in Handlers, DeleteRow(h) PROVE CertificatesOK'
    BY <1>13 DEF DeleteRow, ControlOK, HandOK, CertificatesOK, HTTPSEntriesHaveCertificates
  <1>14. ASSUME NEW h \in Handlers, DeleteCertificateRow(h) PROVE CertificatesOK'
    BY <1>14 DEF DeleteCertificateRow, ControlOK, HandOK, CertificatesOK, HTTPSEntriesHaveCertificates
  <1>15. ASSUME NEW h \in Handlers, WriteFails(h) PROVE CertificatesOK'
    BY <1>15 DEF WriteFails, ControlOK, HandOK, CertificatesOK, HTTPSEntriesHaveCertificates
  <1>16. ASSUME NEW h \in Handlers, RemoveSiteFromProxy(h) PROVE CertificatesOK'
    <2>. DEFINE d == site[h].domain
    <2>1. /\ domainMap' = [domainMap EXCEPT ![d] = None]
          /\ certificates' = IF domainMap[d] # None /\ domainMap[d].useHTTPS
                             THEN [certificates EXCEPT ![d] = None] ELSE certificates
          /\ overtaken' = IF domainMap[d] = None THEN overtaken
                          ELSE IF Adding(d) THEN overtaken \cup {d} ELSE overtaken \ {d}
          /\ UNCHANGED useHTTPS
      BY <1>16 DEF RemoveSiteFromProxy
    <2>2. \A g \in Handlers : pc'[g] # "publish"
      BY <1>16 DEF RemoveSiteFromProxy, ControlOK, ProxyMutexOK
    <2>3. pc'[Monitor] = pc[Monitor] /\ site'[Monitor] = site[Monitor]
      BY <1>16 DEF RemoveSiteFromProxy, ControlOK, HandOK
    <2>4. d \in Domains
      BY <1>16, SiteFacts DEF RemoveSiteFromProxy, HandOK, Holds, SiteSteps
    <2>. HIDE DEF d
    <2>5. HTTPSEntriesHaveCertificates'
      BY <2>1, <2>4 DEF CertificatesOK, HTTPSEntriesHaveCertificates, MapsOK
    <2>6. ASSUME pc[Monitor] = "publish", useHTTPS[Monitor]
          PROVE  certificates'[site[Monitor].domain] # None \/ site[Monitor].domain \in overtaken'
      <3>1. site[Monitor].domain \in Domains
        BY <2>6, SiteFacts DEF HandOK, Holds, SiteSteps
      <3>2. CASE site[Monitor].domain = d
        BY <2>1, <2>4, <2>6, <3>2 DEF Adding, CertificatesOK
      <3>3. CASE site[Monitor].domain # d
        BY <2>1, <2>4, <2>6, <3>1, <3>3 DEF CertificatesOK, MapsOK
      <3>. QED
        BY <3>2, <3>3
    <2>. QED
      BY <2>1, <2>2, <2>3, <2>5, <2>6 DEF CertificatesOK
  <1>17. ASSUME NEW h \in Handlers, RefreshSite(h) PROVE CertificatesOK'
    BY <1>17 DEF RefreshSite, ControlOK, HandOK, CertificatesOK, HTTPSEntriesHaveCertificates
  <1>18. ASSUME QueryActiveSites PROVE CertificatesOK'
    BY <1>18 DEF QueryActiveSites, ControlOK, HandOK, CertificatesOK, HTTPSEntriesHaveCertificates
  <1>19. ASSUME StartFails PROVE CertificatesOK'
    BY <1>19 DEF StartFails, ControlOK, HandOK, CertificatesOK, HTTPSEntriesHaveCertificates
  <1>20. ASSUME NextSite PROVE CertificatesOK'
    BY <1>20 DEF NextSite, ControlOK, HandOK, CertificatesOK, HTTPSEntriesHaveCertificates
  <1>21. ASSUME LoopEnds PROVE CertificatesOK'
    BY <1>21 DEF LoopEnds, ControlOK, HandOK, CertificatesOK, HTTPSEntriesHaveCertificates
  <1>22. ASSUME NEW t \in Threads, AddCertificate(t) PROVE CertificatesOK'
    <2>1. UNCHANGED domainMap
      BY <1>22 DEF AddCertificate
    <2>2. CASE site[t].target \in Unparsable
      <3>1. /\ UNCHANGED <<certificates, useHTTPS, overtaken>> /\ pc'[t] # "publish"
            /\ \A u \in Threads \ {t} : pc'[u] = pc[u] /\ site'[u] = site[u]
        BY <2>2, <1>22 DEF AddCertificate, AddOrUpdateSiteReturns, ControlOK, HandOK
      <3>. QED
        BY <2>1, <3>1 DEF CertificatesOK, HTTPSEntriesHaveCertificates
    <2>3. CASE site[t].target \notin Unparsable
      <3>. DEFINE d == site[t].domain  c == site[t].cert
      <3>1. PICK found \in BOOLEAN :
               /\ found => c # None
               /\ useHTTPS' = [useHTTPS EXCEPT ![t] = found]
               /\ certificates' = IF found THEN [certificates EXCEPT ![d] = c] ELSE certificates
               /\ overtaken' = IF found THEN overtaken \ {d} ELSE overtaken
               /\ pc' = [pc EXCEPT ![t] = "publish"] /\ site' = site
        BY <2>3, <1>22, CertificateAdded DEF ControlOK
      <3>2. d \in Domains
        BY <1>22, SiteFacts DEF AddCertificate, HandOK, Holds, SiteSteps
      <3>. HIDE DEF c
      <3>3. \A q \in Domains : certificates[q] # None \/ q \in overtaken
                                 => certificates'[q] # None \/ q \in overtaken'
        BY <3>1, <3>2 DEF MapsOK
      <3>4. HTTPSEntriesHaveCertificates'
        BY <2>1, <3>3 DEF CertificatesOK, HTTPSEntriesHaveCertificates
      <3>5. useHTTPS'[t] => certificates'[site'[t].domain] # None
        BY <3>1, <3>2 DEF MapsOK, ControlOK
      <3>. HIDE DEF d
      <3>6. ASSUME NEW u \in Threads, u # t, pc'[u] = "publish", useHTTPS'[u]
            PROVE  certificates'[site'[u].domain] # None \/ site'[u].domain \in overtaken'
        <4>1. pc[u] = "publish" /\ useHTTPS[u] /\ site'[u] = site[u]
          BY <3>1, <3>6 DEF ControlOK, HandOK
        <4>2. site[u].domain \in Domains
          BY <4>1, SiteFacts DEF HandOK, Holds, SiteSteps
        <4>. QED
          BY <3>3, <4>1, <4>2 DEF CertificatesOK
      <3>. QED
        BY <3>4, <3>5, <3>6 DEF CertificatesOK
    <2>. QED
      BY <2>2, <2>3
  <1>23. ASSUME NEW t \in Threads, AddToMap(t) PROVE CertificatesOK'
    <2>. DEFINE e == [site |-> site[t], useHTTPS |-> useHTTPS[t]]  d == site[t].domain
    <2>1. domainMap' = [domainMap EXCEPT ![d] = e] /\ e.useHTTPS = useHTTPS[t]
      BY <1>23 DEF AddToMap
    <2>2. /\ pc[t] = "publish" /\ pc'[t] # "publish" /\ UNCHANGED <<certificates, overtaken>>
          /\ \A u \in Threads \ {t} :
                pc'[u] = pc[u] /\ site'[u] = site[u] /\ useHTTPS'[u] = useHTTPS[u]
      BY <1>23 DEF AddToMap, AddOrUpdateSiteReturns, ControlOK, HandOK
    <2>3. HTTPSEntriesHaveCertificates'
      BY <2>1, <2>2 DEF CertificatesOK, HTTPSEntriesHaveCertificates, MapsOK
    <2>. QED
      BY <2>2, <2>3 DEF CertificatesOK
  <1>. HIDE DEF IInv, TypeOK, tables, maps, loop, history, Goto, Done, Threads
  <1>. QED
    BY <1>1, <1>2, <1>3, <1>4, <1>5, <1>6, <1>7, <1>8, <1>9, <1>10, <1>11, <1>12, <1>13, <1>14, <1>15, <1>16, <1>17, <1>18, <1>19, <1>20, <1>21, <1>22, <1>23,
       SiteAssumption DEF SiteAssumption, Next, MonitorStep, Arrival, HandlerStep, AddOrUpdateSite, Threads

-----------------------------------------------------------------------------
(* A round that no API request overlaps.                                   *)

\* A request that arrives ends it, and no handler is at work during it.
LEMMA HandlersEndRound ==
  ASSUME IInv, NEW h \in Handlers, Arrival(h) \/ HandlerStep(h)
  PROVE  quiet' = FALSE
  <1> USE DEF IInv, TypeOK
  <1>1. CASE Arrival(h)
    BY <1>1 DEF Arrival, CreateSite, UpdateSite, DeleteSite, ToggleSiteStatus, ToggleWAF,
                UploadCertificate, DeleteCertificate, Arrive
  <1>2. CASE HandlerStep(h)
    <2>1. pc[h] # "idle" /\ quiet' = quiet
      BY <1>2 DEF HandlerStep, InsertSite, EditSite, SaveSite, SetStatus, SetWAF, DeleteRow,
         DeleteCertificateRow, WriteFails, RemoveSiteFromProxy, RefreshSite, AddOrUpdateSite,
         AddCertificate, AddToMap, history
    <2>. QED
      BY <2>1 DEF RoundOK, ControlOK
  <1>. QED
    BY <1>1, <1>2

\* A step of the round moves one row from todo into the maps, and leaves the
\* entries of the other domains alone.
LEMMA MonitorKeepsRound ==
  ASSUME IInv, MonitorStep
  PROVE  RoundOK' /\ ServedOK'
  <1> USE SiteAssumption DEF SiteAssumption, IInv, TypeOK, tables, maps, loop, history, Goto, Threads
  <1>0. SUFFICES ASSUME quiet' PROVE RoundOK' /\ ServedOK'
    BY DEF RoundOK, ServedOK
  <1>a. \A i \in Ids : Deployable(sites[i]) => sites[i] \in Site /\ Stored(i)
    BY StoredSite DEF Deployable, Stored, Statuses
  <1>1. CASE QueryActiveSites
    <2>1. pc'[Monitor] = "loop" /\ \A h \in Handlers : pc'[h] = "idle"
      BY <1>0, <1>1 DEF QueryActiveSites, ControlOK
    <2>2. \A s \in todo' : s = sites[s.id]
      BY <1>1 DEF QueryActiveSites, TablesOK
    <2>3. \A i \in Ids : Deployable(sites[i]) => sites[i] \in todo'
      BY <1>1 DEF QueryActiveSites, Deployable
    <2>4. sites' = sites
      BY <1>1 DEF QueryActiveSites
    <2>. QED
      BY <2>1, <2>2, <2>3, <2>4 DEF RoundOK, ServedOK, Deployable
  <1>2. CASE StartFails
    BY <1>0, <1>2 DEF StartFails, RoundOK
  <1>3. CASE NextSite
    <2>1. PICK s \in todo : site' = [site EXCEPT ![Monitor] = s] /\ todo' = todo \ {s}
      BY <1>3 DEF NextSite
    <2>2. /\ pc[Monitor] = "loop" /\ pc'[Monitor] = "load" /\ site'[Monitor] = s
          /\ UNCHANGED <<sites, certRows, domainMap, certificates, unread>>
          /\ quiet /\ \A h \in Handlers : pc'[h] = pc[h]
      BY <1>0, <1>3, <2>1 DEF NextSite, ControlOK, HandOK
    <2>3. RoundOK'
      BY <2>1, <2>2 DEF RoundOK
    <2>4. \A i \in Ids : Served(sites[i]) => Served(sites[i])'
      BY <2>2 DEF Served, ServedAs, Usable
    <2>5. \A i \in Ids : Deployable(sites[i])' => Deployable(sites[i]) /\ ~InFlight(sites[i])
      BY <2>2 DEF Deployable, InFlight
    <2>6. ServedOK'
      BY <2>1, <2>2, <2>4, <2>5 DEF ServedOK, InFlight
    <2>. QED
      BY <2>3, <2>6
  <1>4. CASE LoopEnds
    <2>1. /\ pc[Monitor] = "loop" /\ pc'[Monitor] = "idle" /\ todo = {} /\ todo' = {}
          /\ UNCHANGED <<sites, certRows, domainMap, certificates, unread>>
          /\ quiet /\ \A h \in Handlers : pc'[h] = pc[h]
      BY <1>0, <1>4 DEF LoopEnds, ControlOK
    <2>2. RoundOK'
      BY <2>1 DEF RoundOK
    <2>3. \A i \in Ids : /\ Served(sites[i]) => Served(sites[i])'
                         /\ Deployable(sites[i])' => Deployable(sites[i]) /\ ~InFlight(sites[i])
      BY <2>1 DEF Served, ServedAs, Usable, Deployable, InFlight
    <2>4. ServedOK'
      BY <2>1, <2>3 DEF ServedOK
    <2>. QED
      BY <2>2, <2>4
  <1>5. CASE AddCertificate(Monitor)
    <2>. DEFINE s == site[Monitor]
    <2>1. /\ pc[Monitor] = "load" /\ quiet /\ s \in Site
          /\ UNCHANGED <<sites, certRows, domainMap, todo>>
          /\ s = sites[s.id]
      BY <1>0, <1>5 DEF AddCertificate, HandOK, Holds, SiteSteps, RoundOK
    <2>2. s.id \in Ids /\ s.domain \in Domains /\ s.cert \in Certs \cup {None}
      BY <2>1, SiteFacts
    <2>3. CASE s.target \in Unparsable
      <3>1. /\ pc' = [pc EXCEPT ![Monitor] = "loop"] /\ UNCHANGED <<certificates, useHTTPS, unread>>
        BY <1>5, <2>3 DEF AddCertificate, AddOrUpdateSiteReturns
      <3>2. RoundOK'
        BY <2>1, <3>1 DEF RoundOK, ControlOK
      <3>3. \A i \in Ids : /\ Served(sites[i]) => Served(sites[i])'
                           /\ Deployable(sites[i])' => Deployable(sites[i]) /\ sites[i] # s
        BY <2>1, <2>3, <3>1 DEF Served, ServedAs, Usable, Deployable
      <3>4. ServedOK'
        BY <2>1, <3>3 DEF ServedOK, InFlight
      <3>. QED
        BY <3>2, <3>4
    <2>4. CASE s.target \notin Unparsable
      <3>1. PICK found \in BOOLEAN :
               /\ found => Usable(s.cert)
               /\ useHTTPS'[Monitor] = found
               /\ certificates' = IF found THEN [certificates EXCEPT ![s.domain] = s.cert]
                                  ELSE certificates
               /\ unread' = IF quiet /\ Usable(s.cert) /\ ~found
                            THEN unread \cup {s.domain} ELSE unread
               /\ pc' = [pc EXCEPT ![Monitor] = "publish"] /\ UNCHANGED site
        BY <1>5, <2>4, CertificateAdded DEF ControlOK
      <3>2. pc'[Monitor] = "publish" /\ \A h \in Handlers : pc'[h] = pc[h]
        BY <3>1 DEF ControlOK
      <3>3. IF useHTTPS'[Monitor] THEN Usable(s.cert) /\ certificates'[s.domain] = s.cert
                                  ELSE Usable(s.cert) => s.domain \in unread'
        BY <2>1, <2>2, <3>1 DEF MapsOK
      <3>4. Usable(s.cert)' = Usable(s.cert)
        BY <2>1, <3>1 DEF Usable
      <3>5. RoundOK'
        BY <2>1, <3>1, <3>2, <3>3, <3>4 DEF RoundOK
      <3>6. ASSUME NEW i \in Ids, Deployable(sites[i]), sites[i] # s, Served(sites[i])
            PROVE  Served(sites[i])'
        <4>1. Stored(i) /\ Stored(s.id) /\ i # s.id /\ sites[i] \in Site
          BY <1>a, <2>1, <2>2, <3>6 DEF Stored, Site, Rows
        <4>2. sites[i].domain # s.domain
          BY <2>1, <2>2, <4>1 DEF DomainsUnique
        <4>3. certificates'[sites[i].domain] = certificates[sites[i].domain]
          BY <2>2, <3>1, <4>1, <4>2, SiteFacts DEF MapsOK
        <4>. QED
          BY <2>1, <3>1, <3>6, <4>3 DEF Served, ServedAs, Usable
      <3>7. \A i \in Ids : Deployable(sites[i])' => Deployable(sites[i])
        BY <2>1 DEF Deployable
      <3>8. ServedOK'
        BY <2>1, <3>1, <3>2, <3>6, <3>7 DEF ServedOK, InFlight
      <3>. QED
        BY <3>5, <3>8
    <2>. QED
      BY <2>3, <2>4
  <1>6. CASE AddToMap(Monitor)
    <2>. DEFINE s == site[Monitor]
                e == [site |-> s, useHTTPS |-> useHTTPS[Monitor]]
    <2>1. /\ pc[Monitor] = "publish" /\ quiet /\ s \in Site
          /\ UNCHANGED <<sites, certRows, certificates, todo, unread>>
          /\ s = sites[s.id] /\ useHTTPS[Monitor] \in BOOLEAN
          /\ IF useHTTPS[Monitor] THEN Usable(s.cert) /\ certificates[s.domain] = s.cert
                                  ELSE Usable(s.cert) => s.domain \in unread
      BY <1>0, <1>6 DEF AddToMap, HandOK, Holds, SiteSteps, RoundOK, ControlOK
    <2>2. s.id \in Ids /\ s.domain \in Domains
      BY <2>1, SiteFacts
    <2>3. pc' = [pc EXCEPT ![Monitor] = "loop"] /\ domainMap' = [domainMap EXCEPT ![s.domain] = e]
      BY <1>6 DEF AddToMap, AddOrUpdateSiteReturns
    <2>4. e \in Entry /\ e # None /\ e.site = s /\ e.useHTTPS = useHTTPS[Monitor]
      BY <2>1 DEF Entry, ControlOK
    <2>5. RoundOK'
      BY <2>1, <2>3 DEF RoundOK, ControlOK
    <2>6. ASSUME NEW i \in Ids, sites[i] = s PROVE Served(sites[i])'
      <3>1. domainMap'[sites[i].domain] = e
        BY <2>2, <2>3, <2>6 DEF MapsOK
      <3>2. /\ e # None /\ e.site = sites[i] /\ e.useHTTPS \in BOOLEAN
            /\ IF e.useHTTPS
               THEN Usable(sites[i].cert) /\ certificates[sites[i].domain] = sites[i].cert
               ELSE Usable(sites[i].cert) => sites[i].domain \in unread
        BY <2>1, <2>4, <2>6
      <3>. HIDE DEF e, s
      <3>. QED
        BY <2>1, <3>1, <3>2 DEF Served, ServedAs, Usable
    <2>7. ASSUME NEW i \in Ids, Deployable(sites[i]), sites[i] # s, Served(sites[i])
          PROVE  Served(sites[i])'
      <3>1. Stored(i) /\ Stored(s.id) /\ i # s.id /\ sites[i] \in Site
        BY <1>a, <2>1, <2>2, <2>7 DEF Stored, Site, Rows
      <3>2. sites[i].domain # s.domain
        BY <2>1, <2>2, <3>1 DEF DomainsUnique
      <3>3. domainMap'[sites[i].domain] = domainMap[sites[i].domain]
        BY <2>2, <2>3, <3>1, <3>2, SiteFacts DEF MapsOK
      <3>. QED
        BY <2>1, <2>7, <3>3 DEF Served, ServedAs, Usable
    <2>8. ServedOK'
      <3>1. \A i \in Ids : Deployable(sites[i])' => Deployable(sites[i])
        BY <2>1 DEF Deployable
      <3>. HIDE DEF e
      <3>. QED
        BY <2>1, <2>6, <2>7, <3>1 DEF ServedOK, InFlight
    <2>. QED
      BY <2>5, <2>8
  <1>. QED
    BY <1>1, <1>2, <1>3, <1>4, <1>5, <1>6 DEF MonitorStep, AddOrUpdateSite

\* So a round is either ended by a request or goes on as it should.
LEMMA NextRound ==
  ASSUME IInv, Next
  PROVE  RoundOK' /\ ServedOK'
  <1>1. ASSUME NEW h \in Handlers, Arrival(h) \/ HandlerStep(h) PROVE RoundOK' /\ ServedOK'
    BY <1>1, HandlersEndRound DEF RoundOK, ServedOK
  <1>. QED
    BY <1>1, MonitorKeepsRound DEF Next

-----------------------------------------------------------------------------
(* The theorems.                                                           *)

\* A proxy that has just started serves nothing and has nothing in hand.
LEMMA InitIInv == Init => IInv
  <1> SUFFICES ASSUME Init PROVE IInv
    OBVIOUS
  <1> USE SiteAssumption DEF SiteAssumption, Init, Threads
  <1>1. TablesOK
    BY DEF TablesOK
  <1>2. MapsOK
    BY DEF MapsOK
  <1>3. ControlOK
    <2>1. requests \in 0..MaxRequests
      OBVIOUS
    <2>2. /\ pc \in [Threads -> HandlerSteps \cup MonitorSteps]
          /\ pc[Monitor] = "starting" /\ \A h \in Handlers : pc[h] = "idle"
      BY DEF HandlerSteps, MonitorSteps
    <2>3. /\ useHTTPS \in [Threads -> BOOLEAN] /\ quiet \in BOOLEAN /\ proxyMutex = None
          /\ started \in BOOLEAN /\ owed \subseteq Domains
          /\ unread \subseteq Domains /\ overtaken \subseteq Domains
      OBVIOUS
    <2>4. owned \in [Ids -> SUBSET Domains]
      BY <1>1, SiteFacts, StoredSite
    <2>. HIDE DEF SiteAssumption, Init, Threads
    <2>. QED
      BY <2>1, <2>2, <2>3, <2>4 DEF ControlOK, HandlerSteps, MonitorSteps
  <1>4. HandOK
    <2>1. NoSite(None, "free") \in InHand
      BY AbsentSite
    <2>2. \A t \in Threads : Holds(pc[t], site[t])
      BY DEF Holds, SiteSteps
    <2>. QED
      BY <2>1, <2>2 DEF HandOK
  <1>5. DomainsUnique
    BY DEF DomainsUnique, DomainTaken
  <1>6. ProxyMutexOK /\ CertificatesOK /\ RoundOK /\ ServedOK
    BY DEF ProxyMutexOK, CertificatesOK, HTTPSEntriesHaveCertificates, RoundOK, ServedOK
  <1>7. OwnedOK
    BY DEF OwnedOK, RowsOwn, Stored, Statuses, Owns, PublishingSteps, RoutedToOwner
  <1>. QED
    BY <1>1, <1>2, <1>3, <1>4, <1>5, <1>6, <1>7 DEF IInv, TypeOK

\* The table, the maps and what every goroutine has in hand fit together.
THEOREM Invariance == Spec => []IInv
  <1>1. IInv /\ [Next]_vars => IInv'
    <2> SUFFICES ASSUME IInv, [Next]_vars PROVE IInv'
      OBVIOUS
    <2>1. CASE Next
      BY <2>1, NextTablesOK, NextMapsOK, NextControlOK, NextHandOK, NextProxyMutexOK,
         NextDomainsUnique, NextOwnedOK, NextCertificatesOK, NextRound DEF IInv, TypeOK
    <2>2. CASE UNCHANGED vars
      <3> USE <2>2 DEF vars, tables, maps, loop, history, IInv, TypeOK
      <3>1. TablesOK' /\ MapsOK' /\ ControlOK'
        BY DEF TablesOK, MapsOK, ControlOK
      <3>2. HandOK'
        BY DEF HandOK, Holds
      <3>3. ProxyMutexOK' /\ DomainsUnique' /\ CertificatesOK'
        BY DEF ProxyMutexOK, DomainsUnique, Stored, CertificatesOK, HTTPSEntriesHaveCertificates
      <3>4. RoundOK'
        BY DEF RoundOK, Usable
      <3>5. ServedOK'
        BY DEF ServedOK, Served, ServedAs, Deployable, InFlight, Usable
      <3>6. OwnedOK'
        BY DEF OwnedOK, RowsOwn, Stored, Owns, Had, RoutedToOwner
      <3>. QED
        BY <3>1, <3>2, <3>3, <3>4, <3>5, <3>6
    <2>. QED
      BY <2>1, <2>2
  <1>. QED
    BY InitIInv, <1>1, PTL DEF Spec

\* Every variable keeps its type, and every goroutine has in hand what its next
\* statement needs.
THEOREM TypeCorrect == Spec => []TypeOK
  <1>1. IInv => TypeOK
    BY DEF IInv
  <1>. QED
    BY Invariance, <1>1, PTL

\* Whatever the handlers' checks have found and whichever writes the table refuses, the
\* proxy routes a domain to a site only if the table has given it to that site.
THEOREM DomainsRoutedToOwners == Spec => []RoutedToOwner
  <1>1. IInv => RoutedToOwner
    BY DEF IInv, OwnedOK
  <1>. QED
    BY Invariance, <1>1, PTL

\* An entry over HTTPS has its certificate: proxyMutex keeps the handlers from each
\* other's, and only a removal that the monitor's update overtakes takes one away.
THEOREM EntriesKeepTheirCertificates == Spec => []HTTPSEntriesHaveCertificates
  <1>1. IInv => HTTPSEntriesHaveCertificates
    BY DEF IInv, CertificatesOK
  <1>. QED
    BY Invariance, <1>1, PTL

\* A round of the monitor that no request overlaps repairs the proxy, but for the
\* certificates it cannot read.
THEOREM MonitorRepairsTheProxy == Spec => []MonitorRepairs
  <1>1. IInv => MonitorRepairs
    BY DEF IInv, RoundOK, ServedOK, Served, InFlight, MonitorRepairs
  <1>. QED
    BY Invariance, <1>1, PTL

\* An entry is taken out of domainMap by RemoveSiteFromProxy only.
THEOREM ServiceHasNoGap == Spec => NoGapInService
  <1>1. ASSUME IInv, [Next]_vars, NEW d \in Domains, domainMap[d] # None, domainMap'[d] = None
        PROVE  \E h \in Handlers : /\ pc[h] \in {"remove", "deactivate"}
                                   /\ pc'[h] # pc[h]
                                   /\ site[h].domain = d
    <2> USE <1>1, SiteAssumption DEF SiteAssumption, IInv, TypeOK
    <2>1. ASSUME NEW t \in Threads, AddToMap(t) PROVE FALSE
      <3>. DEFINE e == [site |-> site[t], useHTTPS |-> useHTTPS[t]]
      <3>1. site[t] \in Site /\ useHTTPS[t] \in BOOLEAN
        BY <2>1 DEF AddToMap, HandOK, Holds, SiteSteps, ControlOK
      <3>2. e \in Entry
        BY <3>1 DEF Entry
      <3>3. domainMap' = [domainMap EXCEPT ![site[t].domain] = e]
        BY <2>1 DEF AddToMap
      <3>4. e # None
        BY <3>2
      <3>. HIDE DEF e
      <3>. QED
        BY <3>3, <3>4 DEF MapsOK
    <2>2. PICK h \in Handlers : RemoveSiteFromProxy(h)
      BY <2>1 DEF Next, MonitorStep, Arrival, HandlerStep, AddOrUpdateSite, Threads, vars, maps,
         loop, history, CreateSite, UpdateSite, DeleteSite, ToggleSiteStatus, ToggleWAF,
         UploadCertificate, DeleteCertificate, Arrive, InsertSite, EditSite, SaveSite, SetStatus,
         SetWAF, DeleteRow, DeleteCertificateRow, WriteFails, RefreshSite, AddCertificate,
         QueryActiveSites, StartFails, NextSite, LoopEnds
    <2>3. site[h].domain = d
      BY <2>2 DEF RemoveSiteFromProxy, MapsOK
    <2>4. pc[h] \in {"remove", "deactivate"} /\ pc'[h] # pc[h]
      BY <2>2 DEF RemoveSiteFromProxy, Done, Goto, ControlOK, Threads
    <2>. QED
      BY <2>3, <2>4
  <1>2. IInv /\ [Next]_vars => [\A d \in Domains :
          domainMap[d] # None /\ domainMap'[d] = None =>
              \E h \in Handlers : /\ pc[h] \in {"remove", "deactivate"}
                                  /\ pc'[h] # pc[h]
                                  /\ site[h].domain = d]_vars
    BY <1>1
  <1>. QED
    BY Invariance, <1>2, PTL DEF Spec, NoGapInService

-----------------------------------------------------------------------------
(* Waiting for proxyMutex.                                                 *)

\* proxyMutex is held by a handler inside AddOrUpdateSite, or by nobody.
HolderOK == proxyMutex # None => pc[proxyMutex] \in {"load", "publish"}

LEMMA NextHolderOK ==
  ASSUME IInv, HolderOK, Next
  PROVE  HolderOK'
  <1>. USE SiteAssumption DEF SiteAssumption, IInv, TypeOK, ControlOK, HolderOK, ProxyMutexOK,
       Goto, Done, Threads, loop, history
  <1>1. ASSUME NEW h \in Handlers, Arrival(h) PROVE HolderOK'
    <2>1. pc[h] = "idle" /\ proxyMutex' = proxyMutex /\ \A t \in Threads \ {h} : pc'[t] = pc[t]
      BY <1>1 DEF Arrival, Arrive, CreateSite, UpdateSite, DeleteSite, ToggleSiteStatus,
         ToggleWAF, UploadCertificate, DeleteCertificate
    <2>. QED
      BY <2>1
  <1>2. ASSUME NEW h \in Handlers,
               \/ InsertSite(h) \/ EditSite(h) \/ SaveSite(h) \/ SetStatus(h) \/ SetWAF(h)
               \/ DeleteRow(h) \/ DeleteCertificateRow(h) \/ WriteFails(h)
               \/ RemoveSiteFromProxy(h)
        PROVE  HolderOK'
    <2>1. /\ pc[h] \notin {"load", "publish"} /\ proxyMutex' = proxyMutex
          /\ \A t \in Threads \ {h} : pc'[t] = pc[t]
      BY <1>2 DEF InsertSite, EditSite, SaveSite, SetStatus, SetWAF, Written, DeleteRow,
         DeleteCertificateRow, WriteFails, RemoveSiteFromProxy
    <2>. QED
      BY <2>1
  <1>3. ASSUME NEW h \in Handlers, RefreshSite(h) PROVE HolderOK'
    BY <1>3 DEF RefreshSite
  <1>4. ASSUME NEW t \in Threads, AddOrUpdateSite(t) PROVE HolderOK'
    <2>1. \/ /\ proxyMutex' = proxyMutex
             /\ pc' = [pc EXCEPT ![t] = IF pc'[t] = "publish" THEN "publish" ELSE "loop"]
             /\ t = Monitor \/ pc'[t] = "publish"
          \/ proxyMutex' = None
      BY <1>4 DEF AddOrUpdateSite, AddCertificate, AddToMap, AddOrUpdateSiteReturns
    <2>. QED
      BY <2>1
  <1>5. CASE QueryActiveSites \/ StartFails \/ NextSite \/ LoopEnds
    BY <1>5 DEF QueryActiveSites, StartFails, NextSite, LoopEnds
  <1>. QED
    BY <1>1, <1>2, <1>3, <1>4, <1>5 DEF Next, MonitorStep, HandlerStep, AddOrUpdateSite

\* Whom a goroutine at Lock() of proxyMutex waits for.
WaitsFor(t) ==
    IF pc[t] \in {"remove", "deactivate", "refresh"} THEN proxyMutex ELSE None

\* Refreshes and removals never wait for each other in a circle: whoever has proxyMutex
\* waits for nobody, nor does the monitor, which works without it.
THEOREM ProxyNeverDeadlocks ==
  Spec => [](\A S \in SUBSET Threads : S # {} => \E t \in S : WaitsFor(t) \notin S)
  <1>1. Init => HolderOK
    BY DEF Init, HolderOK
  <1>2. IInv /\ HolderOK /\ [Next]_vars => HolderOK'
    <2>1. HolderOK /\ UNCHANGED vars => HolderOK'
      BY DEF HolderOK, vars
    <2>. QED
      BY <2>1, NextHolderOK
  <1>3. IInv /\ HolderOK =>
          \A S \in SUBSET Threads : S # {} => \E t \in S : WaitsFor(t) \notin S
    <2> SUFFICES ASSUME IInv, HolderOK, NEW S \in SUBSET Threads, NEW t \in S,
                        \A u \in S : WaitsFor(u) \in S
                 PROVE  FALSE
      OBVIOUS
    <2>1. WaitsFor(t) = proxyMutex /\ proxyMutex # None /\ proxyMutex \in S
      BY SiteAssumption DEF WaitsFor, SiteAssumption
    <2>2. WaitsFor(proxyMutex) = None
      BY <2>1 DEF WaitsFor, HolderOK
    <2>. QED
      BY <2>1, <2>2, SiteAssumption DEF SiteAssumption
  <1>. QED
    BY <1>1, <1>2, <1>3, Invariance, PTL DEF Spec

-----------------------------------------------------------------------------
(* ServingPath: the rounds of LoadActiveSites.                             *)

\* The rows a round has still to take have different domains, ...
RowsOK ==
    /\ \A r, s \in todo : r.domain = s.domain => r = s
    /\ pc[Monitor] = "load" => \A s \in todo : s.domain # site[Monitor].domain
\* ... and Start waits for the first round.
StartedOK ==
    /\ pc[Monitor] \in {"starting", "stopped"} => ~started
    /\ pc[Monitor] = "idle" => started

ServingInv == IInv /\ RowsOK /\ StartedOK

\* A handler leaves the monitor and the other handlers alone, and the maps, the calls
\* of AddOrUpdateSite and what Start owes are changed in three of its steps only.
LEMMA HandlerTouches ==
  ASSUME IInv, NEW h \in Handlers, Arrival(h) \/ HandlerStep(h)
  PROVE  /\ todo' = todo /\ started' = started
         /\ \A t \in Threads \ {h} :
               pc'[t] = pc[t] /\ site'[t] = site[t] /\ useHTTPS'[t] = useHTTPS[t]
         /\ \/ RemoveSiteFromProxy(h) \/ AddCertificate(h) \/ AddToMap(h)
            \/ /\ UNCHANGED <<domainMap, certificates, owed>>
               /\ pc[h] # "publish" /\ pc'[h] # "publish"
  <1>. DEFINE Alone == /\ todo' = todo /\ started' = started
                       /\ \A t \in Threads \ {h} : /\ pc'[t] = pc[t] /\ site'[t] = site[t]
                                                   /\ useHTTPS'[t] = useHTTPS[t]
              Outside == /\ UNCHANGED <<domainMap, certificates, owed>>
                         /\ pc[h] # "publish" /\ pc'[h] # "publish"
  <1>. USE DEF IInv, TypeOK, ControlOK, HandOK, tables, maps, loop, history, Goto, Done, Threads
  <1>1. CASE Arrival(h)
    <2>1. ASSUME NEW op, Arrive(h, op) 
          PROVE  UNCHANGED <<domainMap, certificates, todo, useHTTPS, started, owed>> /\ pc[h] = "idle"
      BY <2>1 DEF Arrive
    <2>2. ASSUME CreateSite(h) PROVE Alone /\ Outside
      BY <2>1, <2>2 DEF CreateSite
    <2>3. ASSUME NEW i \in Ids, UpdateSite(h, i) PROVE Alone /\ Outside
      BY <2>1, <2>3 DEF UpdateSite
    <2>4. ASSUME NEW i \in Ids, DeleteSite(h, i) PROVE Alone /\ Outside
      BY <2>1, <2>4 DEF DeleteSite
    <2>5. ASSUME NEW i \in Ids, ToggleSiteStatus(h, i) PROVE Alone /\ Outside
      BY <2>1, <2>5 DEF ToggleSiteStatus
    <2>6. ASSUME NEW i \in Ids, ToggleWAF(h, i) PROVE Alone /\ Outside
      BY <2>1, <2>6 DEF ToggleWAF
    <2>7. ASSUME NEW c \in Certs, UploadCertificate(h, c) PROVE Alone /\ Outside
      BY <2>1, <2>7 DEF UploadCertificate
    <2>8. ASSUME NEW c \in Certs, DeleteCertificate(h, c) PROVE Alone /\ Outside
      BY <2>1, <2>8 DEF DeleteCertificate
    <2>. HIDE DEF Alone, Outside
    <2>9. Alone /\ Outside
      BY <1>1, <2>2, <2>3, <2>4, <2>5, <2>6, <2>7, <2>8 DEF Arrival
    <2>. QED
      BY <2>9 DEF Alone, Outside
  <1>2. ASSUME \/ InsertSite(h) \/ EditSite(h) \/ SaveSite(h) \/ SetStatus(h) \/ SetWAF(h)
               \/ DeleteRow(h) \/ DeleteCertificateRow(h) \/ WriteFails(h) \/ RefreshSite(h)
        PROVE  Alone /\ Outside
    <2>1. ASSUME InsertSite(h) PROVE Alone /\ Outside
      BY <2>1 DEF InsertSite
    <2>2. ASSUME EditSite(h) PROVE Alone /\ Outside
      BY <2>2 DEF EditSite
    <2>3. ASSUME SaveSite(h) PROVE Alone /\ Outside
      BY <2>3 DEF SaveSite, Written
    <2>4. ASSUME SetStatus(h) PROVE Alone /\ Outside
      BY <2>4 DEF SetStatus, Written
    <2>5. ASSUME SetWAF(h) PROVE Alone /\ Outside
      BY <2>5 DEF SetWAF, Written
    <2>6. ASSUME DeleteRow(h) PROVE Alone /\ Outside
      BY <2>6 DEF DeleteRow
    <2>7. ASSUME DeleteCertificateRow(h) PROVE Alone /\ Outside
      BY <2>7 DEF DeleteCertificateRow
    <2>8. ASSUME WriteFails(h) PROVE Alone /\ Outside
      BY <2>8 DEF WriteFails
    <2>9. ASSUME RefreshSite(h) PROVE Alone /\ Outside
      BY <2>9 DEF RefreshSite
    <2>. QED
      BY <1>2, <2>1, <2>2, <2>3, <2>4, <2>5, <2>6, <2>7, <2>8, <2>9
  <1>3. ASSUME RemoveSiteFromProxy(h) PROVE Alone
    BY <1>3 DEF RemoveSiteFromProxy
  <1>4. ASSUME AddCertificate(h) PROVE Alone
    BY <1>4, SiteAssumption DEF SiteAssumption, AddCertificate, AddOrUpdateSiteReturns
  <1>5. ASSUME AddToMap(h) PROVE Alone
    BY <1>5, SiteAssumption DEF SiteAssumption, AddToMap, AddOrUpdateSiteReturns
  <1>6. CASE HandlerStep(h)
    <2>. HIDE DEF IInv, TypeOK, ControlOK, HandOK, tables, maps, loop, history, Goto, Done, Threads, Alone, Outside
    <2>1. /\ Alone
          /\ RemoveSiteFromProxy(h) \/ AddCertificate(h) \/ AddToMap(h) \/ Outside
      BY <1>2, <1>3, <1>4, <1>5, <1>6 DEF HandlerStep, AddOrUpdateSite
    <2>. QED
      BY <2>1 DEF Alone, Outside
  <1>. QED
    BY <1>1, <1>6

\* A round starts with rows of the table, whose domains differ, and takes each once.
LEMMA NextRowsOK ==
  ASSUME ServingInv, Next
  PROVE  RowsOK'
  <1>. USE SiteAssumption DEF SiteAssumption, ServingInv
  <1>1. ASSUME NEW h \in Handlers, Arrival(h) \/ HandlerStep(h) PROVE RowsOK'
    <2>1. todo' = todo /\ pc'[Monitor] = pc[Monitor] /\ site'[Monitor] = site[Monitor]
      BY <1>1, HandlerTouches DEF Threads
    <2>. QED
      BY <2>1 DEF RowsOK
  <1>. USE DEF IInv, TypeOK, ControlOK, HandOK, Goto, Threads, loop, history
  <1>2. CASE QueryActiveSites
    <2>1. /\ todo' = {s \in {sites[i] : i \in Ids} : s.status = "active"}
          /\ pc'[Monitor] = "loop"
      BY <1>2 DEF QueryActiveSites
    <2>2. ASSUME NEW r \in todo', NEW s \in todo', r.domain = s.domain PROVE r = s
      <3>1. PICK i \in Ids, j \in Ids : r = sites[i] /\ s = sites[j] /\ Stored(i) /\ Stored(j)
        BY <2>1 DEF Stored, Statuses
      <3>. QED
        BY <2>2, <3>1 DEF DomainsUnique
    <2>. QED
      BY <2>1, <2>2 DEF RowsOK
  <1>3. CASE NextSite
    <2>1. PICK s \in todo : site' = [site EXCEPT ![Monitor] = s] /\ todo' = todo \ {s}
      BY <1>3 DEF NextSite
    <2>. QED
      BY <2>1 DEF RowsOK
  <1>4. CASE StartFails \/ LoopEnds
    BY <1>4 DEF StartFails, LoopEnds, RowsOK
  <1>5. CASE AddOrUpdateSite(Monitor)
    <2>1. todo' = todo /\ pc'[Monitor] \in {"loop", "publish"}
      BY <1>5 DEF AddOrUpdateSite, AddCertificate, AddToMap, AddOrUpdateSiteReturns
    <2>. QED
      BY <2>1 DEF RowsOK
  <1>. QED
    BY <1>1, <1>2, <1>3, <1>4, <1>5 DEF Next, MonitorStep

\* The first round ends where started begins.
LEMMA NextStartedOK ==
  ASSUME ServingInv, Next
  PROVE  StartedOK'
  <1>. USE SiteAssumption DEF SiteAssumption, ServingInv, StartedOK
  <1>1. ASSUME NEW h \in Handlers, Arrival(h) \/ HandlerStep(h) PROVE StartedOK'
    <2>1. pc'[Monitor] = pc[Monitor] /\ started' = started
      BY <1>1, HandlerTouches DEF Threads
    <2>. QED
      BY <2>1
  <1>. USE DEF IInv, TypeOK, ControlOK, Goto, Threads, MonitorSteps, history
  <1>2. CASE QueryActiveSites
    <2>1. /\ pc[Monitor] \in {"starting", "idle"} /\ pc'[Monitor] = "loop" /\ started' = started
      BY <1>2 DEF QueryActiveSites
    <2>. QED
      BY <2>1
  <1>3. CASE StartFails \/ NextSite \/ LoopEnds
    BY <1>3 DEF StartFails, NextSite, LoopEnds
  <1>4. CASE AddOrUpdateSite(Monitor)
    BY <1>4 DEF AddOrUpdateSite, AddCertificate, AddToMap, AddOrUpdateSiteReturns
  <1>. QED
    BY <1>1, <1>2, <1>3, <1>4 DEF Next, MonitorStep

-----------------------------------------------------------------------------
(* ServingPath: the state it sees.                                         *)

\* What is no step of the maps is none of ServingPath.
LEMMA PathStutters ==
  ASSUME UNCHANGED <<domainMap, certificates, started, owed>>,
         Unloaded' = Unloaded, StartOf' = StartOf,
         \A t \in Threads : /\ pc[t] # "publish" /\ pc'[t] # "publish"
                            \/ UNCHANGED <<pc[t], site[t], useHTTPS[t]>>
  PROVE  UNCHANGED Path!pathVars
  <1>1. Calls' = Calls
    <2>1. \A t \in Threads : (pc'[t] = "publish") <=> (pc[t] = "publish")
      OBVIOUS
    <2>2. \A t \in Threads : pc[t] = "publish" => CallOf(t)' = CallOf(t)
      BY DEF CallOf, CallerOf
    <2>. QED
      BY <2>1, <2>2 DEF Calls
  <1>2. \A d \in Domains : EntryOf(d)' = EntryOf(d)
    BY DEF EntryOf
  <1>. QED
    BY <1>1, <1>2 DEF Path!pathVars, Path!vars, Path!maps, Path!starting, Path!listeners,
                      Path!requests, NoVisits

\* AddCertificate begins a call, of a caller that has none.
LEMMA CallBegins ==
  ASSUME ServingInv, NEW t \in Threads, AddCertificate(t),
         site[t].target \notin Unparsable,
         NEW d, d = site[t].domain, NEW by, by = CallerOf(t),
         NEW entry, entry = PathEntry(useHTTPS'[t])
  PROVE  /\ d \in Domains /\ entry \in Path!Entries
         /\ Path!AddCertificate(d, entry, by)
         /\ \A call \in Calls : call.by # by
         /\ UNCHANGED <<started, owed>>
  <1>. USE SiteAssumption DEF SiteAssumption, ServingInv, IInv, TypeOK, ControlOK, HandOK, Goto, Threads
  <1>. PICK found \in BOOLEAN :
          /\ found => site[t].cert # None
          /\ useHTTPS' = [useHTTPS EXCEPT ![t] = found] /\ useHTTPS'[t] = found
          /\ certificates' = IF found THEN [certificates EXCEPT ![d] = site[t].cert]
                             ELSE certificates
    BY CertificateAdded
  <1>1. /\ pc[t] = "load" /\ site[t] \in Site
        /\ pc' = [pc EXCEPT ![t] = "publish"] /\ UNCHANGED <<site, domainMap, todo>>
    BY DEF AddCertificate, Holds, SiteSteps
  <1>2. d \in Domains /\ site[t].cert \in Certs \cup {None}
    BY <1>1, SiteFacts
  <1>3. entry \in Path!Entries
    BY DEF PathEntry, Path!Entries
  <1>4. UNCHANGED <<started, owed>>
    BY DEF AddCertificate
  <1>5. \A call \in Calls : call.by # by
    <2>1. ASSUME NEW u \in Threads, pc[u] = "publish" PROVE CallerOf(u) # CallerOf(t)
      BY <1>1, <2>1 DEF CallerOf, ProxyMutexOK
    <2>. QED
      BY <2>1 DEF Calls, CallOf
  <1>6. Calls' = Calls \cup {[site |-> d, entry |-> entry, by |-> by]}
    <2>1. \A u \in Threads : pc'[u] = "publish" <=> pc[u] = "publish" \/ u = t
      BY <1>1
    <2>2. CallOf(t)' = [site |-> d, entry |-> entry, by |-> by]
      BY <1>1, <1>4 DEF CallOf, CallerOf
    <2>3. \A u \in Threads : u # t => CallOf(u)' = CallOf(u)
      BY <1>1, <1>4 DEF CallOf, CallerOf
    <2>. QED
      BY <1>1, <2>1, <2>2, <2>3 DEF Calls
  <1>7. {e \in Domains : certificates'[e] # None}
          = {e \in Domains : certificates[e] # None} \cup (IF entry = "https" THEN {d} ELSE {})
    BY <1>1, <1>2 DEF PathEntry, MapsOK
  <1>8. \A e \in Domains : EntryOf(e)' = EntryOf(e)
    BY <1>1 DEF EntryOf
  <1>. HIDE DEF SiteAssumption, ServingInv, IInv, TypeOK, ControlOK, HandOK, Goto, Threads
  <1>9. Path!AddCertificate(d, entry, by)
    BY <1>2, <1>4, <1>5, <1>6, <1>7, <1>8
       DEF Path!AddCertificate, Path!Call, Path!listeners, Path!requests, Path!vars, NoVisits
  <1>. QED
    BY <1>2, <1>3, <1>4, <1>5, <1>9

\* AddToMap ends the call of its goroutine.
LEMMA CallEnds ==
  ASSUME ServingInv, NEW t \in Threads, AddToMap(t),
         NEW call, call = CallOf(t)
  PROVE  /\ call \in Calls
         /\ Path!AddToMap(call)
         /\ UNCHANGED <<started, owed>>
         /\ call.by = "start" <=> (t = Monitor /\ ~started)
         /\ call.by # "start" => UNCHANGED <<StartOf, Unloaded>>
         /\ call.by = "start" => StartOf = "load" /\ StartOf' = "load" /\ Unloaded' = Unloaded
  <1>. USE SiteAssumption DEF SiteAssumption, ServingInv, IInv, TypeOK, ControlOK, HandOK, Goto, Threads
  <1>. PICK d, e : d = site[t].domain /\ e = [site |-> site[t], useHTTPS |-> useHTTPS[t]]
    OBVIOUS
  <1>1. /\ pc[t] = "publish" /\ site[t] \in Site /\ useHTTPS[t] \in BOOLEAN
        /\ domainMap' = [domainMap EXCEPT ![d] = e]
        /\ useHTTPS' = [useHTTPS EXCEPT ![t] = FALSE]
        /\ pc' = [pc EXCEPT ![t] = IF t = Monitor THEN "loop" ELSE "idle"]
        /\ \A u \in Threads \ {t} : site'[u] = site[u]
        /\ UNCHANGED <<certificates, todo>>
    BY DEF AddToMap, AddOrUpdateSiteReturns, Done, Holds, SiteSteps
  <1>2. d \in Domains /\ e \in Entry /\ e # None /\ e.useHTTPS = useHTTPS[t]
    BY <1>1, SiteFacts DEF Entry
  <1>3. call \in Calls
    BY <1>1 DEF Calls
  <1>4. call.site = d /\ call.entry = PathEntry(useHTTPS[t]) /\ call.by = CallerOf(t)
    BY DEF CallOf
  <1>5. UNCHANGED <<started, owed>>
    BY DEF AddToMap, history
  <1>6. ASSUME NEW u \in Threads, u # t, pc[u] = "publish" PROVE CallerOf(u) # CallerOf(t)
    BY <1>1, <1>6 DEF CallerOf, ProxyMutexOK
  <1>7. Calls' = Calls \ {call}
    <2>1. \A u \in Threads : pc'[u] = "publish" <=> pc[u] = "publish" /\ u # t
      BY <1>1
    <2>2. \A u \in Threads : u # t => CallOf(u)' = CallOf(u)
      BY <1>1, <1>5 DEF CallOf, CallerOf
    <2>3. \A u \in Threads : u # t /\ pc[u] = "publish" => CallOf(u) # call
      BY <1>6 DEF CallOf
    <2>. QED
      BY <1>1, <2>1, <2>2, <2>3 DEF Calls
  <1>8. [q \in Domains |-> EntryOf(q)]'
          = [[q \in Domains |-> EntryOf(q)] EXCEPT ![d] = PathEntry(useHTTPS[t])]
    <2>1. EntryOf(d)' = PathEntry(useHTTPS[t])
      BY <1>1, <1>2 DEF EntryOf, MapsOK
    <2>2. \A q \in Domains : q # d => EntryOf(q)' = EntryOf(q)
      BY <1>1, <1>2 DEF EntryOf, MapsOK
    <2>. QED
      BY <1>2, <2>1, <2>2
  <1>9. UNCHANGED <<StartOf, Unloaded>>
    BY <1>1, <1>5 DEF StartOf, Unloaded, StartedOK
  <1>10. call.by = "start" <=> (t = Monitor /\ ~started)
    BY <1>4 DEF CallerOf
  <1>11. call.by = "start" => StartOf = "load"
    BY <1>1, <1>10 DEF StartOf
  <1>. HIDE DEF SiteAssumption, ServingInv, IInv, TypeOK, ControlOK, HandOK, Goto, Threads
  <1>12. Path!AddToMap(call)
    BY <1>3, <1>4, <1>5, <1>7, <1>8, <1>1, <1>9
       DEF Path!AddToMap, Path!starting, Path!listeners, Path!requests, Path!vars, NoVisits
  <1>. QED
    BY <1>3, <1>5, <1>9, <1>10, <1>11, <1>12

\* RemoveSiteFromProxy removes the site, if it is served.
LEMMA SiteRemoved ==
  ASSUME ServingInv, NEW h \in Handlers, RemoveSiteFromProxy(h),
         NEW d, d = site[h].domain
  PROVE  \/ d \in Domains /\ Path!RemoveSite(d)
         \/ UNCHANGED Path!pathVars
  <1>. USE SiteAssumption DEF SiteAssumption, ServingInv, IInv, TypeOK, ControlOK, HandOK, Goto, Threads
  <1>1. /\ pc[h] \in {"remove", "deactivate"} /\ site[h] \in Site
        /\ pc'[h] # "publish"
        /\ \A t \in Threads \ {h} : /\ pc'[t] = pc[t] /\ site'[t] = site[t]
                                    /\ useHTTPS'[t] = useHTTPS[t]
        /\ domainMap' = [domainMap EXCEPT ![d] = None]
        /\ certificates' = IF domainMap[d] # None /\ domainMap[d].useHTTPS
                           THEN [certificates EXCEPT ![d] = None] ELSE certificates
        /\ UNCHANGED <<todo, useHTTPS>>
    BY DEF RemoveSiteFromProxy, Done, Holds, SiteSteps, loop
  <1>2. d \in Domains
    BY <1>1, SiteFacts
  <1>3. h # Monitor /\ pc'[Monitor] = pc[Monitor] /\ site'[Monitor] = site[Monitor]
    BY <1>1
  <1>4. started' = started
    BY DEF RemoveSiteFromProxy
  <1>5. Unloaded' = Unloaded /\ StartOf' = StartOf
    BY <1>1, <1>3, <1>4 DEF Unloaded, StartOf
  <1>6. CASE domainMap[d] = None
    <2>1. domainMap' = domainMap
      BY <1>1, <1>6 DEF MapsOK
    <2>2. owed' = owed
      BY <1>6 DEF RemoveSiteFromProxy
    <2>. QED
      BY <1>1, <1>4, <1>5, <1>6, <2>1, <2>2, PathStutters
  <1>7. CASE domainMap[d] # None
    <2>1. owed' = owed \ {d}
      BY <1>7 DEF RemoveSiteFromProxy
    <2>2. Calls' = Calls
      <3>1. \A t \in Threads : pc'[t] = "publish" <=> pc[t] = "publish"
        BY <1>1
      <3>2. \A t \in Threads : pc[t] = "publish" => CallOf(t)' = CallOf(t)
        BY <1>1, <1>4 DEF CallOf, CallerOf
      <3>. QED
        BY <3>1, <3>2 DEF Calls
    <2>3. [q \in Domains |-> EntryOf(q)]' = [[q \in Domains |-> EntryOf(q)] EXCEPT ![d] = "absent"]
      BY <1>1, <1>2 DEF EntryOf, MapsOK
    <2>4. EntryOf(d) # "absent" /\ (EntryOf(d) = "https" <=> domainMap[d].useHTTPS)
      BY <1>2, <1>7 DEF EntryOf, PathEntry
    <2>5. {q \in Domains : certificates'[q] # None}
            = IF EntryOf(d) = "https" THEN {q \in Domains : certificates[q] # None} \ {d}
              ELSE {q \in Domains : certificates[q] # None}
      BY <1>1, <1>2, <1>7, <2>4 DEF MapsOK
    <2>. HIDE DEF SiteAssumption, ServingInv, IInv, TypeOK, ControlOK, HandOK, Goto, Threads
    <2>6. Path!RemoveSite(d)
      BY <1>2, <1>4, <1>5, <2>1, <2>2, <2>3, <2>4, <2>5
         DEF Path!RemoveSite, Path!starting, Path!listeners, Path!requests, Path!vars, NoVisits
    <2>. QED
      BY <1>2, <2>6
  <1>. QED
    BY <1>6, <1>7

\* A call that begins is Start's next site, or a refresh.
LEMMA CallIsAllowed ==
  ASSUME ServingInv, NEW t \in Threads, AddCertificate(t),
         site[t].target \notin Unparsable
  PROVE  Path!PathNext
  <1>1. PICK d, by, entry : /\ d = site[t].domain /\ by = CallerOf(t)
                            /\ entry = PathEntry(useHTTPS'[t])
    OBVIOUS
  <1>2. /\ d \in Domains /\ entry \in Path!Entries
        /\ Path!AddCertificate(d, entry, by)
        /\ \A call \in Calls : call.by # by
        /\ UNCHANGED <<started, owed>>
    BY <1>1, CallBegins
  <1>3. /\ pc[t] = "load" /\ pc'[t] = "publish" /\ UNCHANGED <<site, todo>>
        /\ \A u \in Threads \ {t} : pc'[u] = pc[u]
    BY DEF AddCertificate, Goto, ServingInv, IInv, TypeOK, ControlOK
  <1>4. StartOf' = StartOf /\ (started => StartOf = "check")
    BY <1>2, <1>3, SiteAssumption
       DEF StartOf, SiteAssumption, Threads, ServingInv, StartedOK
  <1>5. CASE t = Monitor /\ ~started
    <2>1. by = "start" /\ StartOf = "load"
      BY <1>1, <1>3, <1>5 DEF CallerOf, StartOf
    <2>2. d \in Unloaded /\ Unloaded' = Unloaded \ {d}
      BY <1>1, <1>2, <1>3, <1>5 DEF Unloaded, ServingInv, RowsOK
    <2>3. Path!LoadSite(d)
      BY <1>2, <1>4, <2>1, <2>2 DEF Path!LoadSite, Path!Loading
    <2>. QED
      BY <1>2, <2>3 DEF Path!PathNext, Path!StartStep
  <1>6. CASE ~(t = Monitor /\ ~started)
    <2>1. by \in {"handler", "monitor"} /\ (by = "monitor" => started)
      BY <1>1, <1>6 DEF CallerOf
    <2>2. Unloaded' = Unloaded
      BY <1>2, <1>3, <1>6, SiteAssumption DEF SiteAssumption, Threads, Unloaded
    <2>3. Path!RefreshSite(d)
      BY <1>2, <1>4, <2>1, <2>2 DEF Path!RefreshSite, Path!starting
    <2>. QED
      BY <1>2, <2>3 DEF Path!PathNext, Path!MapStep
  <1>. QED
    BY <1>5, <1>6

\* A call that ends is of Start, a handler or the monitor.
LEMMA CallMayEnd ==
  ASSUME ServingInv, NEW t \in Threads, AddToMap(t)
  PROVE  Path!PathNext
  <1>1. PICK call : call = CallOf(t)
    OBVIOUS
  <1>2. call \in Calls /\ Path!AddToMap(call)
    BY <1>1, CallEnds
  <1>. QED
    BY <1>2 DEF Path!PathNext, Path!StartStep, Path!MapStep

\* A target that does not parse: Start skips its site, for the others nothing happens.
LEMMA UnparsableIsSkipped ==
  ASSUME ServingInv, NEW t \in Threads, AddCertificate(t),
         site[t].target \in Unparsable
  PROVE  Path!PathNext \/ UNCHANGED Path!pathVars
  <1>. USE SiteAssumption DEF SiteAssumption, ServingInv, IInv, TypeOK, ControlOK, HandOK, Goto, Threads
  <1>1. PICK d : d = site[t].domain
    OBVIOUS
  <1>2. /\ pc[t] = "load" /\ site[t] \in Site
        /\ pc' = [pc EXCEPT ![t] = IF t = Monitor THEN "loop" ELSE "idle"]
        /\ \A u \in Threads \ {t} : site'[u] = site[u]
        /\ UNCHANGED <<domainMap, certificates, useHTTPS, todo>>
    BY DEF AddCertificate, AddOrUpdateSiteReturns, Done, Holds, SiteSteps
  <1>3. d \in Domains
    BY <1>1, <1>2, SiteFacts
  <1>4. /\ started' = started
        /\ owed' = IF t = Monitor /\ ~started THEN owed \ {d} ELSE owed
    BY <1>1 DEF AddCertificate
  <1>5. \A u \in Threads : \/ pc[u] # "publish" /\ pc'[u] # "publish"
                           \/ UNCHANGED <<pc[u], site[u], useHTTPS[u]>>
    BY <1>2
  <1>6. CASE t = Monitor /\ ~started
    <2>1. StartOf = "load" /\ StartOf' = "load"
      BY <1>2, <1>4, <1>6 DEF StartOf
    <2>2. d \in Unloaded /\ Unloaded' = Unloaded \ {d}
      BY <1>1, <1>2, <1>4, <1>6 DEF Unloaded, RowsOK
    <2>3. owed' = owed \ {d}
      BY <1>4, <1>6
    <2>4. Calls' = Calls /\ \A call \in Calls : call.by # "start"
      <3>1. \A u \in Threads : pc'[u] = "publish" <=> pc[u] = "publish"
        BY <1>5
      <3>2. \A u \in Threads : pc[u] = "publish" => CallOf(u)' = CallOf(u)
        BY <1>4, <1>5 DEF CallOf, CallerOf
      <3>3. \A u \in Threads : pc[u] = "publish" => CallOf(u).by # "start"
        BY <1>2, <1>6 DEF CallOf, CallerOf
      <3>. QED
        BY <3>1, <3>2, <3>3 DEF Calls
    <2>5. \A q \in Domains : EntryOf(q)' = EntryOf(q)
      BY <1>2 DEF EntryOf
    <2>. HIDE DEF SiteAssumption, ServingInv, IInv, TypeOK, ControlOK, HandOK, Goto, Threads
    <2>6. Path!SkipSite(d)
      BY <1>2, <1>4, <2>1, <2>2, <2>3, <2>4, <2>5
         DEF Path!SkipSite, Path!Loading, Path!listeners, Path!requests, Path!vars, NoVisits
    <2>. QED
      BY <1>3, <2>6 DEF Path!PathNext, Path!StartStep
  <1>7. CASE ~(t = Monitor /\ ~started)
    <2>1. owed' = owed
      BY <1>4, <1>7
    <2>2. Unloaded' = Unloaded /\ StartOf' = StartOf
      BY <1>2, <1>4, <1>7 DEF Unloaded, StartOf, StartedOK
    <2>. QED
      BY <1>2, <1>4, <1>5, <2>1, <2>2, PathStutters
  <1>. QED
    BY <1>6, <1>7

\* The first query is Start's, the end of the first round opens the HTTP port, and
\* the queries and loops of the monitor are nothing to ServingPath.
LEMMA RoundIsAllowed ==
  ASSUME ServingInv, HandOK', QueryActiveSites \/ StartFails \/ NextSite \/ LoopEnds
  PROVE  Path!PathNext \/ UNCHANGED Path!pathVars
  <1>. USE SiteAssumption DEF SiteAssumption, ServingInv, IInv, TypeOK, ControlOK, HandOK, Goto, Threads,
       tables, maps, loop, history
  <1>1. /\ UNCHANGED <<domainMap, certificates, useHTTPS>>
        /\ pc[Monitor] # "publish" /\ pc'[Monitor] # "publish"
        /\ \A h \in Handlers : pc'[h] = pc[h] /\ site'[h] = site[h]
    BY DEF QueryActiveSites, StartFails, NextSite, LoopEnds
  <1>2. \A u \in Threads : \/ pc[u] # "publish" /\ pc'[u] # "publish"
                           \/ UNCHANGED <<pc[u], site[u], useHTTPS[u]>>
    BY <1>1
  <1>3. \A q \in Domains : EntryOf(q)' = EntryOf(q)
    BY <1>1 DEF EntryOf
  <1>4. ASSUME started' = started PROVE Calls' = Calls
    <2>1. \A u \in Threads : pc'[u] = "publish" <=> pc[u] = "publish"
      BY <1>2
    <2>2. \A u \in Threads : pc[u] = "publish" => CallOf(u)' = CallOf(u)
      BY <1>2, <1>4 DEF CallOf, CallerOf
    <2>. QED
      BY <2>1, <2>2 DEF Calls
  <1>5. CASE QueryActiveSites /\ pc[Monitor] = "starting"
    <2>1. /\ pc'[Monitor] = "loop" /\ ~started /\ ~started' /\ started' = started
          /\ owed' = {s.domain : s \in todo'} /\ todo' \subseteq Site
      BY <1>5 DEF QueryActiveSites, StartedOK
    <2>2. StartOf = "query" /\ StartOf' = "load"
      BY <1>5, <2>1 DEF StartOf
    <2>3. Unloaded' = owed' /\ owed' \subseteq Domains
      BY <2>1, SiteFacts DEF Unloaded
    <2>. HIDE DEF SiteAssumption, ServingInv, IInv, TypeOK, ControlOK, HandOK, Goto, Threads,
         tables, maps, loop, history
    <2>4. Path!QueryActiveSites
      BY <1>1, <1>3, <1>4, <2>1, <2>2, <2>3
         DEF Path!QueryActiveSites, Path!listeners, Path!requests, Path!vars, NoVisits
    <2>. QED
      BY <2>4 DEF Path!PathNext, Path!StartStep
  <1>6. CASE QueryActiveSites /\ pc[Monitor] # "starting"
    <2>1. /\ pc[Monitor] = "idle" /\ pc'[Monitor] = "loop" /\ started /\ started' /\ started' = started
          /\ owed' = owed
      BY <1>6 DEF QueryActiveSites, StartedOK
    <2>2. Unloaded' = Unloaded /\ StartOf' = StartOf
      BY <2>1 DEF Unloaded, StartOf
    <2>. QED
      BY <1>1, <1>2, <2>1, <2>2, PathStutters
  <1>7. CASE StartFails
    <2>1. /\ pc[Monitor] = "starting" /\ pc'[Monitor] = "stopped" /\ ~started /\ started' = started
          /\ owed' = owed /\ UNCHANGED <<todo, site>>
      BY <1>7 DEF StartFails, StartedOK
    <2>2. StartOf = "query" /\ StartOf' = "failed" /\ Unloaded' = Unloaded
      BY <2>1 DEF StartOf, Unloaded
    <2>. HIDE DEF SiteAssumption, ServingInv, IInv, TypeOK, ControlOK, HandOK, Goto, Threads,
         tables, maps, loop, history
    <2>3. Path!StartFails
      BY <1>1, <1>3, <1>4, <2>1, <2>2
         DEF Path!StartFails, Path!maps, Path!listeners, Path!requests, Path!vars, NoVisits
    <2>. QED
      BY <2>3 DEF Path!PathNext, Path!StartStep
  <1>8. CASE NextSite
    <2>1. PICK s \in todo : /\ site' = [site EXCEPT ![Monitor] = s] /\ todo' = todo \ {s}
                            /\ pc[Monitor] = "loop" /\ pc'[Monitor] = "load"
      BY <1>8 DEF NextSite
    <2>2. started' = started /\ owed' = owed
      BY <1>8 DEF NextSite
    <2>3. StartOf' = StartOf
      BY <2>1, <2>2 DEF StartOf
    <2>4. Unloaded' = Unloaded
      <3>1. site'[Monitor] = s
        BY <2>1
      <3>2. {r.domain : r \in todo} = {r.domain : r \in todo \ {s}} \cup {s.domain}
        OBVIOUS
      <3>. QED
        BY <2>1, <2>2, <3>1, <3>2 DEF Unloaded
    <2>. QED
      BY <1>1, <1>2, <2>2, <2>3, <2>4, PathStutters
  <1>9. CASE LoopEnds
    <2>1. /\ pc[Monitor] = "loop" /\ pc'[Monitor] = "idle" /\ todo = {} /\ todo' = {} /\ site' = site
          /\ started' /\ owed' = owed
      BY <1>9 DEF LoopEnds
    <2>2. CASE started
      <3>1. Unloaded' = Unloaded /\ StartOf' = StartOf /\ started' = started
        BY <2>1, <2>2 DEF Unloaded, StartOf, StartedOK
      <3>. QED
        BY <1>1, <1>2, <2>1, <3>1, PathStutters
    <2>3. CASE ~started
      <3>1. Unloaded = {} /\ Unloaded' = {} /\ StartOf = "load" /\ StartOf' = "check"
        BY <2>1, <2>3 DEF Unloaded, StartOf
      <3>2. \A u \in Threads : pc[u] = "publish" => u # Monitor
        BY <1>1
      <3>3. Calls' = Calls /\ \A call \in Calls : call.by # "start"
        <4>1. \A u \in Threads : pc'[u] = "publish" <=> pc[u] = "publish"
          BY <1>2
        <4>2. \A u \in Threads : pc[u] = "publish" => CallOf(u)' = CallOf(u) /\ CallOf(u).by # "start"
          BY <1>2, <3>2 DEF CallOf, CallerOf
        <4>. QED
          BY <4>1, <4>2 DEF Calls
      <3>. HIDE DEF SiteAssumption, ServingInv, IInv, TypeOK, ControlOK, HandOK, Goto, Threads,
           tables, maps, loop, history
      <3>4. Path!StartListeners
        BY <1>1, <1>3, <2>1, <2>3, <3>1, <3>3
           DEF Path!StartListeners, Path!Loading, Path!maps, Path!requests, Path!vars, NoVisits
      <3>. QED
        BY <3>4 DEF Path!PathNext, Path!StartStep
    <2>. QED
      BY <2>2, <2>3
  <1>. QED
    BY <1>5, <1>6, <1>7, <1>8, <1>9

\* Every step is one that ServingPath allows, or changes nothing it sees.
LEMMA ServingStep ==
  ServingInv /\ ServingInv' /\ [Next]_vars => [Path!PathNext]_(Path!pathVars)
  <1> SUFFICES ASSUME ServingInv, HandOK', [Next]_vars
               PROVE  Path!PathNext \/ UNCHANGED Path!pathVars
    BY DEF ServingInv, IInv, TypeOK
  <1>1. ASSUME NEW t \in Threads, AddOrUpdateSite(t)
        PROVE  Path!PathNext \/ UNCHANGED Path!pathVars
    BY <1>1, CallIsAllowed, CallMayEnd, UnparsableIsSkipped DEF AddOrUpdateSite
  <1>2. ASSUME NEW h \in Handlers, Arrival(h) \/ HandlerStep(h)
        PROVE  Path!PathNext \/ UNCHANGED Path!pathVars
    <2>1. CASE RemoveSiteFromProxy(h)
      <3>1. PICK d : d = site[h].domain
        OBVIOUS
      <3>. QED
        BY <1>2, <2>1, <3>1, SiteRemoved DEF Path!PathNext, Path!MapStep
    <2>2. CASE AddCertificate(h) \/ AddToMap(h)
      BY <1>1, <1>2, <2>2 DEF AddOrUpdateSite, Threads
    <2>3. CASE /\ UNCHANGED <<domainMap, certificates, owed>>
               /\ pc[h] # "publish" /\ pc'[h] # "publish"
      <3>1. /\ todo' = todo /\ started' = started /\ h # Monitor
            /\ \A t \in Threads \ {h} :
                  pc'[t] = pc[t] /\ site'[t] = site[t] /\ useHTTPS'[t] = useHTTPS[t]
        BY <1>2, HandlerTouches, SiteAssumption DEF ServingInv, SiteAssumption
      <3>2. pc'[Monitor] = pc[Monitor] /\ site'[Monitor] = site[Monitor]
        BY <3>1 DEF Threads
      <3>3. Unloaded' = Unloaded /\ StartOf' = StartOf
        BY <3>1, <3>2 DEF Unloaded, StartOf
      <3>4. \A t \in Threads : \/ pc[t] # "publish" /\ pc'[t] # "publish"
                               \/ UNCHANGED <<pc[t], site[t], useHTTPS[t]>>
        BY <2>3, <3>1
      <3>. QED
        BY <2>3, <3>1, <3>3, <3>4, PathStutters
    <2>. QED
      BY <1>2, <2>1, <2>2, <2>3, HandlerTouches DEF ServingInv
  <1>3. ASSUME MonitorStep
        PROVE  Path!PathNext \/ UNCHANGED Path!pathVars
    BY <1>1, <1>3, RoundIsAllowed DEF MonitorStep, Threads
  <1>4. CASE UNCHANGED vars
    BY <1>4, PathStutters
       DEF vars, maps, loop, history, Unloaded, StartOf
  <1>. QED
    BY <1>2, <1>3, <1>4 DEF Next

LEMMA ServingInvariant == Spec => []ServingInv
  <1>1. Init => RowsOK /\ StartedOK
    BY DEF Init, RowsOK, StartedOK, Threads
  <1>2. ServingInv /\ [Next]_vars => RowsOK' /\ StartedOK'
    <2>1. ServingInv /\ UNCHANGED vars => RowsOK' /\ StartedOK'
      BY DEF ServingInv, RowsOK, StartedOK, vars, loop, history
    <2>. QED
      BY <2>1, NextRowsOK, NextStartedOK
  <1>. QED
    BY <1>1, <1>2, Invariance, PTL DEF Spec, ServingInv

-----------------------------------------------------------------------------
\* The composition: what handlers and monitor do to the proxy's maps is what
\* ServingPath expects of its surroundings, and Start's first round is its Start.
THEOREM ServesThePath == Spec => ImplementsServingPath
  <1>1. Init => Path!PathInit
    <2>1. ASSUME Init
          PROVE  /\ domainMap = [d \in Domains |-> None]
                 /\ certificates = [d \in Domains |-> None]
                 /\ pc = [t \in Threads |-> IF t = Monitor THEN "starting" ELSE "idle"]
                 /\ todo = {} /\ ~started /\ owed = {}
      BY <2>1 DEF Init
    <2>. QED
      BY <2>1
         DEF Path!PathInit, Path!Init, Path!Zero, Path!NoRequest, Path!Request,
             Threads, Calls, EntryOf, StartOf, Unloaded, NoVisits
  <1>. QED
    BY <1>1, ServingStep, ServingInvariant, PTL DEF Spec, ImplementsServingPath, Path!PathSpec

\* What Start has found active is served, still to be loaded, or in its hands.
OwedOK ==
    /\ owed \subseteq Domains
    /\ pc[Monitor] \in {"starting", "stopped"} => owed = {}
    /\ \A d \in owed :
        \/ domainMap[d] # None
        \/ d \in Unloaded
        \/ ~started /\ pc[Monitor] = "publish" /\ site[Monitor].domain = d

\* A handler takes a site away only with what is owed for it.
LEMMA HandlerOwes ==
  ASSUME ServingInv, NEW h \in Handlers, Arrival(h) \/ HandlerStep(h)
  PROVE  \A d \in owed' : d \in owed /\ (domainMap[d] # None => domainMap'[d] # None)
  <1>. USE SiteAssumption DEF SiteAssumption, ServingInv, IInv, TypeOK, ControlOK, HandOK, Threads
  <1>1. CASE RemoveSiteFromProxy(h)
    BY <1>1 DEF RemoveSiteFromProxy, MapsOK
  <1>2. CASE AddCertificate(h)
    BY <1>2 DEF AddCertificate
  <1>3. CASE AddToMap(h)
    <2>. DEFINE e == [site |-> site[h], useHTTPS |-> useHTTPS[h]]
    <2>1. /\ site[h] \in Site /\ useHTTPS[h] \in BOOLEAN /\ owed' = owed
          /\ domainMap' = [domainMap EXCEPT ![site[h].domain] = e]
      BY <1>3 DEF AddToMap, Holds, SiteSteps, history
    <2>2. e # None
      BY <2>1 DEF Entry
    <2>. HIDE DEF e
    <2>. QED
      BY <2>1, <2>2 DEF MapsOK
  <1>. QED
    BY <1>1, <1>2, <1>3, HandlerTouches

LEMMA NextOwedOK ==
  ASSUME ServingInv, HandOK', OwedOK, Next
  PROVE  OwedOK'
  <1>. USE SiteAssumption DEF SiteAssumption, ServingInv
  <1>1. ASSUME NEW h \in Handlers, Arrival(h) \/ HandlerStep(h) PROVE OwedOK'
    <2>1. /\ todo' = todo /\ started' = started
          /\ pc'[Monitor] = pc[Monitor] /\ site'[Monitor] = site[Monitor]
      BY <1>1, HandlerTouches DEF Threads
    <2>2. Unloaded' = Unloaded
      BY <2>1 DEF Unloaded
    <2>. QED
      BY <1>1, <2>1, <2>2, HandlerOwes DEF OwedOK
  <1>. USE DEF StartedOK, IInv, TypeOK, ControlOK, HandOK, Goto, Threads, maps, loop, history
  <1>2. CASE QueryActiveSites
    <2>1. /\ pc'[Monitor] = "loop" /\ todo' \subseteq Site
          /\ UNCHANGED <<domainMap, started>>
      BY <1>2 DEF QueryActiveSites
    <2>2. CASE pc[Monitor] = "starting"
      <3>1. ~started' /\ owed' = {s.domain : s \in todo'}
        BY <1>2, <2>1, <2>2 DEF QueryActiveSites
      <3>. QED
        BY <2>1, <3>1, SiteFacts DEF OwedOK, Unloaded
    <2>3. CASE pc[Monitor] # "starting"
      <3>1. started /\ owed' = owed
        BY <1>2, <2>3 DEF QueryActiveSites
      <3>. QED
        BY <2>1, <3>1 DEF OwedOK, Unloaded
    <2>. QED
      BY <2>2, <2>3
  <1>3. CASE StartFails
    BY <1>3 DEF StartFails, OwedOK
  <1>4. CASE NextSite
    <2>1. PICK s \in todo : /\ site' = [site EXCEPT ![Monitor] = s] /\ todo' = todo \ {s}
                            /\ pc[Monitor] = "loop" /\ pc'[Monitor] = "load"
                            /\ UNCHANGED <<domainMap, started, owed>>
      BY <1>4 DEF NextSite
    <2>2. Unloaded \subseteq Unloaded'
      <3>1. site'[Monitor] = s
        BY <2>1
      <3>2. {r.domain : r \in todo} = {r.domain : r \in todo \ {s}} \cup {s.domain}
        OBVIOUS
      <3>. QED
        BY <2>1, <3>1, <3>2 DEF Unloaded
    <2>. QED
      BY <2>1, <2>2 DEF OwedOK
  <1>5. CASE LoopEnds
    <2>1. /\ pc[Monitor] = "loop" /\ pc'[Monitor] = "idle" /\ todo = {}
          /\ UNCHANGED <<domainMap, owed>>
      BY <1>5 DEF LoopEnds
    <2>2. Unloaded = {}
      BY <2>1 DEF Unloaded
    <2>. QED
      BY <2>1, <2>2 DEF OwedOK
  <1>6. CASE AddCertificate(Monitor)
    <2>1. /\ pc[Monitor] = "load" /\ UNCHANGED <<todo, started, domainMap>>
      BY <1>6 DEF AddCertificate
    <2>. DEFINE inHand == IF started THEN {} ELSE {site[Monitor].domain}
    <2>2. pc'[Monitor] \in {"loop", "publish"} /\ Unloaded \subseteq Unloaded' \cup inHand
      BY <1>6, <2>1 DEF AddCertificate, AddOrUpdateSiteReturns, Unloaded
    <2>3. CASE pc'[Monitor] = "loop"
      <3>1. owed' = owed \ inHand
        BY <1>6, <2>3 DEF AddCertificate
      <3>. QED
        BY <2>1, <2>2, <2>3, <3>1 DEF OwedOK
    <2>4. CASE pc'[Monitor] = "publish"
      <3>1. owed' = owed /\ site' = site
        BY <1>6, <2>4 DEF AddCertificate, AddOrUpdateSiteReturns
      <3>. QED
        BY <2>1, <2>2, <2>4, <3>1 DEF OwedOK
    <2>. QED
      BY <2>2, <2>3, <2>4
  <1>7. CASE AddToMap(Monitor)
    <2>. DEFINE e == [site |-> site[Monitor], useHTTPS |-> useHTTPS[Monitor]]
    <2>1. /\ pc[Monitor] = "publish" /\ pc'[Monitor] = "loop"
          /\ UNCHANGED <<todo, started, owed>>
          /\ site[Monitor] \in Site /\ useHTTPS[Monitor] \in BOOLEAN
          /\ domainMap' = [domainMap EXCEPT ![site[Monitor].domain] = e]
      BY <1>7 DEF AddToMap, AddOrUpdateSiteReturns, Holds, SiteSteps
    <2>2. site[Monitor].domain \in Domains /\ e \in Entry /\ e # None
      BY <2>1, SiteFacts DEF Entry
    <2>. HIDE DEF e
    <2>3. /\ domainMap'[site[Monitor].domain] # None
          /\ \A d \in Domains : domainMap[d] # None => domainMap'[d] # None
      BY <2>1, <2>2 DEF MapsOK
    <2>4. Unloaded' = Unloaded
      BY <2>1 DEF Unloaded
    <2>. QED
      BY <2>1, <2>3, <2>4 DEF OwedOK
  <1>. QED
    BY <1>1, <1>2, <1>3, <1>4, <1>5, <1>6, <1>7 DEF Next, MonitorStep, AddOrUpdateSite

\* When Start goes on to open the HTTP port, every site that it found active, whose target
\* parses and that no handler has removed is in domainMap, and it stays there until it
\* is removed.
THEOREM StartLeavesNoGap ==
  Spec => [](started => \A d \in owed : domainMap[d] # None)
  <1>1. Init => OwedOK
    BY DEF Init, OwedOK
  <1>2. ServingInv /\ ServingInv' /\ OwedOK /\ [Next]_vars => OwedOK'
    <2>1. ServingInv /\ ServingInv' /\ OwedOK /\ Next => OwedOK'
      BY NextOwedOK DEF ServingInv, IInv, TypeOK
    <2>2. OwedOK /\ UNCHANGED vars => OwedOK'
      BY DEF OwedOK, Unloaded, vars, maps, loop, history
    <2>. QED
      BY <2>1, <2>2
  <1>3. ServingInv /\ OwedOK => (started => \A d \in owed : domainMap[d] # None)
    BY DEF ServingInv, StartedOK, OwedOK, Unloaded
  <1>. QED
    BY <1>1, <1>2, <1>3, ServingInvariant, PTL DEF Spec

=============================================================================
