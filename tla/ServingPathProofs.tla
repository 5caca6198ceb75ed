-------------------------- MODULE ServingPathProofs --------------------------
(* Proofs about ServingPath, for any number of sites, clients and calls.   *)
EXTENDS ServingPath, RequestCountersProofs, FiniteSetTheorems

(* Until Start has loaded its sites nothing listens, and what it found     *)
(* active is in domainMap, in its hands, or still to be taken.             *)
StartOK ==
    /\ start \in {"query", "failed"} => owed = {}
    /\ start # "load" => toLoad = {} /\ \A call \in adding : call.by # "start"
    /\ start \in {"query", "failed", "load"} =>
           binding = {} /\ listening = {} /\ monitoring = "off"
    /\ \A s \in owed :
        \/ domainMap[s] # "absent"
        \/ s \in toLoad
        \/ \E call \in adding : call.by = "start" /\ call.site = s

(* ServeHTTP has passed on a request that it has counted, or is about to.  *)
VisitsOK == \A s \in Sites : served[s] = forwarded[s] + Cardinality(Forwarding(s))

PathInv == PathTypeOK /\ IInv /\ StartOK /\ VisitsOK

LEMMA PathInitInv == PathInit => PathInv
  <1> SUFFICES ASSUME PathInit PROVE PathInv
    OBVIOUS
  <1> USE DEF PathInit
  <1>1. IInv
    BY InitInv
  <1>2. PathTypeOK
    BY <1>1 DEF PathTypeOK, IInv, NoRequest, Request, Zero
  <1>3. StartOK
    BY DEF StartOK
  <1>4. VisitsOK
    <2>1. \A s \in Sites : Forwarding(s) = {}
      BY DEF Forwarding, NoRequest, Request
    <2>2. \A s \in Sites : Cardinality(Forwarding(s)) = 0
      BY <2>1, FS_EmptySet
    <2>3. \A s \in Sites : served[s] = 0 /\ forwarded[s] = 0
      BY DEF Init, Zero
    <2> SUFFICES ASSUME NEW s \in Sites
                 PROVE  served[s] = forwarded[s] + Cardinality(Forwarding(s))
      BY DEF VisitsOK
    <2> HIDE DEF PathInit
    <2> QED BY <2>2, <2>3
  <1> QED BY <1>1, <1>2, <1>3, <1>4 DEF PathInv

-----------------------------------------------------------------------------
(* Composition: to the counters the path is an environment that calls      *)
(* ServeHTTP, for requests of a site.                                      *)
LEMMA PathStepCounts ==
    ASSUME PathTypeOK, [PathNext]_pathVars
    PROVE  [Next]_vars
  <1>1. CASE StartStep
    BY <1>1 DEF StartStep, QueryActiveSites, StartFails, LoadSite, SkipSite, AddCertificate,
                AddToMap, StartListeners, CheckCertificates
  <1>2. CASE MapStep
    BY <1>2 DEF MapStep, RefreshSite, AddCertificate, AddToMap, RemoveSite
  <1>3. CASE ListenStep
    BY <1>3 DEF ListenStep, MonitorTick, PortReleased, Listen
  <1>4. ASSUME NEW c \in Clients, ClientStep(c) PROVE [Next]_vars
    <2>1. CASE Count(c)
      <3>1. ServeHTTP(client[c].host) /\ client[c].host \in Sites
        BY <2>1 DEF Count, PathTypeOK
      <3> QED BY <3>1 DEF Next
    <2> QED BY <1>4, <2>1 DEF ClientStep, Connect, ConnectTLS, Lookup, Forward,
                              FollowRedirect, Leave
  <1>5. CASE CountersStep \/ UNCHANGED pathVars
    BY <1>5 DEF CountersStep, pathVars, Next
  <1> QED BY <1>1, <1>2, <1>3, <1>4, <1>5 DEF PathNext

-----------------------------------------------------------------------------
(* Types.                                                                  *)

OwnTypeOK ==
    /\ domainMap \in [Sites -> Entries \cup {"absent"}]
    /\ \A s \in Sites \ Certified : domainMap[s] # "https"
    /\ certificates \subseteq Certified
    /\ adding \subseteq [site : Sites, entry : Entries, by : Callers]
    /\ \A call \in adding : call.entry = "https" => call.site \in Certified
    /\ start \in {"query", "failed", "load", "check", "done"}
    /\ toLoad \subseteq Sites
    /\ monitoring \in {"off", "waiting", "started"}
    /\ binding \subseteq {"http", "start", "monitor"}
    /\ listening \subseteq {"http", "https"}
    /\ busy \subseteq {"https"}
    /\ forwarded \in [Sites -> Nat]
    /\ owed \subseteq Sites

ClientsOK ==
    /\ client \in [Clients -> [at : {"idle", "lookup", "count", "forward", "notfound",
                                     "redirected", "answered"},
                               host : Sites \cup {NoName}, tls : BOOLEAN]]
    /\ \A c \in Clients : client[c].at # "idle" => client[c].host \in Sites

LEMMA TypeSplit == PathTypeOK <=> TypeOK /\ OwnTypeOK /\ ClientsOK
  BY DEF PathTypeOK, OwnTypeOK, ClientsOK

(* A call of AddOrUpdateSite with an entry the site may have.              *)
LEMMA AddCertificateType ==
    ASSUME PathTypeOK, NEW s \in Sites, NEW entry \in Entries,
           NEW by \in Callers, AddCertificate(s, entry, by)
    PROVE  /\ adding' \subseteq [site : Sites, entry : Entries, by : Callers]
           /\ \A call \in adding' : call.entry = "https" => call.site \in Certified
           /\ certificates' \subseteq Certified
           /\ UNCHANGED <<domainMap, listeners, requests, vars>>
  <1>1. Call(s, entry, by) \in [site : Sites, entry : Entries, by : Callers]
    BY DEF Call
  <1> QED BY <1>1 DEF AddCertificate, PathTypeOK, Call

LEMMA AddToMapType ==
    ASSUME PathTypeOK, NEW call, AddToMap(call)
    PROVE  /\ call \in adding /\ call.site \in Sites /\ call.entry \in Entries
           /\ domainMap' \in [Sites -> Entries \cup {"absent"}]
           /\ domainMap' = [domainMap EXCEPT ![call.site] = call.entry]
           /\ \A s \in Sites \ Certified : domainMap'[s] # "https"
           /\ adding' = adding \ {call}
           /\ UNCHANGED <<certificates, owed, starting, listeners, requests, vars>>
  <1>1. call \in adding /\ call.site \in Sites /\ call.entry \in Entries
    BY DEF AddToMap, PathTypeOK
  <1> QED BY <1>1 DEF AddToMap, PathTypeOK

LEMMA MapStepType ==
    ASSUME PathTypeOK, MapStep
    PROVE  OwnTypeOK' /\ UNCHANGED <<client, starting, listeners, requests, vars>>
  <1>1. ASSUME NEW s \in Sites, RefreshSite(s)
        PROVE OwnTypeOK' /\ UNCHANGED <<client, starting, listeners, requests, vars>>
    <2> PICK entry \in Entries, by \in {"handler", "monitor"} : AddCertificate(s, entry, by)
      BY <1>1 DEF RefreshSite
    <2>0. by \in Callers
      BY DEF Callers
    <2>1. UNCHANGED <<starting, owed>>
      BY <1>1 DEF RefreshSite
    <2> QED BY <2>0, <2>1, AddCertificateType
            DEF PathTypeOK, OwnTypeOK, starting, listeners, requests
  <1>2. ASSUME NEW s \in Sites, RemoveSite(s)
        PROVE OwnTypeOK' /\ UNCHANGED <<client, starting, listeners, requests, vars>>
    BY <1>2 DEF RemoveSite, PathTypeOK, OwnTypeOK, starting, listeners, requests
  <1>3. ASSUME NEW call \in adding, AddToMap(call)
        PROVE OwnTypeOK' /\ UNCHANGED <<client, starting, listeners, requests, vars>>
    BY <1>3, AddToMapType DEF PathTypeOK, OwnTypeOK, starting, listeners, requests
  <1> QED BY <1>1, <1>2, <1>3 DEF MapStep

LEMMA StartStepType ==
    ASSUME PathTypeOK, StartStep
    PROVE  OwnTypeOK' /\ UNCHANGED <<client, requests, vars>>
  <1> USE DEF starting, listeners, requests, maps
  <1>1. CASE QueryActiveSites
    BY <1>1 DEF QueryActiveSites, PathTypeOK, OwnTypeOK
  <1>2. CASE StartFails
    BY <1>2 DEF StartFails, PathTypeOK, OwnTypeOK
  <1>3. ASSUME NEW s \in Sites, LoadSite(s) PROVE OwnTypeOK' /\ UNCHANGED <<client, requests, vars>>
    <2> PICK entry \in Entries : AddCertificate(s, entry, "start")
      BY <1>3 DEF LoadSite
    <2>0. "start" \in Callers
      BY DEF Callers
    <2>1. toLoad' = toLoad \ {s} /\ UNCHANGED <<start, monitoring, owed>>
      BY <1>3 DEF LoadSite
    <2> QED BY <2>0, <2>1, AddCertificateType DEF PathTypeOK, OwnTypeOK
  <1>4. ASSUME NEW s \in Sites, SkipSite(s) PROVE OwnTypeOK' /\ UNCHANGED <<client, requests, vars>>
    BY <1>4 DEF SkipSite, PathTypeOK, OwnTypeOK
  <1>5. ASSUME NEW call \in adding, AddToMap(call)
        PROVE OwnTypeOK' /\ UNCHANGED <<client, requests, vars>>
    BY <1>5, AddToMapType DEF PathTypeOK, OwnTypeOK
  <1>6. CASE StartListeners
    BY <1>6 DEF StartListeners, PathTypeOK, OwnTypeOK
  <1>7. CASE CheckCertificates
    BY <1>7 DEF CheckCertificates, PathTypeOK, OwnTypeOK
  <1> QED BY <1>1, <1>2, <1>3, <1>4, <1>5, <1>6, <1>7 DEF StartStep

LEMMA ListenStepType ==
    ASSUME PathTypeOK, ListenStep
    PROVE  OwnTypeOK' /\ UNCHANGED <<client, requests, vars>>
  <1> USE DEF starting, listeners, requests, maps, PathTypeOK, OwnTypeOK
  <1>1. CASE MonitorTick
    BY <1>1 DEF MonitorTick
  <1>2. CASE PortReleased
    BY <1>2 DEF PortReleased
  <1>3. ASSUME NEW g \in binding, Listen(g) PROVE OwnTypeOK' /\ UNCHANGED <<client, requests, vars>>
    BY <1>3 DEF Listen, Port
  <1> QED BY <1>1, <1>2, <1>3 DEF ListenStep

(* What a step of a client does to its request.                            *)
LEMMA ClientStepMoves ==
    ASSUME PathTypeOK, NEW c \in Clients, ClientStep(c)
    PROVE  /\ UNCHANGED <<maps, starting, listeners>>
           /\ \E request \in [at : {"idle", "lookup", "count", "forward", "notfound",
                                    "redirected", "answered"},
                              host : Sites \cup {NoName}, tls : BOOLEAN] :
                /\ request.at # "idle" => request.host \in Sites
                /\ client' = [client EXCEPT ![c] = request]
  <1>0. /\ client[c] \in [at : {"idle", "lookup", "count", "forward", "notfound",
                                "redirected", "answered"},
                          host : Sites \cup {NoName}, tls : BOOLEAN]
        /\ client[c].at # "idle" => client[c].host \in Sites
    BY DEF PathTypeOK
  <1> USE DEF Move, Request, Answer, NoRequest
  <1>1. ASSUME NEW s \in Sites, Connect(c, s) \/ ConnectTLS(c, s)
        PROVE  /\ UNCHANGED <<maps, starting, listeners>>
               /\ \E tls \in BOOLEAN : client' = [client EXCEPT ![c] = Request("lookup", s, tls)]
    BY <1>1 DEF Connect, ConnectTLS
  <1>2. CASE Lookup(c)
    <2> PICK at \in {"notfound", "redirected", "count"} :
            /\ client' = [client EXCEPT ![c] = [client[c] EXCEPT !.at = at]]
            /\ UNCHANGED <<maps, starting, listeners>>
      BY <1>2 DEF Lookup
    <2>1. client[c].host \in Sites
      BY <1>0, <1>2 DEF Lookup
    <2> QED BY <1>0, <2>1
  <1>3. CASE Count(c)
    BY <1>0, <1>3 DEF Count
  <1>4. CASE Forward(c)
    BY <1>0, <1>4 DEF Forward
  <1>5. CASE FollowRedirect(c)
    BY <1>0, <1>5 DEF FollowRedirect
  <1>6. CASE Leave(c)
    BY <1>6 DEF Leave
  <1> QED BY <1>1, <1>2, <1>3, <1>4, <1>5, <1>6 DEF ClientStep

LEMMA ClientStepType ==
    ASSUME PathTypeOK, NEW c \in Clients, ClientStep(c)
    PROVE  OwnTypeOK' /\ ClientsOK'
  <1>1. ClientsOK'
    BY ClientStepMoves DEF PathTypeOK, ClientsOK
  <1>2. forwarded' \in [Sites -> Nat]
    <2>1. CASE Forward(c)
      BY <2>1 DEF Forward, PathTypeOK
    <2> QED BY <2>1 DEF PathTypeOK, ClientStep, Connect, ConnectTLS, Lookup, Count,
                        FollowRedirect, Leave
  <1> QED BY <1>1, <1>2, ClientStepMoves
          DEF PathTypeOK, OwnTypeOK, maps, starting, listeners

LEMMA PathStepType ==
    ASSUME PathTypeOK, IInv, [PathNext]_pathVars
    PROVE  PathTypeOK' /\ IInv'
  <1>1. IInv' /\ TypeOK'
    BY PathStepCounts, StepInv DEF IInv
  <1>2. OwnTypeOK' /\ ClientsOK'
    <2>1. CASE StartStep
      BY <2>1, StartStepType DEF PathTypeOK, ClientsOK
    <2>2. CASE MapStep
      BY <2>2, MapStepType DEF PathTypeOK, ClientsOK
    <2>3. CASE ListenStep
      BY <2>3, ListenStepType DEF PathTypeOK, ClientsOK
    <2>4. ASSUME NEW c \in Clients, ClientStep(c) PROVE OwnTypeOK' /\ ClientsOK'
      BY <2>4, ClientStepType
    <2>5. CASE CountersStep \/ UNCHANGED pathVars
      BY <2>5 DEF CountersStep, pathVars, maps, starting, listeners, requests,
                  PathTypeOK, OwnTypeOK, ClientsOK
    <2> QED BY <2>1, <2>2, <2>3, <2>4, <2>5 DEF PathNext
  <1> QED BY <1>1, <1>2, TypeSplit DEF PathTypeOK, OwnTypeOK, ClientsOK

-----------------------------------------------------------------------------
(* Start.                                                                  *)

LEMMA PathStepStart ==
    ASSUME PathTypeOK, StartOK, [PathNext]_pathVars
    PROVE  StartOK'
  <1> USE DEF starting, listeners, requests, maps
  <1>1. ASSUME NEW s \in Sites, NEW entry \in Entries,
               AddCertificate(s, entry, "start"), LoadSite(s)
        PROVE  StartOK'
    <2>1. adding' = adding \cup {Call(s, entry, "start")} /\ domainMap' = domainMap
      BY <1>1 DEF AddCertificate
    <2>2. Call(s, entry, "start") \in adding'
      BY <2>1
    <2>3. Call(s, entry, "start").by = "start" /\ Call(s, entry, "start").site = s
      BY DEF Call
    <2>4. start' = "load" /\ owed' = owed /\ toLoad' = toLoad \ {s} /\ monitoring' = monitoring
      BY <1>1 DEF LoadSite, Loading
    <2>5. UNCHANGED listeners
      BY <1>1 DEF AddCertificate
    <2>6. ASSUME NEW q \in owed'
          PROVE  \/ domainMap'[q] # "absent"
                 \/ q \in toLoad'
                 \/ \E call \in adding' : call.by = "start" /\ call.site = q
      BY <2>1, <2>2, <2>3, <2>4 DEF StartOK
    <2> QED BY <1>1, <2>4, <2>5, <2>6 DEF StartOK, LoadSite, Loading
  <1>2. ASSUME NEW s \in Sites, NEW entry \in Entries, NEW by \in {"handler", "monitor"},
               AddCertificate(s, entry, by), RefreshSite(s)
        PROVE  StartOK'
    <2>1. adding' = adding \cup {Call(s, entry, by)}
      BY <1>2 DEF AddCertificate
    <2>2. Call(s, entry, by).by # "start"
      BY DEF Call
    <2>3. UNCHANGED <<domainMap, starting, owed, listeners>>
      BY <1>2 DEF AddCertificate, RefreshSite
    <2> QED BY <2>1, <2>2, <2>3 DEF StartOK
  <1>3. ASSUME NEW call \in adding, AddToMap(call) PROVE StartOK'
    <2>1. /\ adding' = adding \ {call}
          /\ call.site \in Sites /\ call.entry # "absent"
          /\ domainMap' = [domainMap EXCEPT ![call.site] = call.entry]
          /\ UNCHANGED <<owed, starting, listeners>>
      BY <1>3, AddToMapType DEF Entries
    <2>2. ASSUME NEW q \in owed'
          PROVE  \/ domainMap'[q] # "absent"
                 \/ q \in toLoad'
                 \/ \E k \in adding' : k.by = "start" /\ k.site = q
      <3>1. q \in Sites /\ q \in owed
        BY <2>1 DEF PathTypeOK
      <3>2. CASE call.site = q
        BY <2>1, <3>1, <3>2 DEF PathTypeOK
      <3>3. CASE call.site # q
        BY <2>1, <3>1, <3>3 DEF PathTypeOK, StartOK
      <3> QED BY <3>2, <3>3
    <2> QED BY <2>1, <2>2 DEF StartOK
  <1>4. CASE StartStep
    <2>1. CASE QueryActiveSites
      BY <2>1 DEF QueryActiveSites, StartOK
    <2>2. CASE StartFails
      BY <2>2 DEF StartFails, StartOK
    <2>3. ASSUME NEW s \in Sites, LoadSite(s) PROVE StartOK'
      BY <1>1, <2>3 DEF LoadSite
    <2>4. ASSUME NEW s \in Sites, SkipSite(s) PROVE StartOK'
      BY <2>4 DEF SkipSite, Loading, StartOK
    <2>5. CASE StartListeners
      BY <2>5 DEF StartListeners, Loading, StartOK
    <2>6. CASE CheckCertificates
      BY <2>6 DEF CheckCertificates, StartOK
    <2> QED BY <1>3, <1>4, <2>1, <2>2, <2>3, <2>4, <2>5, <2>6 DEF StartStep
  <1>5. CASE MapStep
    <2>1. ASSUME NEW s \in Sites, RemoveSite(s) PROVE StartOK'
      <3>1. /\ owed' = owed \ {s}
            /\ \A q \in Sites \ {s} : domainMap'[q] = domainMap[q]
            /\ UNCHANGED <<adding, starting, listeners>>
        BY <2>1 DEF RemoveSite, PathTypeOK
      <3> QED BY <3>1 DEF StartOK, PathTypeOK
    <2>2. ASSUME NEW s \in Sites, RefreshSite(s) PROVE StartOK'
      BY <1>2, <2>2 DEF RefreshSite
    <2> QED BY <1>3, <1>5, <2>1, <2>2 DEF MapStep
  <1>6. CASE ListenStep
    <2>1. CASE PortReleased
      BY <2>1 DEF PortReleased, StartOK
    <2>2. CASE MonitorTick
      BY <2>2 DEF MonitorTick, StartOK
    <2>3. ASSUME NEW g \in binding, Listen(g) PROVE StartOK'
      BY <2>3 DEF Listen, StartOK
    <2> QED BY <1>6, <2>1, <2>2, <2>3 DEF ListenStep
  <1>7. ASSUME NEW c \in Clients, ClientStep(c) PROVE StartOK'
    BY <1>7, ClientStepMoves DEF StartOK
  <1>8. CASE CountersStep \/ UNCHANGED pathVars
    BY <1>8 DEF CountersStep, pathVars, StartOK
  <1> QED BY <1>4, <1>5, <1>6, <1>7, <1>8 DEF PathNext

(* What is about to be passed on changes with the request of one client.   *)
LEMMA ForwardingChange ==
    ASSUME PathTypeOK, NEW c \in Clients, NEW request,
           client' = [client EXCEPT ![c] = request], NEW s \in Sites
    PROVE  Forwarding(s)' = IF request.at = "forward" /\ request.host = s
                            THEN Forwarding(s) \cup {c} ELSE Forwarding(s) \ {c}
  BY DEF Forwarding, PathTypeOK

LEMMA PathStepVisits ==
    ASSUME PathTypeOK, VisitsOK, [PathNext]_pathVars
    PROVE  VisitsOK'
  <1>1. \A s \in Sites : IsFiniteSet(Forwarding(s)) /\ Cardinality(Forwarding(s)) \in Nat
    <2>1. \A s \in Sites : Forwarding(s) \subseteq Clients
      BY DEF Forwarding
    <2> QED BY <2>1, PathAssumption, FS_Subset, FS_CardinalityType
  <1>2. ASSUME NEW c \in Clients, ClientStep(c) PROVE VisitsOK'
    <2>1. CASE Count(c)
      <3>0. PICK host \in Sites : host = client[c].host
        BY <2>1 DEF Count, PathTypeOK
      <3>1. ServeHTTP(host) /\ client[c].at = "count"
        BY <2>1, <3>0 DEF Count
      <3>2. client' = [client EXCEPT ![c] = [client[c] EXCEPT !.at = "forward"]]
        BY <2>1 DEF Count, Answer, Move
      <3>3. [client[c] EXCEPT !.at = "forward"].at = "forward"
            /\ [client[c] EXCEPT !.at = "forward"].host = host
        BY <3>0 DEF PathTypeOK
      <3>4. \A s \in Sites : c \notin Forwarding(s)
        BY <3>1 DEF Forwarding
      <3>5. Forwarding(host)' = Forwarding(host) \cup {c}
        BY <3>2, <3>3, ForwardingChange
      <3>6. ASSUME NEW s \in Sites \ {host} PROVE Forwarding(s)' = Forwarding(s)
        <4>1. Forwarding(s)' = Forwarding(s) \ {c}
          BY <3>2, <3>3, ForwardingChange
        <4> QED BY <3>4, <4>1
      <3>7. Cardinality(Forwarding(host)') = Cardinality(Forwarding(host)) + 1
        BY <1>1, <3>4, <3>5, FS_AddElement
      <3>8. /\ served'[host] = served[host] + 1
            /\ \A s \in Sites \ {host} : served'[s] = served[s]
            /\ forwarded' = forwarded
        BY <2>1, <3>1 DEF Count, ServeHTTP, PathTypeOK, TypeOK
      <3>9. ASSUME NEW s \in Sites
            PROVE  served'[s] = forwarded'[s] + Cardinality(Forwarding(s)')
        <4>1. CASE s = host
          <5>1. served[host] = forwarded[host] + Cardinality(Forwarding(host))
            BY DEF VisitsOK
          <5>2. served[host] \in Nat /\ forwarded[host] \in Nat
            BY DEF PathTypeOK, TypeOK
          <5> QED BY <1>1, <3>7, <3>8, <4>1, <5>1, <5>2
        <4>2. CASE s # host
          BY <3>6, <3>8, <4>2 DEF VisitsOK
        <4> QED BY <4>1, <4>2
      <3> QED BY <3>9 DEF VisitsOK
    <2>2. CASE Forward(c)
      <3>0. PICK host \in Sites : host = client[c].host
        BY <2>2 DEF Forward, PathTypeOK
      <3>1. client[c].at = "forward"
        BY <2>2 DEF Forward
      <3>2. client' = [client EXCEPT ![c] = [client[c] EXCEPT !.at = "answered"]]
        BY <2>2 DEF Forward, Answer, Move
      <3>3. [client[c] EXCEPT !.at = "answered"].at # "forward"
        BY DEF PathTypeOK
      <3>4. \A s \in Sites : Forwarding(s)' = Forwarding(s) \ {c}
        BY <3>2, <3>3, ForwardingChange
      <3>5. c \in Forwarding(host) /\ \A s \in Sites \ {host} : c \notin Forwarding(s)
        BY <3>0, <3>1 DEF Forwarding
      <3>6. Cardinality(Forwarding(host)') = Cardinality(Forwarding(host)) - 1
        BY <1>1, <3>4, <3>5, FS_RemoveElement
      <3>7. \A s \in Sites \ {host} : Forwarding(s)' = Forwarding(s)
        BY <3>4, <3>5
      <3>8. /\ forwarded'[host] = forwarded[host] + 1
            /\ \A s \in Sites \ {host} : forwarded'[s] = forwarded[s]
            /\ served' = served
        BY <2>2, <3>0 DEF Forward, PathTypeOK, vars
      <3>9. ASSUME NEW s \in Sites
            PROVE  served'[s] = forwarded'[s] + Cardinality(Forwarding(s)')
        <4>1. CASE s = host
          <5>1. served[host] = forwarded[host] + Cardinality(Forwarding(host))
            BY DEF VisitsOK
          <5>2. served[host] \in Nat /\ forwarded[host] \in Nat
            BY DEF PathTypeOK, TypeOK
          <5> QED BY <1>1, <3>6, <3>8, <4>1, <5>1, <5>2
        <4>2. CASE s # host
          BY <3>7, <3>8, <4>2 DEF VisitsOK
        <4> QED BY <4>1, <4>2
      <3> QED BY <3>9 DEF VisitsOK
    <2>3. CASE ~Count(c) /\ ~Forward(c)
      <3>1. UNCHANGED <<forwarded, vars>> /\ client[c].at # "forward"
        BY <1>2, <2>3 DEF ClientStep, Connect, ConnectTLS, Lookup, FollowRedirect, Leave
      <3>2. PICK request :
              client' = [client EXCEPT ![c] = request] /\ request.at # "forward"
        <4> USE DEF PathTypeOK, Move, Request, Answer, NoRequest
        <4>1. ASSUME NEW s \in Sites, Connect(c, s) \/ ConnectTLS(c, s)
              PROVE  \E request : client' = [client EXCEPT ![c] = request] /\ request.at # "forward"
          BY <4>1 DEF Connect, ConnectTLS
        <4>2. CASE Lookup(c) \/ FollowRedirect(c) \/ Leave(c)
          BY <4>2 DEF Lookup, FollowRedirect, Leave
        <4> QED BY <1>2, <2>3, <4>1, <4>2 DEF ClientStep
      <3>3. \A s \in Sites : Forwarding(s)' = Forwarding(s)
        BY <3>1, <3>2, ForwardingChange DEF Forwarding
      <3> QED BY <3>1, <3>3 DEF VisitsOK, vars
    <2> QED BY <2>1, <2>2, <2>3
  <1>3. ASSUME UNCHANGED <<client, forwarded, served>> PROVE VisitsOK'
    BY <1>3 DEF VisitsOK, Forwarding
  <1>4. CASE CountersStep
    <2>1. served' = served
      BY <1>4 DEF CountersStep, Round, TakeCounters, TableExists, TableMissing, Begin, BeginFails,
                  Update, UpdateFails, Commit, CommitFails, RoundFails, EndRound
    <2> QED BY <1>3, <1>4, <2>1 DEF CountersStep, requests
  <1>5. CASE StartStep \/ MapStep \/ ListenStep \/ UNCHANGED pathVars
    BY <1>3, <1>5, StartStepType, MapStepType, ListenStepType DEF requests, vars, pathVars
  <1> QED BY <1>2, <1>4, <1>5 DEF PathNext

LEMMA PathStepInv == PathInv /\ [PathNext]_pathVars => PathInv'
  BY PathStepType, PathStepStart, PathStepVisits DEF PathInv

-----------------------------------------------------------------------------
(* The invariant of the serving path holds of every behaviour.             *)
THEOREM PathInvariance == PathSpec => []PathInv
  BY PathInitInv, PathStepInv, PTL DEF PathSpec

(* Every variable keeps its type; only certified sites have an HTTPS entry *)
(* or a certificate.                                                       *)
THEOREM PathTypeCorrect == PathSpec => []PathTypeOK
  <1>1. PathInv => PathTypeOK
    BY DEF PathInv
  <1> QED BY <1>1, PathInvariance, PTL

(* The composition: whatever the listeners, the maps and the clients do,   *)
(* the counters behave as RequestCounters says ...                         *)
THEOREM PathRunsCounters == PathSpec => Spec
  <1>1. PathInit => Init
    BY DEF PathInit
  <1>2. PathInv /\ [PathNext]_pathVars => [Next]_vars
    BY PathStepCounts DEF PathInv
  <1> QED BY <1>1, <1>2, PathInvariance, PTL DEF PathSpec, Spec

(* ... and so as the counters with losses that those implement.            *)
THEOREM PathCountsAreLossy == PathSpec => ImplementsLossyCounters
  BY PathRunsCounters, CountersAreLossy, PTL

(* What the counters hold are the requests that went on to the WAF or the  *)
(* backend, each once, for any number of sites and clients.                *)
THEOREM VisitsAreCountedOnce == PathSpec => []VisitsCountedOnce
  <1>1. PathInv => VisitsCountedOnce
    BY DEF PathInv, IInv, CountsAddUp, VisitsOK, VisitsCountedOnce
  <1> QED BY <1>1, PathInvariance, PTL

(* When the HTTP port opens, every site Start found active is served.      *)
THEOREM StartupHasNoGap == PathSpec => []NoStartupGap
  <1>1. PathInv => NoStartupGap
    BY DEF PathInv, StartOK, NoStartupGap, PathTypeOK
  <1> QED BY <1>1, PathInvariance, PTL
=============================================================================
