----------------------------- MODULE MCSiteProxy -----------------------------
(* Small instances of SiteProxy for TLC. *)
EXTENDS SiteProxy, TLC

Symmetry == Permutations(Handlers) \cup Permutations(Domains)

\* The tables of an installation with one active site and nothing else.
OneActiveSite ==
    /\ Cardinality({i \in Ids : Stored(i)}) = 1
    /\ \A i \in Ids : Stored(i) => sites[i].status = "active" /\ ~sites[i].waf

OneSiteSpec == Init /\ OneActiveSite /\ [][Next]_vars
OneSiteFairSpec ==
    /\ OneSiteSpec
    /\ WF_vars(MonitorStep)
    /\ \A h \in Handlers : SF_vars(HandlerStep(h))
=============================================================================
