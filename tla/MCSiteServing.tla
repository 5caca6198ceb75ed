---------------------------- MODULE MCSiteServing ----------------------------
(* Small instances of SiteServing for TLC. *)
EXTENDS SiteServing, TLC

Symmetry == Permutations(Handlers) \cup Permutations(Domains) \cup Permutations(Ids)

\* Bound: the tables the program starts on have the WAF switched off, and inactive rows
\* where pending ones would do the same; requests make both.
WAFOffInit == Init /\ \A i \in Ids : ~sites[i].waf /\ sites[i].status # "pending"

WAFOffSpec == WAFOffInit /\ [][Next]_vars
=============================================================================
