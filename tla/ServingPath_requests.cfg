\* One site with a certificate; any statement of a round may fail, the HTTPS port may
\* be taken for a while.  Clients stop at MaxRequests, the counters may stop for good.
SPECIFICATION PathFairSpec
CONSTANTS
    Sites = {s1}
    Certified = {s1}
    Clients = {c1}
    SiteTable = TRUE
    MaxRequests = 2
    Faults = {"check", "begin", "update", "commit"}
    NoName = NoName
INVARIANTS PathTypeOK VisitsCountedOnce NoStartupGap
PROPERTIES ImplementsLossyCounters CountsLeaveMemory ListenerComesUp
CHECK_DEADLOCK FALSE
