\* Two requests with one key, rules on every phase, an instance that is not found, a
\* body that is not read, an answer that breaks off, and time for an entry to expire.
SPECIFICATION FairSpec
CONSTANTS
    Requests = {r1, r2}
    Keys = {k1}
    Contents = {c1}
    Verdicts = {"allowed", "headers", "body", "response"}
    TTL = 2
    MaxServe = 1
    MaxTime = 3
    Faults = {"waf", "body", "backend"}
INVARIANTS TypeOK EventMatchesAnswer InterruptedNotServed
PROPERTIES RulesTakeEffect ExpiredEntriesRemoved
