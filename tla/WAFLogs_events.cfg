\* Two events, two workers, both policies; everything may fail.  All is quiet at the bound.
SPECIFICATION FairSpec
CONSTANTS
    Requests = {r1, r2}
    Transactions = {t1, t2}
    Workers = {w1, w2}
    WAFLogBufferSize = 2
    WAFLogRetention = 1
    MaxDay = 3
    Faults = {"insert", "query", "commit", "clean", "crash"}
    None = None
INVARIANTS TypeOK EventsOnce DetailsHaveLogs
PROPERTIES ImplementsEventStore EventsStored
CHECK_DEADLOCK FALSE
