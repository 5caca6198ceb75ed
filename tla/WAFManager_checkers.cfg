\* Both managers' tickers, with a request path and a handler; a checker that locks
\* ruleDbMutex against itself may stop the whole system.
CONSTANTS
    Sites = {s1}
    Requests = {r1}
    Handlers = {h1}
    Workers = {w1}
    Tickers = {"proxy", "api"}
    Statuses = {"enabled"}
    Faults = {}
    MaxRev = 2
    NoThread = NoThread
SPECIFICATION Spec
INVARIANTS TokenNeverDuplicated OnlyCheckersDeadlock
CHECK_DEADLOCK FALSE
