\* A rule made through the API never reaches the proxy's instance.
CONSTANTS
    Sites = {s1}
    Requests = {r1}
    Handlers = {h1}
    Workers = {w1}
    Tickers = {}
    Statuses = {"1"}
    Faults = {}
    MaxRev = 2
    NoThread = NoThread
SPECIFICATION RequestedFairSpec
PROPERTIES
    ProxyLearnsChanges
CHECK_DEADLOCK FALSE
