\* The checker fires before the first request to a site: requests block.
CONSTANTS
    Sites = {s1}
    Requests = {r1}
    Handlers = {}
    Workers = {w1}
    Tickers = {"proxy"}
    Statuses = {"enabled"}
    Faults = {}
    MaxRev = 1
    NoThread = NoThread
SPECIFICATION FairSpec
PROPERTIES
    RequestsAnswered
CHECK_DEADLOCK FALSE
