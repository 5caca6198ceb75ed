\* Two handlers of the rule API race the request path; the query, the write and
\* the build may fail.
CONSTANTS
    Sites = {s1}
    Requests = {r1}
    Handlers = {h1, h2}
    Workers = {w1}
    Tickers = {}
    Statuses = {"enabled"}
    Faults = {"query", "write", "build", "sameSecond"}
    MaxRev = 3
    NoThread = NoThread
SPECIFICATION Spec
SYMMETRY Symmetry
INVARIANTS TypeOK GenerationExclusive ReloadedSeesOwnChange
PROPERTIES ImplementsPublication
