\* Two rows, targets that may not parse, two requests, then the API is quiet.
SPECIFICATION FairSpec
CONSTANTS
    Ids = {1, 2}
    Domains = {d1, d2}
    Targets = {url, bad}
    Certs = {}
    Unparsable = {bad}
    Mismatched = {}
    Handlers = {h1, h2}
    Monitor = monitor
    Operations = {"delete", "status"}
    Faults = {}
    MaxRequests = 2
    None = None
PROPERTIES HandlersAnswered ActiveSitesServed
