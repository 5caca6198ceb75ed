\* One site is deactivated while the monitor is in its round.
SPECIFICATION OneSiteFairSpec
CONSTANTS
    Ids = {1}
    Domains = {d1}
    Targets = {url}
    Certs = {c1}
    Unparsable = {}
    Mismatched = {}
    Handlers = {h1}
    Monitor = monitor
    Operations = {"status"}
    Faults = {}
    MaxRequests = 1
    None = None
PROPERTY OnlyActiveSitesServed
