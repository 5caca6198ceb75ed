\* Two handlers, two rows that may want the same domain, every operation.
SPECIFICATION WAFOffSpec
CONSTANTS
    Ids = {s1, s2}
    Domains = {d1, d2}
    Targets = {url}
    Certs = {c1}
    Unparsable = {}
    Mismatched = {}
    Handlers = {h1, h2}
    Monitor = monitor
    Operations = {"create", "update", "delete", "status", "waf", "certificate"}
    Faults = {"read", "save", "start"}
    MaxRequests = 2
    None = None
INVARIANTS TypeOK RoutedToOwner MonitorRepairs HTTPSEntriesHaveCertificates
PROPERTIES NoGapInService ImplementsServingPath
SYMMETRY Symmetry
CHECK_DEADLOCK FALSE
