\* Two handlers of the rule API on the rules of two sites, one of which may be deleted.
SPECIFICATION Spec
CONSTANTS
    s1 = s1
    s2 = s2
    admin = admin
    owner = owner
    Sites = {s1, s2}
    Users = {admin, owner}
    Admins = {admin}
    Owner <- OwnerOf
    Handlers = {h1, h2}
    Bodies <- SomeBodies
    Faults = {"query", "write", "build"}
    MaxRule = 2
    MaxRequests = 3
    NoThread = NoThread
SYMMETRY Symmetry
INVARIANTS TypeOK CustomRulesHaveText InstanceFollowsTable
PROPERTIES DeletedStayDeleted ChangesPermitted TogglesKeepTexts
CHECK_DEADLOCK FALSE
