\* Two requests with the tokens of one user; logouts and look-ups may fail.
SPECIFICATION FairSpec
CONSTANTS
    Users = {u1}
    Requests = {r1, r2}
    Kinds = {"api", "logout", "ui"}
    Lifetime = 2
    MaxTime = 4
    Faults = {"insert", "query"}
INVARIANTS TypeOK LoggedOutRefused
PROPERTIES BlacklistCleaned ImplementsRevocation
