SPECIFICATION Spec
CONSTANTS
    Clients = {c1, c2}
    c1 = c1
    c2 = c2
    Users = {u1}
    u1 = u1
    TTL = 2
    Exceptions = {"SourceUnavailableError", "ParseError", "StorageError", "ValueError",
                  "PermissionError", "KeyError", "IntegrityError"}
    Nothing = Nothing
    MaxLeaks = 1
INVARIANTS
    GaugeIsPaired
    RetryIsTransient
    AnswerNamesRequest
    AdminWasAdmin
PROPERTIES
    LockoutHolds
