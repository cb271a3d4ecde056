SPECIFICATION Spec
CONSTANTS
    Crawls = {c1}
    Keys = {p1, p2}
    NoKey = NoKey
    c1 = c1
    p1 = p1
    p2 = p2
    MaxItems = 2
    MaxSources = 1
INVARIANTS
    SuccessIsSaved
