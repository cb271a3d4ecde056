SPECIFICATION FairSpec
CONSTANTS
    Crawls = {c1, c2}
    Keys = {p1, p2, p3, p4}
    NoKey = NoKey
    c1 = c1
    c2 = c2
    p1 = p1
    p2 = p2
    p3 = p3
    p4 = p4
    MaxItems = 2
    MaxSources = 2
INVARIANTS
    SuccessCountsKeys
    DisjointFeedsNeverDeadlock
    AtMostOneNewProgram
PROPERTIES
    CrawlIsAnswered
