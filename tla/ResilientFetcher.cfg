SPECIFICATION FFairSpec
CONSTANTS
    Callers = {c1, c2}
    c1 = c1
    c2 = c2
    FailMax = 5
    ResetTimeout = 3
    Cost = 2
    Burst = 2
    MaxAttempts = 4
INVARIANTS
    ClosedBelowThreshold
    SleepCoversDeficit
    TwiceTheRate
    NoOrphans
PROPERTIES
    QuietAfterTrip
    WedgedIsFinal
    TripNeedsTwoFetches
    OpenIsProbedOrWedged
    FetchReturns
