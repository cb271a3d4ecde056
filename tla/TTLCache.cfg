SPECIFICATION FairSpec
CONSTANTS
    Tasks = {t1, t2, t3}
    Keys = {k1, k2}
    t1 = t1
    t2 = t2
    t3 = t3
    k1 = k1
    k2 = k2
    TTL = 1
    MaxVersion = 1
INVARIANTS
    FactoryHoldsLock
    OneFactoryPerMiss
PROPERTIES
    MonotoneAnswers
    EveryCallEnds
