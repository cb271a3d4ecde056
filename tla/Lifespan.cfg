SPECIFICATION LSpec
CONSTANTS
    Calls = {c1, c2}
    c1 = c1
    c2 = c2
    Ops = {"seed", "reseed"}
    Demo = {d1, d2}
    d1 = d1
    d2 = d2
    Other = {o1}
    o1 = o1
    Batches = {b1, b2, b3}
    b1 = b1
    b2 = b2
    b3 = b3
    NoBatch = NoBatch
    Foreign = Foreign
    MaxFreed = 1
    MaxCrashes = 1
INVARIANTS
    SeedIsIdempotent
    BatchIsWhole
    ShutdownIsNoFailure
PROPERTIES
    UnstampedIsFinal
    DemoReturns
