SPECIFICATION Spec
CONSTANTS
    Tasks = {t1, t2}
    t1 = t1
    t2 = t2
    Providers = 3
    MaxBrowsers = 3
    MaxLeaks = 1
    MaxLines = 4
INVARIANTS
    EveryExtinfIsEntry
