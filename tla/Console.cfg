SPECIFICATION Spec
SYMMETRY Symmetry
CONSTANTS
    Sources = {s1, s2}
    TabIds = {t1, t2}
    CallIds = {k1, k2}
    s1 = s1
    s2 = s2
    t1 = t1
    t2 = t2
    k1 = k1
    k2 = k2
    NoTab = NoTab
    Gone = Gone
    Broken = Broken
    Faults = TRUE
INVARIANTS
    TabsAreSound
    CrossWriteNeedsCtrlS
    ShownIsActive
