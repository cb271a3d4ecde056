SPECIFICATION FairSpec
CONSTANTS
    Sources = {s1, s2}
    Requests = {a1}
    Configs = {x}
    s1 = s1
    s2 = s2
    a1 = a1
    x = x
    Threshold = 2
    Ops = {"enable", "disable", "put", "delete", "create"}
    Dead = {s1}
    MaxFaults = 1
    MaxCreates = 1
INVARIANTS
    StreakIsExact
PROPERTIES
    NoResurrection
    PauseHasItsStreak
    DeadLeavesRotation
