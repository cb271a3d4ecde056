SPECIFICATION Spec
CONSTANTS
    Callers = {c1, c2}
    c1 = c1
    c2 = c2
    FailMax = 2
    ResetTimeout = 3
SYMMETRY CallerSymmetry
INVARIANTS
    OpenIsStamped
