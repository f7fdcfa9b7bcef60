SPECIFICATION Spec
CONSTANTS
    Threads = {t1, t2}
    Objects = {o1, o2, o3}
    Outside = {p1, p2, p3, p4}
    Nothing = Nothing
    MaxLocks = 1
SYMMETRY Symmetry
INVARIANTS
    NoDangling
    StaysLoaded
    NothingLeaks
