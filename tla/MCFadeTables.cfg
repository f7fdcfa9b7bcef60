SPECIFICATION Spec
CONSTANTS
    Threads = {t1, t2}
    Overlap = 2
INVARIANT
    HalvesSumToOne
