SPECIFICATION Spec
CONSTANTS
    Clients = {h1, h2}
    Workers = {w1, w2}
    NoWorker = NoWorker
    Broken = Broken
    NoClient = NoClient
    MaxAttempts = 3
SYMMETRY Symmetry
INVARIANTS
    OneWorker
    NoSecondWorker
    
PROPERTY
    OursIsNotReplaced
