SPECIFICATION FairSpec
CONSTANTS
    Clients = {h1, h2}
    Nobody = Nobody
    NoPipe = NoPipe
    IdleTicks = 1
    MaxFailures = 1
INVARIANTS
    NoHostLost
    IdleExitServesNobody
PROPERTIES
    OpenedIsServed
    OpensAgain
    LeavesWhenIdle
