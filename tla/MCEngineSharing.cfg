SPECIFICATION FairSpec
CONSTANTS
    Clients = {c1, c2}
    NoClient = NoClient
    PauseCount = 2
    PauseLengths <- MCPauseLengths
    MaxSegments = 1
    ChannelsAllowed = 2
INVARIANTS
    OwnPacing
    OnePacing
    ChannelOnlyInsideLock
PROPERTY
    LockReturned
