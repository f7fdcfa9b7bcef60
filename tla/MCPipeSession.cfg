SPECIFICATION FairSpec
CONSTANTS
    MaxCalls = 3
    MaxChunks = 3
    MaxAttempts = 2
    PipeRoom = 2
INVARIANTS
    TypeOK
    InStep
    PromptStop
PROPERTIES
    InfoFailsOnlyUnreached
    ServiceProvided
    OperationReturns
CHECK_DEADLOCK FALSE
