SPECIFICATION FairSpec
CONSTANTS
    MaxFragments = 2
    MaxPieces = 2
    MaxChunks = 2
    MaxUnits = 3
    SiteChunk = 2
INVARIANTS
    TypeOK
    OffsetsTrue
    NothingTruncated
    PromptCancel
    CurrentSettings
PROPERTIES
    QuietAfterCancel
    SpeakReturns
