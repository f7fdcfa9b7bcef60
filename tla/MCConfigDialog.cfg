SPECIFICATION Spec
CONSTANTS
    h1 = h1
    Nothing = Nothing
    Absent = Absent
    Hosts <- MCHosts
    Scales <- MCScales
    Pauses <- MCPauses
    Switches <- MCSwitches
    Tokens <- MCTokens
    Positions <- MCPositions
    RateOfSlider <- MCRateOfSlider
    SliderOfRate <- MCSliderOfRate
    HandEdited <- MCHandEdited
    Dictionary = {0}
    Events = 2
INVARIANTS
    TypeOK
    SpeaksAsSaved
    ResetSpeaksAsShipped
    SavedMeansSaved
    NoDrift
