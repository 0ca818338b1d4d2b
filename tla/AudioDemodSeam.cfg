SPECIFICATION Spec
CONSTANTS
    IsReal = FALSE
    FftSize = 8
    Mids <- MCOneMid
    Mixers = {"keeps"}
    Demodulations = {"USB", "AM"}
    Default = "USB"
    Slow = FALSE
    MaxFrames = 5
INVARIANT OverlapIsAdjacent
CHECK_DEADLOCK FALSE
