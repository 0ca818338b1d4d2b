SPECIFICATION Spec
CONSTANTS
    IsReal = FALSE
    FftSize = 8
    Mids <- MCMids
    Mixers = {"forgets", "keeps"}
    Demodulations = {"USB", "FM"}
    Default = "AM"
    Slow = TRUE
    MaxFrames = 4
INVARIANTS Seamless Recovers
CHECK_DEADLOCK FALSE
