CONSTANTS
    LookAheadSamples = 3
    Values <- MCValues
    BlockSize = 3
    MaxSamples = 9
    FrameSize = 2
    Coalesce = 3
    Frames <- MCFrames
    Width = 2
    Stride = 3
    Widths <- MCWidths
    MaxFrames = 8
SPECIFICATION Spec
INVARIANTS PeakIsExact SoundContinues LabelsFollow LinesMatchHeaders
CHECK_DEADLOCK FALSE
