CONSTANTS
    Compiled = {}
    Missing = Missing
    Uninitialised <- MCUninitialised
    Configs <- MCConfigs
    ReadSizes <- MCReadSizes
    Widths <- MCWidths
    Chunks <- MCChunks
    Shortfalls <- MCShortfalls
SPECIFICATION Spec
INVARIANTS SamplesIntact AudioSlicesWhole WaterfallSlicesWhole
