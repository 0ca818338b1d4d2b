SPECIFICATION FairSpec
CONSTANTS
    a1 = a1  a2 = a2  w1 = w1  t1 = t1  t2 = t2
    AudioClients <- MCOneAudio
    WaterfallClients <- MCWaterfall
    Retuners = {a1, w1}
    SlowClients = {a1, w1}
    IoThreads <- MCOneThread
    Levels = 2
    SkipNum = 2
    MaxBlocks = 2
INVARIANT IInv
PROPERTIES SentInOrder ImplementsSharedSpectrum FrameCompletes ThreadEnds
CHECK_DEADLOCK FALSE
