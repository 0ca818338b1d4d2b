SPECIFICATION Spec
CONSTANTS
    a1 = a1  a2 = a2  w1 = w1  t1 = t1  t2 = t2
    AudioClients <- MCOneAudio
    WaterfallClients <- MCNobody
    Retuners = {}
    SlowClients = {}
    IoThreads <- MCOneThread
    Levels = 1
    SkipNum = 1
    MaxBlocks = 3
INVARIANT OutputOutlivesTasks
CHECK_DEADLOCK FALSE
