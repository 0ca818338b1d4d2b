SPECIFICATION Spec
CONSTANTS
    a1 = a1  a2 = a2  w1 = w1  t1 = t1  t2 = t2
    AudioClients <- MCAudio
    WaterfallClients <- MCNobody
    Retuners = {a2}
    SlowClients = {}
    IoThreads <- MCThreads
    Levels = 1
    SkipNum = 1
    MaxBlocks = 3
INVARIANTS IInv OutputStable SpectrumWhole OneAudioTask PhaseKept
PROPERTIES HalfOverlap NoAudioGap
CHECK_DEADLOCK FALSE
