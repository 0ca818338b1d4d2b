SPECIFICATION FairSpec
CONSTANTS
    a1 = a1  a2 = a2  t1 = t1  t2 = t2
    None = None
    Clients = {a1, a2}
    SlowClients = {a2}
    Retuners = {a1}
    IoThreads = {t1}
    FftResultSize = 4
    AudioFftSize = 2
    DefaultWindow <- MCDefault
    GarbageWindows <- MCGarbage
    Messages <- MCMessages
    ShowOtherUsers = FALSE
INVARIANTS RegistryConsistent SlicesInRange UndisturbedSlice OneTaskPerClient
PROPERTY RetuneIsHeard
