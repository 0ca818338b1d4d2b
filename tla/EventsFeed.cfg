SPECIFICATION FairEventsSpec
CONSTANTS
    a1 = a1  a2 = a2  e1 = e1  e2 = e2
    None = None
    Clients = {a1}
    SlowClients <- MCNobody
    Retuners <- MCNobody
    IoThreads <- MCNobody
    FftResultSize = 4
    AudioFftSize = 2
    DefaultWindow <- MCDefault
    GarbageWindows <- MCGarbage
    Messages <- MCMessages
    ShowOtherUsers = TRUE
    Listeners = {e1, e2}
    MaxWaterfall = 1
INVARIANT NoLostChange
PROPERTY DepartureIsHeard
CHECK_DEADLOCK FALSE
