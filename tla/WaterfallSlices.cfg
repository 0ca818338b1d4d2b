SPECIFICATION FairSpec
CONSTANTS
    w1 = w1  w2 = w2  t1 = t1  t2 = t2
    Clients = {w1, w2}
    SlowClients = {w2}
    Movers = {w1}
    IoThreads = {t1}
    FftResultSize = 8
    MinWaterfallFft = 2
    Messages <- MCMessages
INVARIANTS RegistryConsistent SliceIsAsked NotMissed NotTwice LabelFits
PROPERTY MoveIsShown
