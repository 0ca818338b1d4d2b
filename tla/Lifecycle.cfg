CONSTANTS
    Compiled = {}
    Missing = Missing
    Uninitialised = {}
    Configs <- MCConfigs
    Clients = {c1, e1}
    Listeners = {e1}
    IoThreads = {main, io1}
    Main = main
    MaxSignals = 2
SPECIFICATION FairSpec
INVARIANTS TasksHaveThreads NothingLeft
PROPERTY StopEnds
CHECK_DEADLOCK FALSE
