SPECIFICATION FairSpec
CONSTANTS
    h = h
    w1 = w1
    k1 = k1
    c1 = c1
    HeadNode = h
    Workers = {w1}
    Keys = {k1}
    Callers = {c1}
    Interval = 1
    Timeout = 1
    MaxCalls <- MCMaxCalls
    WorkerCalls = 2
    HeadCalls = 1
    MaxLosses = 0
    MaxHeads = 2
INVARIANTS
    NoOpLost
    LiveWorkerStays
PROPERTIES
    DeadIsForgotten
    UnknownStops
    ViewsConverge
