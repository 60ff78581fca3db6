SPECIFICATION FairSpec
CONSTANTS
    a1 = a1
    a2 = a2
    n1 = n1
    c1 = c1
    c2 = c2
    Actors = {a1, a2}
    Names = {n1}
    WithMetadata = {a1}
    Calls = {c1, c2}
    Closers = {c1}
    Watchers = {a1}
    NoActor = NoActor
    NoName = NoName
INVARIANTS
    TablesAgree
    DroppedIsCancelled
    ShutdownReachesAll
    NotifiedIsGone

    
