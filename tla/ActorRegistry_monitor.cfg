SPECIFICATION Spec
CONSTANTS
    a1 = a1
    a2 = a2
    n1 = n1
    c1 = c1
    c2 = c2
    Actors = {a1, a2}
    Names = {n1}
    WithMetadata = {}
    Calls = {c1, c2}
    Closers = {}
    Watchers = {}
    NoActor = NoActor
    NoName = NoName
INVARIANTS
    MonitorInSync
CHECK_DEADLOCK FALSE
