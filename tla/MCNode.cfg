SPECIFICATION PackSpec
CONSTANTS
  ShmNames = {"n"}
  MaxRegions = 2
  MaxLeases = 2
  Callers = {c1, c2}
  MayFail = {"shm"}
  Actors = {"actors/a"}
  MaxRequests = 1
  Requests = {"ping", "stop", "create", "snapshot", "stats", "invalid"}
  Threads = {t1, t2, t3}
  Shards = 2
  Scenarios = {{"list", "lookup", "stop"}, {"spawn_refused", "lookup", "stop"}}
  Messages = {a, b}
  MaxRetries = 1
  MaxErrors = 1
  Capacity = 1
  Clients = {1, 2}
  Conns = {1, 2, 3}
  MaxPooled = 1
  MaxServed = 2
SYMMETRY Symmetry
INVARIANTS
  NoStaleMap
  ShutdownOkIsStopped
  
  
  AnswerIsMine
CHECK_DEADLOCK FALSE
