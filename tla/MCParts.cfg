SPECIFICATION PackSpec
CONSTANTS
  LastWorker = 3
  Lists <- OneList
  Selectors = {1, 2}
  Requests <- SomeRequests
  Clockwise <- SomeClockwise
  MaxLoad = 1
  LoadMaps <- SomeLoadMaps
  Period = 6
  Actors = {1, 2}
  Threads = {1, 2}
  Calls = {1, 2}
  Buffer = 1
  MaxItems = 2
  MaxStreams = 1
  Stoppable = {2}
  Lengths <- SomeLengths
  Threshold = 3
  ChunkSizes = {1, 2, 3}
  Room = 2
  Runs = {1}
  NumWorkers = 2
  MaxVus = 2
  NumRates = 1
  Kinds = {"rate", "csweep"}
  MaxRequests = 2
  MaxArrivals = 3
  ToolThreads = {"s", "t"}
  Homes <- SomeHomes
  Listing <- SomeListing
  Letters <- SomeLetters
  MaxToolName = 6
  KeptRuntime = TRUE
  MaxRefresh = 2
  MaxCalls = 2
  MaxSilent = 1
  Lines <- SomeLines
  Paths = {"p", "q", "out"}
  Inside = {"p", "q"}
  Workspaces <- SomeWorkspaces
  Looser <- SomeLooser
  MaxLines = 6
INVARIANTS
  
  TraceIsMine
  RestIsDone
  RoundTrip
  ReportCountsAll
  OfferedIsReached
  
CHECK_DEADLOCK FALSE
