SPECIFICATION Spec
CONSTANTS
  Actors = {1, 2}
  Threads = {1, 2}
  Calls = {1, 2}
  Buffer = 1
  MaxItems = 2
  MaxStreams = 1
  Stoppable = {2}

PROPERTIES StreamsFlow
CHECK_DEADLOCK FALSE
