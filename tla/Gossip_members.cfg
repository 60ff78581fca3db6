\* Clusters of one, two and three nodes; c may crash, or, in a cluster of two,
\* be cut off and come back.
CONSTANTS
  Nodes = {a, b, c}
  Seed = a
  Mobile = {c}
  Runs = {c}
  Fanout = 1
  FailureTimeout = 1
  SuspicionTimeout = 1
  RecoveryWindow = 2
  CleanupGrace = 3
  TombstoneRetention = 4
  MaxAge = 5
  Lossy = TRUE
  CutLimit = 2
  MaxFaults = 1
SPECIFICATION Spec
INVARIANT EpochWasIssued
 
