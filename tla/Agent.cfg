SPECIFICATION Spec
CONSTANTS
  Top = 2
  ClosedValues <- MCClosed
  Corpus <- MCCorpus
  FirstCalls <- MCFirstCalls
  Levels = {"moderate", "strict"}
  MaxQueries = 3
  MaxIds = 5
  MaxLimit = 4
  MaxCount = 3
  SearchLimit = 3
  NavCount = 2
  NeighborCount = 1
  WindowLimit = 2
  ServerCap = 2
  PageLimit = 1
  Few = 3
  MaxFaults = 1
  MaxSweeps = 1
CHECK_DEADLOCK FALSE
INVARIANT RecoveryFinds
INVARIANT WindowsCover
PROPERTY CallsLand
