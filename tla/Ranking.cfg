SPECIFICATION Spec
CONSTANTS
  Top = 2
  Chunks <- MCChunks
  Blank <- MCBlank
  Searches <- MCSearches
  Relevances = {10000, 200000}
  RerankPool = 2
  RerankFetch = 2
INVARIANT PageReads
INVARIANT PaidOnce
INVARIANT ClassIsBest
CHECK_DEADLOCK FALSE
