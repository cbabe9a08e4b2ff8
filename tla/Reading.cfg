SPECIFICATION ReadingSpec
CONSTANTS
  Sources = {1, 2, 3}
  Versions = {"v1", "v2", "w"}
  SourceOf <- MCSourceOf
  NoVersion = "none"
  ValuesOf <- MCValuesOf
  Ready <- MCReady
  Readers = {"a", "b"}
  Starts <- MCStarts
  Limit = 2
  Ttl = 2
  MaxChanges = 2
  MaxFaults = 1
CHECK_DEADLOCK FALSE
INVARIANT ReadersMissNothing
PROPERTY OverviewCatchesUp
