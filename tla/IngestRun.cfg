\* One invocation on a source with two earlier versions; one statement may fail,
\* two rollbacks or sweeps may happen.  A run may stop when everything is done.
CONSTANTS
  p = p
  q = q
  old = old
  new = new
  Clis = {c1}
  Paths = {p, q}
  Hashes = {old, new}
  Models = {m1, m2}
  NoDoc = NoDoc
  Trees <- MCTrees
  NChunks = 2
  Retention = 1
  Past = 2
  Histories <- MCHistories
  MaxFaults = 1
  MaxSwitches = 2
SPECIFICATION FairSpec
CHECK_DEADLOCK FALSE
INVARIANT Accounted
PROPERTY SnapshotImmutable
PROPERTY RunEnds
