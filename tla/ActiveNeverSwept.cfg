\* One source, two requests and the daemon: ActiveNeverSwept is refuted.
CONSTANTS
  src1 = src1
  src2 = src2
  v1 = v1
  v2 = v2
  v3 = v3
  w1 = w1
  w2 = w2
  Sources = {src1}
  Versions = {v1, v2, v3}
  SourceOf <- MCSourceOf
  Sessions = {s1, s2}
  Daemon = Daemon
  Nobody = Nobody
  NoVersion = NoVersion
  MaxRevision = 3
  RetentionCounts = {1, 2}
SPECIFICATION Spec
SYMMETRY MCSymmetry
PROPERTY ActiveNeverSwept
