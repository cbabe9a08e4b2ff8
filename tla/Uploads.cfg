\* Every text of up to four lines, lists of one to three documents, and many
\* manifests over one tree; at most two requests fail for a passing reason.  A
\* run may stop when it is over.
CONSTANTS
  MaxTokens = 5
  Crumb = 1
  Runs <- MCRuns
  Noise = {"out"}
  Hidden = {".git", ".hub"}
  GroupLimit = 8
  Window = 9
  Dense = 2
  MaxInputs = 2
  MaxRequestTokens = 14
  MaxRequestChunks = 3
  MaxTexts = 2
  MaxTextTokens = 6
  MaxDocs = 3
  ByteTarget = 30
  DocBytes = 1
  VectorBytes = 3
  BodyLimit = 33
  Bulk = 12
  MaxFaults = 2
SPECIFICATION Spec
CHECK_DEADLOCK FALSE
INVARIANT ChunksTile
INVARIANT StoredRight
INVARIANT NothingBilledTwice
PROPERTY UploadEnds
