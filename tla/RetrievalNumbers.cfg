CONSTANTS
  Schema <- MCSchema
  Metadata <- MCMetadata
  Filters = {}
  Similarity <- MCSimilarity
  Unit = 2
  Coarse = 2
  Chunk = {1, 2}
  MaxTopK = 2
  MaxDepth = 3
  MaxConditions = 2
  MaxValues = 2
SPECIFICATION Spec
CHECK_DEADLOCK FALSE
INVARIANT AcceptedIsApplied
