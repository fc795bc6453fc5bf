CONSTANTS
  Raw <- MCRaw
  Size <- MCSize
  Overlap <- MCOverlap
  RawLength = 6
  MaxLength = 8
  MaxSize = 4
SPECIFICATION FairSpec
CHECK_DEADLOCK FALSE
INVARIANTS IInv NothingIsLost ChunksFit OverlapIsBounded NormalizationIsStable
PROPERTY Terminates
