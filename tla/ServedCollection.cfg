CONSTANTS
  Gen = {g1, g2, g3}
  Handler = {h1, h2}
  Replica = {core}
  Home <- MCHome
  NoGen = NoGen
  NoHandler = NoHandler
  Unreliable = {"catalog", "store"}
  LateWrites = FALSE
  MaxLate = 0
  Crashes = TRUE
  Document = {d1}
  Version = {v1}
  Chunks <- MCChunks
  DocumentHandler = {k1}
  None = None
  Operations = {"ingest"}
  PointsFail = TRUE
  LateCalls = TRUE
  Exclusive = TRUE
SPECIFICATION ServedSpec
SYMMETRY MCSymmetry
CHECK_DEADLOCK FALSE
INVARIANTS IInv AtMostOneActive DocumentsAreIndexed
PROPERTIES CutoverReplacesExpected OnlyRetirementDeactivates OnlyRevalidationRestores RetirementIsComplete ImplementsCatalog
