CONSTANTS
  Gen = {g1, g2}
  g1 = g1
  Start <- MCStart
  Document = {d1}
  v1 = v1
  Version = {v1, v2}
  Chunks <- MCChunks
  Handler = {h1, h2}
  None = None
  Operations = {"ingest", "retrieve"}
  Unreliable = FALSE
  LateCalls = FALSE
  Exclusive = TRUE
SPECIFICATION Spec
SYMMETRY MCSymmetry
CHECK_DEADLOCK FALSE
PROPERTY SearchSeesOneVersion
