CONSTANTS
  Gen = {g1, g2}
  g1 = g1
  Start <- MCStart
  Document = {d1}
  v1 = v1
  Version = {v1, v2, v3}
  Chunks <- MCChunks
  Handler = {h1, h2}
  None = None
  Operations = {"ingest", "delete", "retrieve"}
  Unreliable = TRUE
  LateCalls = TRUE
  Exclusive = TRUE
SPECIFICATION Spec
SYMMETRY MCSymmetry
CHECK_DEADLOCK FALSE
INVARIANT AcknowledgedWritesHold
PROPERTIES NeverVanishes OnlyActivatedIsWritten
