CONSTANTS
  Gen = {g1, g2, g3}
  Handler = {h1, h2}
  Replica = {core}
  Home <- MCHome
  NoGen = NoGen
  NoHandler = NoHandler
  Unreliable = {}
  LateWrites = FALSE
  MaxLate = 0
  Crashes = FALSE
SPECIFICATION Spec
CHECK_DEADLOCK FALSE
INVARIANT AliasAgreesAtRest
