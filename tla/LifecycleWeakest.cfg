CONSTANTS
  Gen = {g1, g2}
  Handler = {h1, h2}
  Replica = {core}
  Home <- MCHome
  NoGen = NoGen
  NoHandler = NoHandler
  Unreliable = {"catalog", "store"}
  LateWrites = TRUE
  MaxLate = 1
  Crashes = TRUE
SPECIFICATION FairSpec
CHECK_DEADLOCK FALSE
INVARIANT OnlyBuiltIsServed
PROPERTIES FailuresAreRecorded RequestsAreAnswered
