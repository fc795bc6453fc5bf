CONSTANTS
  Point = {1, 2, 3}
  Owner <- MCOwner
  PageSize = 1
  MaxResults = 2
  Limits = {1, 2}
  Indexes = 2
  r1 = r1
  h1 = h1
  h2 = h2
  Replica = {r1}
  Handler = {h1, h2}
  Home <- MCHome
  Serves <- MCServes
  None = None
  Unreliable = TRUE
  LateCalls = 2
  Crashes = TRUE
SPECIFICATION FairSpec
CHECK_DEADLOCK FALSE
INVARIANTS IInv ListingIsFaithful LimitIsExact ReadinessIsTruthful
PROPERTIES RequestsEnd ImplementsAccess
