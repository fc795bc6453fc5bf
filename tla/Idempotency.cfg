CONSTANTS
  Key = {k1, k2}
  Body = {b1, b2}
  Work = {w1, w2}
  Handler = {h1, h2}
  None = None
  Restarts = TRUE
SPECIFICATION FairSpec
CHECK_DEADLOCK FALSE
INVARIANTS OneExecutionPerKey AnswersAreFaithful IInv
PROPERTIES SuccessIsFinal ReservationsAreResolved
