CONSTANTS
  Document <- MCDocument
  Lengths = {1, 4, 7}
  BatchSize = 3
  MaxAttempts = 3
  Deadline = 10
  Waits = 2
  Backoff = 1
  Duration = {0, 3, 20}
  MaxBatchItems = 3
  MaxInputBytes = 5
  MaxTotalInputBytes = 8
  MaxTokensPerInput = 2
  MaxBatchTokens = 4
SPECIFICATION Spec
CHECK_DEADLOCK FALSE
INVARIANTS VectorsBelongToChunks OwnServiceIsAccepted RetriesAreBounded TimeIsBounded IInv
