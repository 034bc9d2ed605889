SPECIFICATION FairSpec
CONSTANTS
  Total = 4
  Serial = TRUE
  MayRetry = FALSE
  EmptyPages = 2
  MaxCalls = 6
  MaxFails = 1
INVARIANTS TypeOK NothingSkipped
PROPERTIES ImplementsIterator ComesToItsEnd
CHECK_DEADLOCK FALSE
