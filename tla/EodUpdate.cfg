CONSTANTS
  Stocks = {s1}
  Sectors = {e1}
  MaxRuns = 2
  MaxUpsets = 1
SPECIFICATION FairSpec
INVARIANTS
  TypeOK
  SuccessIsCoherent
  
  LogTellsTheTruth
  EodStampEarned
PROPERTIES
  ImplementsOrderedUpdate
  Recovers
\* The model stops when its bound on runs is reached.
CHECK_DEADLOCK FALSE
