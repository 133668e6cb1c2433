CONSTANTS
  Requests = {r1, r2}
  Filings = {f1}
  TTL = 1
  MaxTime = 4
SPECIFICATION FairSpec
INVARIANTS
  StampsHonest
  AnswersFresh
PROPERTIES
  RequestsEnd
\* A request can begin at any time; the clock stops at its bound.
CHECK_DEADLOCK FALSE
