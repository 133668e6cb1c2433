CONSTANTS
  Known = {a, b}
  Unknown = {x}
  First = a
  Visited = {a}
  MaxLoads = 3
  MaxVersion = 2
SPECIFICATION FairSpec
INVARIANTS
  ShowsLatestAtRest
  RefreshedIsShown
  OfflineShowsSame
PROPERTIES
  ButtonComesBack
\* The model stops when its bound on loads is reached.
CHECK_DEADLOCK FALSE
