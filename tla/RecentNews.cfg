CONSTANTS
  Tickers <- MCTickers
  Articles <- MCArticles
  About <- MCAbout
  Pipelines = {p1}
  Live = {l1}
  PanelSize = 2
SPECIFICATION FairSpec
INVARIANTS
  TypeOK
  PanelFromOneRefresh
  PanelRowsStored
PROPERTIES
  AllEnd
\* Every transaction ends.
CHECK_DEADLOCK FALSE
