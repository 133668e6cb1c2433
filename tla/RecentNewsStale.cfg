CONSTANTS
  Tickers <- MCTickers
  Articles <- MCArticles
  About <- MCAbout
  Pipelines = {p1}
  Live = {l1}
  PanelSize = 2
SPECIFICATION Spec
INVARIANTS
  PanelLatestAtRest
\* Every transaction ends.
CHECK_DEADLOCK FALSE
