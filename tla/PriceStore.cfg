SPECIFICATION Spec
CONSTANTS
  Update = update
  Backfill = backfill
  Seed = seed
  Cleanup = cleanup
  Refreshes = {r1}
  Last = 3
  Recent = {2, 3}
  Closed = {2}
  MaxQuotes = 2
  MaxEdits = 2
  MaxStarts = 4
INVARIANTS AloneRecomputesAll TechnicalsStampNotAhead UnitsAgree
CHECK_DEADLOCK FALSE
