CONSTANTS
  fresh = fresh
  held = held
  kept = kept
  old = old
  Sorted <- MCSorted
  Holdings = {held, kept}
  TelAviv = {fresh, held}
  Young = {fresh, held}
  Pruned = {"sp400", "tase"}
  MaxEdits = 1
  MaxOffers = 1
  MaxStarts = 4
SPECIFICATION Spec
INVARIANTS PrunedStaysOut
PROPERTIES HoldingsKept
CHECK_DEADLOCK FALSE
