\* A unit is an hour.
CONSTANTS
  Day = 24
  RunTimes = {9, 15, 23}
  Grace = 2
  Poll = 1
  UsualRun = 1
  LastDay = 2
SPECIFICATION Spec
INVARIANTS
  TypeOK
  WaitsForNextSlot
  HealthyNeverOverdue
PROPERTIES
  OneRunPerSlot
\* The model stops with the last day.
CHECK_DEADLOCK FALSE
