SPECIFICATION Spec
CONSTANTS
  FirstDay <- TwoDaysAgo
  LastDay = 1
  KeepLogDays = 1
  MaxFailures = 1
INVARIANTS
  TypeOK
  FiledByDay
PROPERTIES
  KeptLongEnough
  TodayStays
