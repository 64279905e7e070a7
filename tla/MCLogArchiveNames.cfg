SPECIFICATION Spec
CONSTANTS
  FirstDay <- TwoDaysAgo
  LastDay = 1
  KeepLogDays = 1
  MaxFailures = 0
INVARIANTS
  OldFilesArchived
