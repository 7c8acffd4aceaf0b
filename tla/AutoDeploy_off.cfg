SPECIFICATION Spec
CONSTANTS
  Checks = {c1, c2}
  JobSlots = {d1, d2}
  MaxCommits = 1
  MaxSecrets = 2
  MaxHooks = 1
  MaxManual = 0
  MaxFaults = 0
  MaxCrashes = 0
PROPERTY OffForgets
CHECK_DEADLOCK FALSE
