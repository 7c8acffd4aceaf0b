SPECIFICATION FairSpec
CONSTANTS
  Checks = {c1, c2}
  JobSlots = {d1, d2}
  MaxCommits = 2
  MaxSecrets = 1
  MaxHooks = 1
  MaxManual = 1
  MaxFaults = 0
  MaxCrashes = 0
PROPERTIES FollowsTheBranch ComesToRest
CHECK_DEADLOCK FALSE
