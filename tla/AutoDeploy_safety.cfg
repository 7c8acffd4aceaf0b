SPECIFICATION Spec
CONSTANTS
  Checks = {c1, c2, c3}
  JobSlots = {d1, d2}
  MaxCommits = 2
  MaxSecrets = 1
  MaxHooks = 1
  MaxManual = 1
  MaxFaults = 1
  MaxCrashes = 1
SYMMETRY SlotSymmetry
INVARIANTS AutoDeployInv OneAtATime
PROPERTY NeverBackwards
CHECK_DEADLOCK FALSE
