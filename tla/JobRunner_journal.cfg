SPECIFICATION Spec
CONSTANTS
  Jobs = {j1, j2, j3}
  Clients = {}
  Keep = 1
  JournalKept = 2
  ChanCap = 1
  MaxSteps = 0
  MaxFaults = 1
  MaxCrashes = 1
  NoJob = NoJob
SYMMETRY JobSymmetry
INVARIANTS JobRunnerInv JournalTellsTheTruth FinishedIsFound
PROPERTY OutcomesAreFinal
CHECK_DEADLOCK FALSE
