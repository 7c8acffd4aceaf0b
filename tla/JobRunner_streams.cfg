SPECIFICATION FairSpec
CONSTANTS
  Jobs = {j1}
  Clients = {c1, c2}
  Keep = 1
  JournalKept = 1
  ChanCap = 2
  MaxSteps = 2
  MaxFaults = 1
  MaxCrashes = 1
  NoJob = NoJob
INVARIANTS NoOrphanListener WholeStory
PROPERTIES StreamsEnd RowsSettle
CHECK_DEADLOCK FALSE
