SPECIFICATION FairSpec
CONSTANTS
  Jobs = {j1, j2, j3, j4}
  Containers = {a, b}
  NoTurn = NoTurn
  Kinds = {"own", "host"}
INVARIANTS TurnsInv QueueIsSound
PROPERTIES FirstComeFirstServed ImplementsOneWriter WaitingEnds
CHECK_DEADLOCK FALSE
