SPECIFICATION FairSpec
CONSTANTS
  Users = {luis, carol}
  Sources = {home}
  Requests = {r, s}
  Limit = 2
  Window = 2
  Lock = 4
INVARIANTS
  SignInInv
PROPERTIES
  LockHolds
  LocksEnd
