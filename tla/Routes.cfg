SPECIFICATION Spec
CONSTANTS
  shop = shop
  blog = blog
  old = old
  tgt = tgt
  Names <- MCNames
  Rank <- MCRank
  Targets = {tgt, u, loop}
  NoTarget = NoTarget
  NoFile = NoFile
  Covered = {old}
  Requests = {r}
  Retrier = Retrier
  NoName = NoName
  Loopback = loop
  Panels = {}
  Initial <- MCWorld
  Kinds = {"add", "edit", "path", "service", "remove", "alias", "unalias", "takeover", "tls", "handedit"}
  Cancels = {FALSE}
  MaxAsked = 3
  MaxCrashes = 0
INVARIANTS
  RoutesInv
  NothingPending
  StillRenewed
PROPERTIES
  NoNameIsTaken
  HttpsStays
CHECK_DEADLOCK FALSE
