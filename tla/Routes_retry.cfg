SPECIFICATION FairSpec
CONSTANTS
  shop = shop
  blog = blog
  old = old
  tgt = tgt
  Names <- MCNames
  Rank <- MCRank
  Targets = {tgt, u, loop}
  NoTarget = NoTarget
  NoFile = NoFile
  Covered = {}
  Requests = {r, retrier}
  Retrier = retrier
  NoName = NoName
  Loopback = loop
  Panels = {old}
  Initial <- MCWaiting
  Kinds = {"remove", "edit", "expose"}
  Cancels = {TRUE, FALSE}
  MaxAsked = 1
  MaxCrashes = 1
INVARIANTS
  NginxStarts
PROPERTIES
  GetsItsCertificate
CHECK_DEADLOCK FALSE
