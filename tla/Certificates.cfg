SPECIFICATION Spec
CONSTANTS
  Names = {a, w}
  Wild = {w}
  Certbots = {}
  Renewer = renewer
  People = {p}
  Lifetime = 6
  RenewBelow = 2
  MaxOutage = 1
  Again = FALSE
  AtOnce = FALSE
  MaxRestarts = 1
  Breaks = {}

  
  
PROPERTIES
  DueIsRenewed
