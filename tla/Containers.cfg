SPECIFICATION FairSpec
CONSTANTS
  web = web
  main = main
  db = db
  cache = cache
  q = q
  Containers = {web, main}
  Databases = {db, cache}
  Projects = {q, lone}
  Redis = {cache}
  Addresses = 2
  Requests = {r, s}
  Present = {web, main}
  Home = q
  Found <- MCFound
  Kinds = {"create", "destroy", "power", "assign", "undeclare", "declare", "provision", "share", "adopt", "remove"}
  MaxAsked = 3
  MaxFails = 1
INVARIANTS
  ContainersInv
  PasswordsMatch
PROPERTIES
  
  
  CanLetGo
CHECK_DEADLOCK FALSE
