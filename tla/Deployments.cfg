SPECIFICATION Spec
CONSTANTS
  app = app
  web = web
  Services = {app}
  Jobs = {j1, j2}
  Kinds = {"deploy", "redeploy", "destroy", "rollback", "removal", "configure", "environment", "ssh"}
  Longer <- NoClash
  Keep = 1
  Props = {1, 2}
  Contents = {1}
  Past = 2
  MaxCommits = 2
  MaxFaults = 1
  NoJob = NoJob
  NoService = NoService
SYMMETRY Symmetry
INVARIANTS DeploymentsInv WayBack 
 
CHECK_DEADLOCK FALSE
