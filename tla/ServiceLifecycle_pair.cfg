SPECIFICATION Spec
CONSTANTS
  db = db
  um = um
  app = app
  Service = {um, app}
  EnableReq <- ChainReq
  InstallReq <- ChainReq
  UM = um
  DB = db
  MaxOwed = 1
INVARIANTS TypeOK RowsAreInstalled 
PROPERTIES LostConnectionSettles EnablingIsJustified  InstalledIsKept
CONSTANTS
  LateInfo = FALSE
  Commands = {"install", "enable", "disable", "uninstall", "force"}
