SPECIFICATION QuietSpec
CONSTANTS
  db = db
  um = um
  app = app
  Service = {db, um, app}
  EnableReq <- ChainReq
  InstallReq <- ChainReq
  UM = um
  DB = db
  MaxOwed = 1
  LateInfo = FALSE
  Commands = {}
  BootStates = {"installed", "enabled"}
  BootCEP <- DbRegistered
PROPERTY BootConverges
CHECK_DEADLOCK FALSE
