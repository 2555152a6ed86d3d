SPECIFICATION CascadeSpec
CONSTANTS
  base = base
  left = left
  right = right
  top = top
  Service = {base, left, right, top}
  EnableReq <- DiamondReq
  InstallReq <- DiamondReq
  UM = UM
  DB = DB
  MaxOwed = 1
  LateInfo = FALSE
  Commands = {}
  Thread = {t1, t2}
  Lists <- SomeLists
  
PROPERTY ScansEnd
CHECK_DEADLOCK FALSE
