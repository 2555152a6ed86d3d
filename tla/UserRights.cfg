SPECIFICATION Spec
CONSTANTS
  None = None
  Absent = Absent
  Error = Error
  login = login
  chat = chat
  user = user
  staff = staff
  guests = guests
  TablesAtStart <- tablesAtStart
  User = {user}
  Group = {staff, guests}
  Permission = {login, chat}
  PermissionParent <- permissionParent
  LoginPermission = login
  Session = {1, 2}
  Thread = {1, 2}
  MaxCommands = 3
INVARIANTS TypeOK DecisionsMeetRule  UserRightsCurrent ActiveIsListed
CHECK_DEADLOCK FALSE
