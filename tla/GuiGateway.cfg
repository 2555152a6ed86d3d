SPECIFICATION Spec
CONSTANTS
  None = None
  MaxClients = 2
  MaxCalls = 2
  MaxSessions = 2
  Id = {1, 2}
 
PROPERTY CallsAnswered
CHECK_DEADLOCK FALSE
