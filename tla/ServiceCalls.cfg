SPECIFICATION Spec
CONSTANTS
  a = a
  b = b
  um = um
  Core = Core
  withSession = withSession
  check = check
  plain = plain
  NoCheck = NoCheck
  Nothing = Nothing
  Service = {a, b, um}
  Call = {withSession, check, plain}
  Caller <- callers
  Callee <- callees
  Identity <- identities
  Check <- checks
INVARIANTS TypeOK  FrameIsAlive
PROPERTIES KeepsPromise Answered
