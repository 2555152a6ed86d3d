SPECIFICATION Spec
CONSTANTS
  x1 = x1
  y1 = y1
  y2 = y2
  x = x
  y = y
  None = None
  Packet = {x1, y1, y2}
  Client = {x, y}
  Leaving = {x}
  To <- to
  TxThread = {1, 2}
INVARIANTS TypeOK TxArmed
PROPERTIES SentInOrder Transmitted
