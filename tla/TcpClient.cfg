SPECIFICATION Spec
CONSTANTS
  None = None
  Packet = {1, 2}
  Timing <- timing
  TxThread = {1, 2}
  Manager = {1, 2}
INVARIANTS TypeOK TxArmed 
PROPERTIES SentInOrder Transmitted
CHECK_DEADLOCK FALSE
