SPECIFICATION Spec
CONSTANTS
  first = first
  second = second
  None = None
  Packet = {first, second}
  Awaits <- awaits
  RxThread = {1, 2, 3}
INVARIANTS TypeOK HandledOnce
PROPERTIES Served PoolStays
