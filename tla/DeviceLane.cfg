SPECIFICATION Spec
CONSTANTS
  Payload <- MCPayload
  NoPayload = NoPayload
  Caller = {t1}
  MaxSession = 2
  MaxHello = 2
  SeqMod = 3
  Attempts = 2
  TxCap = 1
  IncomingCap = 1
  HighCap = 1
  WireCap = 1
INVARIANT NumberingFresh
PROPERTY ImplementsFifoLane
CHECK_DEADLOCK FALSE
