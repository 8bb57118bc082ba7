SPECIFICATION FairSpec
CONSTANTS
  Payload <- MCOnePayload
  NoPayload = NoPayload
  Caller = {t1}
  MaxSession = 1
  MaxHello = 1
  SeqMod = 4
  Attempts = 2
  TxCap = 1
  IncomingCap = 1
  HighCap = 1
  WireCap = 1
PROPERTIES WorkerReturns
CHECK_DEADLOCK FALSE
