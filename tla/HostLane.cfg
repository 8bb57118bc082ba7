SPECIFICATION FairSpec
CONSTANTS
  Payload <- MCPayload
  DataFrame <- MCDataFrame
  NoPayload = NoPayload
  MaxSession = 2
  SeqMod = 3
  MaxRetries = 1
  RxCap = 2
  DataCredit = 1
  WireCap = 2
INVARIANTS TypeOK InOrderOnce AckedWasAccepted SequenceAgreement
PROPERTIES ImplementsFifoLane CallsReturn
CHECK_DEADLOCK FALSE
