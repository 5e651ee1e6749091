SPECIFICATION FairSpec
CONSTANTS
  w1 = w1  rt = rt  kmsg = kmsg  None = None
  Loggers = {w1}
  QueueCap = 1
  BatchCap = 2
  PipeCap = 1
  MaxCalls = 2
  MaxLines = 1
INVARIANTS TypeOK DeliveredInOrder SyncDelivers KernelLogWaits
PROPERTIES LogCallReturns RtEndEndsInit EventuallyDelivered
