SPECIFICATION Spec
CONSTANTS
  c1 = c1
  c2 = c2
  d1 = d1
  None = None
  Conns = {c1, c2}
  Daemons = {}
  Subs <- TwoSubs
  Batches <- HistoryBatch
  NeverEqual <- MCNeverEqual
  MaxCalls = 2
  OutgoingBuf = 1
  JobBuf = 1
INVARIANTS CloseAfterUse CounterExact PushToLive ServedInOrder
