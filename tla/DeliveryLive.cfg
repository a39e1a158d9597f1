SPECIFICATION FairSpec
CONSTANTS
  c1 = c1
  c2 = c2
  d1 = d1
  None = None
  Conns = {c1, c2}
  Daemons = {d1}
  Subs <- ThreeSubs
  Batches <- MixedBatches
  NeverEqual <- MCNeverEqual
  MaxCalls = 1
  OutgoingBuf = 1
  JobBuf = 1
INVARIANTS CallerOrder
PROPERTIES LifetimeSpec NothingHangs
