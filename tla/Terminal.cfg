SPECIFICATION Spec
CONSTANTS
  Sizes <- TwoSizes
  maxMessages = 2
  Queries = {"q"}
  Long <- EvenLong
  Hit <- HitOf
  Active <- SecondActive
  Cap = 1
  ListLen = 4
  MaxReceived = 3
  MaxResets = 1
  MaxKeys = 2
  MaxSizes = 2
INVARIANT NothingLost
PROPERTIES ShowsWhatIsAsked
CHECK_DEADLOCK FALSE
