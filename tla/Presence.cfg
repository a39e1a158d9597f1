SPECIFICATION FairPresence
CONSTANTS
  c1 = c1
  c2 = c2
  c3 = c3
  Conns = {c1, c2, c3}
  Name <- MCName
  UsersChannels <- TwoChannels
  Subscribed <- MCSubscribed
  Watchers = {c1}
  MaxAsks = 1
  NoList = NoList
INVARIANTS ListsAccurate
PROPERTIES SeesItself Settles
