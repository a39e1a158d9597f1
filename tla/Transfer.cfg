SPECIFICATION Spec
CONSTANTS
  a = a
  b = b
  Songs = {a, b}
  Files <- MCFiles
  NoSong = NoSong
  MaxSize = 2
  MaxWire = 4
  MaxAhead = 2
  MaxTrouble = 2
INVARIANTS WaitMeansAll LocalIsWhole
PROPERTIES DownloadEnds Follows
CHECK_DEADLOCK FALSE
