SPECIFICATION FairSpec
CONSTANTS
  a = a
  b = b
  f = f
  g = g
  Numbers <- EightNumbers
  NoFd = NoFd
  NoFile = NoFile
  NoType = NoType
  Programs = {a, b}
  Paths = {f, g}
  NoPath = NoPath
  LogPath <- SharedLogs
  Unwatchable = {a}
  NoEvent = NoEvent
  MaxLaunches <- ATwice
  MaxWrites <- OneChunkEach
INVARIANTS
  TypeOK
  EachToItsFile
  NothingLost
  Owned
  AllWatched
PROPERTY OutputArrives
