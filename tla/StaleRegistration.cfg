SPECIFICATION Spec
CONSTANTS
  a = a
  b = b
  f = f
  g = g
  Numbers <- NineNumbers
  NoFd = NoFd
  NoFile = NoFile
  NoType = NoType
  Programs = {a, b}
  Paths = {f, g}
  NoPath = NoPath
  LogPath <- NoLogs
  Unwatchable = {}
  NoEvent = NoEvent
  MaxLaunches <- ATwice
  MaxWrites <- Silent
INVARIANT TypeTellsWhatFired
