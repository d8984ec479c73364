SPECIFICATION FairSpec
CONSTANTS
  Loggers = {d1, d2}
  Entries <- SomeEntries
  Rejected = Rejected
  Absent = Absent
  Broken = Broken
  Missing = Missing
  MaxSize = 2
  LogFaults = {"open", "rename", "clean"}
  Documents <- SomeDocuments
  NoLoad = NoLoad
  Faults = {"fork", "socket", "listen"}
INVARIANTS
  TypeOK
  Reachable
  TakenWhole
  ServesWithLog
PROPERTIES
  StartsEnd
