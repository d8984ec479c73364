SPECIFICATION Spec
CONSTANTS
  n1 = n1
  n2 = n2
  p1 = p1
  p2 = p2
  p3 = p3
  f1 = f1
  f2 = f2
  f3 = f3
  Configs <- EagerConfigs
  BlankCmd = "  "
  Pids = {p1, p2, p3}
  NoPid = NoPid
  Fds = {f1, f2}
  NoFd = NoFd
  NoConfig = NoConfig
  MaxAge = 1
  MaxRestarts = 1
  Names = {n1}
  NoProgram = NoProgram
  Free = Free
  ExitCodes = {0}
  BySignal = BySignal
  Faults = {"launch", "pidfd"}
  Files <- OneNameEagerFiles
  Commands = {"start", "stop", "restart", "reload"}
  Signals = {"TERM"}
  MaxLines = 1
  MaxStrays = 1
  ShutdownLimit = 0
  PatientOperator = FALSE
INVARIANTS
  OwnsChild
  WatchesOwnChild
  StoppingIffAsked
PROPERTY
  KeepsItsConfig
SYMMETRY Interchangeable
