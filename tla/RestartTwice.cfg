SPECIFICATION Spec
CONSTANTS
  n1 = n1
  n2 = n2
  p1 = p1
  p2 = p2
  p3 = p3
  f1 = f1
  f2 = f2
  f3 = f3
  Configs <- TwoConfigs
  BlankCmd = "  "
  Pids = {p1, p2}
  NoPid = NoPid
  Fds = {f1, f2}
  NoFd = NoFd
  NoConfig = NoConfig
  MaxAge = 1
  MaxRestarts = 2
  Names = {n1}
  NoProgram = NoProgram
  Free = Free
  ExitCodes = {0}
  BySignal = BySignal
  Faults = {}
  Files <- OneNameTwoFiles
  Commands = {"restart"}
  Signals = {}
  MaxLines = 1
  MaxStrays = 0
  ShutdownLimit = 2
  PatientOperator = FALSE
INVARIANT OneProcessPerProgram
