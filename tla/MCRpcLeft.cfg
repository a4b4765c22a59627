CONSTANTS
  None = None
  Procs = {pid_core, pid_test}
  Callers = {pid_test}
  Called = {pid_core}
  Tries = 1
  SocketCap = 4
  MaxCalls = 2
SPECIFICATION FairSpec
PROPERTY AllRead
CHECK_DEADLOCK FALSE
