CONSTANTS
  Threads = {t1, t2}
  Watched = {t1}
  Thresholds = {1}
  SwdgTime = 4
  LogRing = 4
  LogQueue = 2
  MaxEntries = 5
  Procs = {pid_rpc, pid_test}
  Unlinking = {pid_rpc}
  Beating = {pid_test}
  Late = 1
  Retries = 1
  MaxStart = 1
  BeatTime = 19
  None = None
SPECIFICATION ProcsSpec
INVARIANT ReadWriteExclusion
CHECK_DEADLOCK FALSE
