CONSTANTS
  Workers = {w1, w2}
  Submitters = {s1}
  MaxTasks = 1
  MaxRuns = 1
  Timers = {t1, t2}
  Users = {u1}
  Timeout <- OneOrTwo
  Batch = 1
  Destroyed = {t2}
  MaxTime = 2
  MaxStarts = 2
  AllTasks = 1
  AllStarts = 4
SPECIFICATION EventsSpec
INVARIANT ShutdownWakesAll
CHECK_DEADLOCK FALSE
