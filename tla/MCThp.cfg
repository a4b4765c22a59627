CONSTANTS
  Workers = {w1, w2}
  Submitters = {s1, s2}
  MaxTasks = 2
  MaxRuns = 2
  Timers = {t1, t2}
  Users = {u1}
  Timeout <- OneOrTwo
  Batch = 1
  Destroyed = {t2}
  MaxTime = 2
  MaxStarts = 2
  AllTasks = 3
  AllStarts = 2
SPECIFICATION EventsSpec
INVARIANTS PoolKept TimersKept
PROPERTIES TaskDone TimerFires
CHECK_DEADLOCK FALSE
