CONSTANTS
  Fds = {t1}
  Timed = {t1}
  Main = main
  Wakers = {w}
  Exits = TRUE
  MaxRuns = 2
  MaxEvents = 2
SPECIFICATION FairSpec
INVARIANTS RegistrationKept WorkNeedsEvent
PROPERTIES WakeWorks CallsReturn
CHECK_DEADLOCK FALSE
