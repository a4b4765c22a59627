CONSTANTS
  Nodes = {n1, n2, n3}
  Producers = {p1, p2}
  MaxPushes = 2
  MpmcPushes = 2
  Consumers = {c1, c2}
  None = None
  i1 = i1
  i2 = i2
  i3 = i3
  i4 = i4
  Clients = {pid_core, pid_test}
  Callers = {pid_test}
  Called = {pid_core}
  Tries = 1
  SocketCap = 2
  MaxCalls = 2
SYMMETRY QueueSymmetry
SPECIFICATION TypesSpec
INVARIANTS QueueKept MemorySafe  CommandMeant CalledInOrder
PROPERTY EmptyIsTrue
CHECK_DEADLOCK FALSE
