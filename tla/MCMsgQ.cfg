CONSTANTS
  Producers = {p1, p2}
  Capacity = 2
  MaxMsgs = 2
  Items = {i1, i2, i3}
  MaxPushes = 5
  Threads = {t1, t2}
  Nodes = {n1, n2, n3, n4}
  NodeCnt = 2
  Getters = {t1}
  Size = 7
  Header = 1
  Least = 1
  Requests = {1, 3}
  Sizes = {1, 2}
  Count = 1
  Threshold = 1
SPECIFICATION QueuesSpec
INVARIANTS RingConsistent NoSlotRace NoLostWakeup SpscKept NodesWhole NodesGoHome
PROPERTIES QueueSpec Served RemoteReturned Refusals
\* The producers have a bound, and the consumers then wait for more.
CHECK_DEADLOCK FALSE
