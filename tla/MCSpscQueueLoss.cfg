CONSTANTS
  Producers = {p1}
  Capacity = 1
  MaxMsgs = 1
  Items = {i1, i2, i3}
  MaxPushes = 5
  Threads = {t1}
  Nodes = {n1}
  NodeCnt = 1
  Getters = {t1}
  Size = 2
  Header = 1
  Least = 1
  Requests = {1}
  Sizes = {1}
  Count = 1
  Threshold = 1
SPECIFICATION QueuesSpec
INVARIANT NothingLost
CHECK_DEADLOCK FALSE
