CONSTANTS
  Senders = {s1, s2}
  Ips = {i1, i2}
  Cells = {c1, c2}
  Workers = {w1, w2}
  None = None
  Queues = {1, 2}
  Shard <- TwoQueues
  Blocks = 2
  PoolSize = 2
  Kinds = {"icmp", "short"}
  Filters = {"icmp"}
  ZcapPackets = 3
  TftpLens = {2, 3}
  TftpPackets = 3
  PingPackets = 3
  QueueCap = 2
  PingRequests = 3
  PingWaits = 2
  PingTries = 2
  MaxSends = 2
  MaxReplies = 3
  MaxCalls = 1
  MaxEvents = 4
SPECIFICATION FairSpec
INVARIANTS AnalyzedInOrder SentOnce EntriesAge CountedOnce TransferInOrder HelloOnce
PROPERTIES Returned CallsReturn
CHECK_DEADLOCK FALSE
