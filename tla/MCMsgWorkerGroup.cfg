CONSTANTS
  p1 = p1
  mg = mg
  ms = ms
  u1 = u1
  u2 = u2
  g = g
  tg = tg
  ts = ts
  NoProc = NoProc
  NoTask = NoTask
  Procs = {p1}
  Topics = {tg, ts}
  Msgs = {mg, ms}
  Accounts = {u1, u2, g}
  Partitions = {0, 1}
  WorkerCount = 1
  BatchSize = 2
  TopicOf <- MCTopicOf
  KindOf <- MCKindOf
  PartitionOf <- MCPartitionOf
  OwnersOf <- MCOwnersOf
  SenderOf <- MCSenderOf
  MembersOf <- MCMembersOf
  MentionsOf <- MCMentionsOf
  AgentEnabled = TRUE
  MaxRetries = 1
  QueueCap = 0
  CommitBatchSize = 1
  PoolCap = 1
  MaxLog = 1
  MaxCrashes = 1
  MaxMoves = 0
  MaxFaults = 2
SPECIFICATION FairSpec
PROPERTIES
  EveryRecordSettles
CHECK_DEADLOCK FALSE
