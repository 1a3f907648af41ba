CONSTANTS
  p1 = p1
  p2 = p2
  m1 = m1
  m2 = m2
  u1 = u1
  u2 = u2
  t1 = t1
  NoProc = NoProc
  NoTask = NoTask
  Procs = {p1, p2}
  Topics = {t1}
  Msgs = {m1, m2}
  Accounts = {u1, u2}
  Partitions = {0}
  WorkerCount = 1
  BatchSize = 2
  TopicOf <- MCTopicOf
  KindOf <- MCKindOf
  PartitionOf <- MCPartitionOf
  OwnersOf <- MCOwnersOf
  SenderOf <- MCSenderOf
  MembersOf <- MCMembersOf
  MentionsOf <- MCMentionsOf
  AgentEnabled = TRUE
  MaxRetries = 1
  QueueCap = 1
  CommitBatchSize = 2
  PoolCap = 1
  MaxLog = 2
  MaxCrashes = 1
  MaxMoves = 1
  MaxFaults = 1
SPECIFICATION Spec
SYMMETRY MCSymmetry
PROPERTIES
  TopicSeqMonotonic
CHECK_DEADLOCK FALSE
