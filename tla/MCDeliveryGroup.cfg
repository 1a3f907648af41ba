CONSTANTS
  w1 = w1
  u1 = u1
  u2 = u2
  n1 = n1
  m1 = m1
  NoNode = NoNode
  NoTicket = NoTicket
  Procs = {w1}
  Users = {u1, u2}
  Nodes = {n1}
  Msgs = {m1}
  BatchesOf <- MCBatchesOf
  IsGroup <- MCIsGroup
  StaticNode = n1
  MaxRetryAttempts = 2
  RetryWorkers = 2
  RetryBatch = 2
  PushWorkers = 1
  MaxEvents = 2
SPECIFICATION FairSpec
INVARIANTS
  NobodyForgotten
  ReceiptAfterPushes
PROPERTIES
  DeliveriesEnd
CHECK_DEADLOCK FALSE
