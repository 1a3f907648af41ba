CONSTANTS
  w1 = w1
  w2 = w2
  u1 = u1
  n1 = n1
  n2 = n2
  m1 = m1
  NoNode = NoNode
  NoTicket = NoTicket
  Procs = {w1, w2}
  Users = {u1}
  Nodes = {n1, n2}
  Msgs = {m1}
  BatchesOf <- MCBatchesOf
  IsGroup <- MCIsGroup
  StaticNode = n1
  MaxRetryAttempts = 2
  RetryWorkers = 2
  RetryBatch = 2
  PushWorkers = 1
  MaxEvents = 2
SPECIFICATION Spec
SYMMETRY MCSymmetry
INVARIANTS
  TypeOK
  ClaimedOnce
  NoDuplicatePush
  RetryBudget
  NobodyForgotten
CHECK_DEADLOCK FALSE
