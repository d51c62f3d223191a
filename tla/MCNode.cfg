CONSTANTS
  Rich = Rich
  Poor = Poor
  Senders = {Rich, Poor}
  Txs <- MCTxs
  EmptyCreations = {}
  BaseFee = 1
  MinTxFee = 1
  GasLimits = {1, 2}
  Balances = {0, 1, 2}
  MaxNonce = 2
  TicksPerSecond = 1
  FirstTick = 0
  MaxNow = 1
  Increments = {}
  Jumps = {}
  MaxBlocks = 2
  MaxOrderId = 3
  MaxSnapshotId = 2
  MaxOffset = 4
SPECIFICATION FairNodeSpec
CONSTRAINT NodeBounded
INVARIANTS
  StateOfLatestBlock
  NoncesUsedInOrder
  PendingWithoutGaps
  QueuedWaitForOthers
  FoundByHashIsPooled
PROPERTIES
  SendIsAllOrNothing
  RequestsAnswered
  ImplementsTxPool
  NothingViableLost
