CONSTANTS
  Rich = Rich
  Senders = {Rich}
  Txs <- MCTxs
  EmptyCreations = {}
  BaseFee = 1
  MinTxFee = 1
  GasLimits = {2}
  Balances = {0, 1, 2}
  MaxNonce = 1
  TicksPerSecond = 2
  FirstTick = 2
  MaxNow = 4
  Increments <- MCIncrements
  Jumps = {1}
  InProcess = InProcess
  Sockets = {socket}
  socket = socket
  FilterLifetime = 0
  RangeStarts <- MCRangeStarts
  RangeEnds <- MCRangeEnds
  MaxFilters = 1
  MaxBlocks = 2
  MaxOrderId = 1
  MaxSnapshotId = 3
  MaxOffset = 1
SPECIFICATION FilterSpec
CONSTRAINT FiltersBounded
VIEW FilterView
INVARIANTS
  SnapshotsUsable
  ChainTold
  TransactionsTold
PROPERTIES
  TimestampsIncrease
  QueriesLeaveNoTrace
  SendIsAllOrNothing
