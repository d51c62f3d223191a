CONSTANTS
  alice = alice
  Senders = {alice}
  Txs <- MCTxs
  EmptyCreations <- MCEmptyCreations
  BaseFee = 1
  GasLimits = {1, 2}
  Balances = {1, 2}
  MaxNonce = 3
  MaxOrderId = 4
  MaxPoolSnapshots = 1
SPECIFICATION TxPoolSpec
CONSTRAINT PoolBounded
INVARIANT PendingExecutable
