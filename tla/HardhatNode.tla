----------------------------- MODULE HardhatNode -----------------------------
(***************************************************************************)
(* The local node the contract is developed on: a chain, the transaction   *)
(* pool it is mined from, snapshots of both, and a clock that can be moved *)
(* forward and back. A request is served to its end before the next one    *)
(* (module HardhatProvider); the ones that mine take several steps here.   *)
(***************************************************************************)
EXTENDS TxPool, Sequences

CONSTANTS
  MinTxFee,        \* the gas of the cheapest transaction
  TicksPerSecond,  \* the resolution of the clock; timestamps are in seconds
  FirstTick,       \* the clock when the node is created
  MaxNow,          \* bound on the clock
  Increments,      \* the seconds evm_increaseTime may add, or take off
  Jumps            \* how far after the latest block a timestamp may be asked for

ASSUME NodeAssumption ==
  /\ TicksPerSecond \in Nat \ {0}
  /\ MinTxFee \in Nat \ {0} /\ MinTxFee <= BaseFee
  /\ FirstTick \in Nat
  /\ Increments \subseteq Int
  /\ Jumps \subseteq Nat \ {0}
  /\ \A balance \in Balances : 0 .. balance \subseteq Balances

VARIABLES
  chain,              \* the blocks, with the state each one leads to
  now,                \* the clock of the machine, in ticks
  offset,             \* _blockTimeOffsetSeconds
  nextBlockTimestamp, \* _nextBlockTimestamp, 0 when it is not set
  putBack,            \* history: the seconds taken off since the latest block
  snapshots,          \* _snapshots
  nextSnapshotId,     \* _nextSnapshotId
  automine,           \* _automine
  building,           \* the block being built, or NoBlock
  request,            \* the request being served
  answer              \* what the last one came to

clockVars == <<offset, nextBlockTimestamp, putBack>>
snapshotVars == <<snapshots, nextSnapshotId>>
nodeVars == <<poolVars, chain, now, clockVars, snapshotVars, automine, building, request, answer>>

NoBlock == [gasUsed |-> 0]
Idle == [op |-> "none"]
Busy == request # Idle

LatestBlock == chain[Len(chain)]
CurrentTimestamp == (now + TicksPerSecond - 1) \div TicksPerSecond
CeilSeconds(ticks) == (ticks + TicksPerSecond - 1) \div TicksPerSecond
HasPendingTransactions == \E s \in Senders : pool.pending[s] # {}
HasQueuedTransactions == \E s \in Senders : pool.queued[s] # {}
Included(tx) == \E i \in DOMAIN chain : \E j \in DOMAIN chain[i].txs : chain[i].txs[j] = tx
------------------------------------------------------------------------------
(* Snapshots                                                                *)
TakeSnapshot ==
  /\ SnapshotPool
  /\ snapshots' = Append(snapshots,
       [id |-> nextSnapshotId, date |-> now, latestBlock |-> LatestBlock, height |-> Len(chain),
        stateRoot |-> accounts, txPoolSnapshotId |-> nextPoolSnapshotId,
        offset |-> offset, nextBlockTimestamp |-> nextBlockTimestamp, putBack |-> putBack])
  /\ nextSnapshotId' = nextSnapshotId + 1

(* Mutant: the seconds since are rounded to the greater number. *)
OffsetFloorBackTo(snapshot) == snapshot.offset + ((snapshot.date - now) \div TicksPerSecond)

(* The clock the node shows goes back to what it showed at the snapshot,    *)
(* never further: the seconds since are rounded towards zero.               *)
OffsetBackTo(snapshot) == snapshot.offset + CeilSeconds(snapshot.date - now)

(* Mutant: only the later ones are removed. *)
SnapshotsUpTo(i) == SubSeq(snapshots, 1, i)

SnapshotsBefore(i) == SubSeq(snapshots, 1, i - 1)

(* Snapshots are used once: this one and all later ones go.                 *)
RevertToSnapshot(i) ==
  LET snapshot == snapshots[i]
  IN  /\ chain' = SubSeq(chain, 1, snapshot.height)
      /\ RevertPool(snapshot.txPoolSnapshotId)
      /\ offset' = OffsetBackTo(snapshot)
      /\ nextBlockTimestamp' = snapshot.nextBlockTimestamp
      /\ putBack' = snapshot.putBack
      /\ snapshots' = SnapshotsBefore(i)
      /\ UNCHANGED nextSnapshotId

SnapshotIndex(id) == CHOOSE i \in DOMAIN snapshots : snapshots[i].id = id

RemoveSnapshot(id) ==
  /\ snapshots' = SnapshotsBefore(SnapshotIndex(id))
  /\ UNCHANGED nextSnapshotId
------------------------------------------------------------------------------
(* Mining a block                                                           *)

(* The timestamp of the next block, and what becomes of the offset when it  *)
(* was asked for.                                                           *)
TimestampAndOffset(asked) ==
  LET wanted == IF asked # 0 THEN asked ELSE nextBlockTimestamp
  IN  IF wanted = 0
        THEN [timestamp |-> CurrentTimestamp + offset, newOffset |-> offset]
        ELSE [timestamp |-> wanted, newOffset |-> wanted - CurrentTimestamp]

NewBlock(timestamp, newOffset) ==
  [timestamp |-> timestamp, newOffset |-> newOffset,
   gasUsed |-> 0, txs |-> <<>>, heap |-> pool.pending, accounts |-> accounts]

(* Mutant: a block may have the timestamp of the one before it. *)
StartBlockAtSameTime(asked) ==
  building' = NewBlock(TimestampAndOffset(asked).timestamp, TimestampAndOffset(asked).newOffset)

(* A timestamp equal to that of the block before is put off by a second.    *)
StartBlock(asked) ==
  LET time == TimestampAndOffset(asked)
      late == IF time.timestamp = LatestBlock.timestamp THEN 1 ELSE 0
      free == asked = 0 /\ nextBlockTimestamp = 0
  IN  building' = NewBlock(time.timestamp + late, time.newOffset + IF free THEN late ELSE 0)

GasLeft == pool.blockGasLimit - building.gasUsed

(* TxPriorityHeap: of the next transactions of all senders, the one with    *)
(* the highest gas price, and among those the first that came.              *)
HeapTops ==
  {otx \in UNION {building.heap[s] : s \in Senders} :
     \A other \in building.heap[otx.data.from] : otx.data.nonce <= other.data.nonce}

Before(x, y) ==
  \/ x.data.gasPrice > y.data.gasPrice
  \/ x.data.gasPrice = y.data.gasPrice /\ x.orderId <= y.orderId

IsBest(otx) == otx \in HeapTops /\ \A other \in HeapTops : Before(otx, other)

BlockIsFull == GasLeft < MinTxFee \/ HeapTops = {}

(* What the EVM does with a transaction that it accepts: the sender pays.   *)
Accepts(accts, tx) == accts[tx.from].nonce = tx.nonce /\ UpfrontCost(tx) <= accts[tx.from].balance
GasUsed(tx) == MinTxFee
Executed(accts, tx) ==
  [accts EXCEPT ![tx.from] = [nonce |-> @.nonce + 1,
                              balance |-> @.balance - GasUsed(tx) * tx.gasPrice - tx.value]]

(* Mutant: the sender stays at the top of the heap. *)
SkipSenderWithoutPop ==
  /\ building # NoBlock /\ ~BlockIsFull
  /\ \E otx \in HeapTops : IsBest(otx) /\ otx.data.gasLimit > GasLeft
  /\ UNCHANGED nodeVars

(* Too big for what is left: the sender waits for another block.            *)
SkipSender ==
  /\ building # NoBlock /\ ~BlockIsFull
  /\ \E otx \in HeapTops :
       /\ IsBest(otx) /\ otx.data.gasLimit > GasLeft
       /\ building' = [building EXCEPT !.heap[otx.data.from] = {}]
  /\ UNCHANGED <<poolVars, chain, now, clockVars, snapshotVars, automine, request, answer>>

ExecuteTransaction ==
  /\ building # NoBlock /\ ~BlockIsFull
  /\ \E otx \in HeapTops :
       /\ IsBest(otx) /\ otx.data.gasLimit <= GasLeft /\ Accepts(building.accounts, otx.data)
       /\ building' = [building EXCEPT
                         !.heap[otx.data.from] = @ \ {otx},
                         !.txs = Append(@, otx.data),
                         !.gasUsed = @ + GasUsed(otx.data),
                         !.accounts = Executed(@, otx.data)]
  /\ UNCHANGED <<poolVars, chain, now, clockVars, snapshotVars, automine, request, answer>>

(* Mutant: only a question goes back, not a send that mined several blocks. *)
UndoQueryOnly(reason) ==
  /\ building' = NoBlock
  /\ request' = Idle
  /\ answer' = reason
  /\ IF request.op \in {"query", "answer query"}
       THEN RevertToSnapshot(SnapshotIndex(request.snapshotId))
       ELSE UNCHANGED <<poolVars, chain, clockVars, snapshotVars>>
  /\ UNCHANGED <<now, automine>>

(* mineBlock throws when a transaction is not accepted; a request that took *)
(* a snapshot goes back to it, and the others leave the chain as it was.    *)
Undo(reason) ==
  /\ building' = NoBlock
  /\ request' = Idle
  /\ answer' = reason
  /\ IF "snapshotId" \in DOMAIN request
       THEN RevertToSnapshot(SnapshotIndex(request.snapshotId))
       ELSE UNCHANGED <<poolVars, chain, clockVars, snapshotVars>>
  /\ UNCHANGED <<now, automine>>

FailBlock ==
  /\ building # NoBlock /\ ~BlockIsFull
  /\ \E otx \in HeapTops :
       IsBest(otx) /\ otx.data.gasLimit <= GasLeft /\ ~Accepts(building.accounts, otx.data)
  /\ Undo("mining failed")

(* Mutant: the request is done once its own transaction is mined. *)
DoneWhenIncluded ==
  CASE request.op \in {"mine", "send"} -> Idle
    [] request.op = "query" -> [request EXCEPT !.op = "answer query"]
    [] request.op = "include" /\ request.tx \in {building.txs[i] : i \in DOMAIN building.txs} -> Idle
    [] OTHER -> request

(* What the request does once its block is mined.                           *)
AfterBlock ==
  CASE request.op \in {"mine", "send"} -> Idle
    [] request.op = "query" -> [request EXCEPT !.op = "answer query"]
    [] request.op = "include" /\ request.tx \in {building.txs[i] : i \in DOMAIN building.txs} ->
         [request EXCEPT !.op = "drain"]
    [] OTHER -> request

(* Mutant: the pool is updated before the new state is in place. *)
PoolBeforeBlock == UpdatePendingAndQueued(pool, accounts)

PoolAfterBlock == UpdatePendingAndQueued(pool, building.accounts)

FinishBlock ==
  /\ building # NoBlock /\ BlockIsFull
  /\ chain' = Append(chain, [timestamp |-> building.timestamp, txs |-> building.txs,
                             stateRoot |-> building.accounts])
  /\ accounts' = building.accounts
  /\ pool' = PoolAfterBlock
  /\ offset' = building.newOffset
  /\ nextBlockTimestamp' = 0
  /\ putBack' = 0
  /\ building' = NoBlock
  /\ request' = AfterBlock
  /\ answer' = IF request' = Idle THEN "done" ELSE answer
  /\ UNCHANGED <<poolSnapshots, nextPoolSnapshotId, nextOrderId, now, snapshotVars, automine>>
------------------------------------------------------------------------------
(* Requests                                                                 *)

(* What is there when a request takes its snapshot, and the time it shows.  *)
NodeState ==
  [chain |-> chain, pool |-> pool, accounts |-> accounts, snapshots |-> snapshots,
   nextBlockTimestamp |-> nextBlockTimestamp, time |-> CurrentTimestamp + offset]

(* sendTransaction without automining: into the pool.                       *)
SendToPool(tx) ==
  /\ ~Busy /\ ~automine
  /\ AddTransaction(tx)
  /\ answer' = "done"
  /\ UNCHANGED <<chain, now, clockVars, snapshotVars, automine, building, request>>

(* With automining and nothing in the pool: mined in a block of its own.    *)
SendAndMine(tx) ==
  /\ ~Busy /\ automine
  /\ tx.nonce = ExecutableNonce(tx.from)
  /\ ~HasPendingTransactions /\ ~HasQueuedTransactions
  /\ AddTransaction(tx)
  /\ request' = [op |-> "send"]
  /\ UNCHANGED <<chain, now, clockVars, snapshotVars, automine, building, answer>>

(* With automining and others in the pool: blocks are mined until this one  *)
(* is in, and on until none is pending; if any fails all of it is undone.   *)
(* The snapshot comes first, then the transaction.                          *)
SendAndMinePending(tx) ==
  /\ ~Busy /\ automine
  /\ tx.nonce = ExecutableNonce(tx.from)
  /\ HasPendingTransactions \/ HasQueuedTransactions
  /\ IsValid(tx)
  /\ TakeSnapshot
  /\ request' = [op |-> "add", tx |-> tx, snapshotId |-> nextSnapshotId, before |-> NodeState]
  /\ UNCHANGED <<chain, now, clockVars, automine, building, answer>>

AddWithPending ==
  /\ request.op = "add"
  /\ AddTransaction(request.tx)
  /\ request' = [request EXCEPT !.op = "include"]
  /\ UNCHANGED <<chain, now, clockVars, snapshotVars, automine, building, answer>>

MineForRequest ==
  /\ building = NoBlock
  /\ \/ request.op = "mine" /\ StartBlock(request.timestamp)
     \/ request.op \in {"send", "query"} /\ StartBlock(0)
     \/ request.op \in {"include", "drain"} /\ HasPendingTransactions /\ StartBlock(0)
  /\ UNCHANGED <<poolVars, chain, now, clockVars, snapshotVars, automine, request, answer>>

NothingToMine ==
  /\ building = NoBlock
  /\ request.op = "include" /\ ~HasPendingTransactions
  /\ Undo("failed for unknown reason, this should never happen")

FinishSending ==
  /\ building = NoBlock
  /\ request.op = "drain" /\ ~HasPendingTransactions
  /\ RemoveSnapshot(request.snapshotId)
  /\ request' = Idle
  /\ answer' = "done"
  /\ UNCHANGED <<poolVars, chain, now, clockVars, automine, building>>

(* evm_mine, hardhat_intervalMine                                           *)
Mine(timestamp) ==
  /\ ~Busy
  /\ timestamp # 0 => timestamp > LatestBlock.timestamp
  /\ request' = [op |-> "mine", timestamp |-> timestamp]
  /\ UNCHANGED <<poolVars, chain, now, clockVars, snapshotVars, automine, building, answer>>

(* A question about the "pending" block: it is mined, looked at and undone. *)
QueryPending ==
  /\ ~Busy
  /\ TakeSnapshot
  /\ request' = [op |-> "query", snapshotId |-> nextSnapshotId, before |-> NodeState]
  /\ UNCHANGED <<chain, now, clockVars, automine, building, answer>>

AnswerQuery == request.op = "answer query" /\ Undo("done")

EvmSnapshot ==
  /\ ~Busy
  /\ TakeSnapshot
  /\ UNCHANGED <<chain, now, clockVars, automine, building, request, answer>>

EvmRevert(id) ==
  /\ ~Busy
  /\ \E i \in DOMAIN snapshots : snapshots[i].id = id
  /\ RevertToSnapshot(SnapshotIndex(id))
  /\ UNCHANGED <<now, automine, building, request, answer>>

SetAutomine(enabled) ==
  /\ ~Busy
  /\ automine' = enabled
  /\ UNCHANGED <<poolVars, chain, now, clockVars, snapshotVars, building, request, answer>>

SetNextBlockTimestamp(timestamp) ==
  /\ ~Busy
  /\ timestamp > LatestBlock.timestamp
  /\ nextBlockTimestamp' = timestamp
  /\ UNCHANGED <<poolVars, chain, now, offset, putBack, snapshotVars, automine, building, request, answer>>

(* Any number of seconds, negative ones too. Times before 1970 are left     *)
(* out: a bound, TimeBound.                                                 *)
TimeBound(increment) == CurrentTimestamp + offset + increment >= 0

IncreaseTime(increment) ==
  /\ ~Busy
  /\ TimeBound(increment)
  /\ offset' = offset + increment
  /\ putBack' = putBack + IF increment < 0 THEN -increment ELSE 0
  /\ UNCHANGED <<poolVars, chain, now, nextBlockTimestamp, snapshotVars, automine, building, request, answer>>

EvmSetBlockGasLimit(limit) ==
  /\ ~Busy
  /\ limit > 0
  /\ SetBlockGasLimit(limit)
  /\ UNCHANGED <<chain, now, clockVars, snapshotVars, automine, building, request, answer>>

Tick ==
  /\ now < MaxNow
  /\ now' = now + 1
  /\ UNCHANGED <<poolVars, chain, clockVars, snapshotVars, automine, building, request, answer>>
------------------------------------------------------------------------------
NodeInit ==
  /\ TxPoolInit
  /\ now = FirstTick
  /\ chain = << [timestamp |-> CurrentTimestamp, txs |-> <<>>, stateRoot |-> accounts] >>
  /\ offset = 0
  /\ nextBlockTimestamp = 0
  /\ putBack = 0
  /\ snapshots = <<>>
  /\ nextSnapshotId = 1
  /\ automine \in BOOLEAN
  /\ building = NoBlock
  /\ request = Idle
  /\ answer = "none"

(* The steps of the request that is being served.                           *)
ServeRequest ==
  \/ AddWithPending \/ MineForRequest \/ NothingToMine \/ FinishSending \/ AnswerQuery
  \/ SkipSender \/ ExecuteTransaction \/ FailBlock \/ FinishBlock

AcceptRequest ==
  \/ \E tx \in Txs : SendToPool(tx) \/ SendAndMine(tx) \/ SendAndMinePending(tx)
  \/ \E jump \in Jumps : \/ Mine(LatestBlock.timestamp + jump)
                         \/ SetNextBlockTimestamp(LatestBlock.timestamp + jump)
  \/ Mine(0)
  \/ QueryPending
  \/ EvmSnapshot
  \/ \E id \in 1 .. nextSnapshotId - 1 : EvmRevert(id)
  \/ \E enabled \in BOOLEAN : SetAutomine(enabled)
  \/ \E increment \in Increments : IncreaseTime(increment)
  \/ \E limit \in GasLimits : EvmSetBlockGasLimit(limit)

NodeNext == ServeRequest \/ AcceptRequest \/ Tick

NodeSpec == NodeInit /\ [][NodeNext]_nodeVars

(* Serving a request goes on by itself.                                     *)
FairNodeSpec == NodeSpec /\ WF_nodeVars(ServeRequest)
------------------------------------------------------------------------------
(* Whatever is mined, reverted and mined again, with timestamps asked for   *)
(* or not, a new block is later than the one before it, or older by no more *)
(* than evm_increaseTime took off the clock since that one, although only   *)
(* an equal timestamp is put off. Going back to a snapshot takes off        *)
(* nothing.                                                                 *)
TimestampsIncrease ==
  [][Len(chain') > Len(chain) =>
       LET older == LatestBlock.timestamp - LatestBlock'.timestamp
       IN  older # 0 /\ older <= putBack]_nodeVars

(* The state the node answers from is that of the latest block.             *)
StateOfLatestBlock == accounts = LatestBlock.stateRoot

(* Every snapshot that is left can be gone back to: its block is in the     *)
(* chain, its state is the one of that block, and the pool has its own.     *)
SnapshotsUsable ==
  \A i \in DOMAIN snapshots :
    LET snapshot == snapshots[i]
    IN  /\ snapshot.height <= Len(chain)
        /\ chain[snapshot.height] = snapshot.latestBlock
        /\ snapshot.latestBlock.stateRoot = snapshot.stateRoot
        /\ snapshot.txPoolSnapshotId \in DOMAIN poolSnapshots
        /\ poolSnapshots[snapshot.txPoolSnapshotId].accounts = snapshot.stateRoot

(* The transactions of a sender are in the chain each once and in the order *)
(* of their nonces, as many as the account says; none of them is pending.   *)
NoncesUsedInOrder ==
  \A s \in Senders :
    LET Count(i) == Cardinality({j \in DOMAIN chain[i].txs : chain[i].txs[j].from = s})
    IN  /\ {tx.nonce : tx \in {t \in Txs : t.from = s /\ Included(t)}} = 0 .. accounts[s].nonce - 1
        /\ \A i \in 2 .. Len(chain) :
             chain[i].stateRoot[s].nonce = chain[i - 1].stateRoot[s].nonce + Count(i)
        /\ \A otx \in pool.pending[s] : ~Included(otx.data)

(* Chain, state, pool, snapshots and the next timestamp are what they were  *)
(* when the request took its snapshot; the clock shows no less than then,   *)
(* and at most the second more that rounding can make of the time since.    *)
LeftAsBefore ==
  /\ <<chain, pool, accounts, snapshots, nextBlockTimestamp>>'
       = <<request.before.chain, request.before.pool, request.before.accounts,
           request.before.snapshots, request.before.nextBlockTimestamp>>
  /\ (CurrentTimestamp + offset)' - request.before.time \in {0, 1}

(* A question about the pending block, answered or failed, leaves           *)
(* everything as it was.                                                    *)
QueriesLeaveNoTrace ==
  [][request.op \in {"query", "answer query"} /\ request' = Idle => LeftAsBefore]_nodeVars

(* Sending with automining while others are in the pool either mines the    *)
(* transaction and all that were pending, or leaves everything as it was,   *)
(* however many blocks were mined before one failed.                        *)
SendIsAllOrNothing ==
  [][request.op \in {"add", "include", "drain"} /\ request' = Idle =>
       \/ /\ \E tx \in Txs : tx = request.tx /\ Included(tx)'
          /\ ~HasPendingTransactions'
          /\ snapshots' = request.before.snapshots
       \/ LeftAsBefore]_nodeVars

(* Every request is answered: mining until a transaction is in, and until   *)
(* none is pending, comes to an end.                                        *)
RequestsAnswered == Busy ~> ~Busy

(* The pool and the accounts of the node behave as the pool is specified.   *)
ImplementsTxPool == TxPoolSpec
==============================================================================
