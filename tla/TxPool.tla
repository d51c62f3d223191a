------------------------------- MODULE TxPool -------------------------------
(***************************************************************************)
(* The transaction pool of Hardhat Network: for each sender, the pending   *)
(* transactions that can be mined one after the other, and those queued    *)
(* behind a nonce that is missing.                                         *)
(*                                                                         *)
(* A list of the pool only ever grows by a transaction with a higher nonce *)
(* than its last, or is sorted before it is used, so it is represented by  *)
(* the set of its elements. Requests are served one at a time (module      *)
(* HardhatProvider), so each operation is one step.                        *)
(***************************************************************************)
EXTENDS Integers, FiniteSets

CONSTANTS
  Senders,       \* the accounts that send transactions
  Txs,           \* the signed transactions; a hash stands for one of them
  EmptyCreations,\* those that create a contract and carry no data
  BaseFee,       \* the gas every transaction needs
  GasLimits,     \* the block gas limits that can be set
  Balances,      \* the balances an account can have
  MaxNonce       \* the greatest nonce of a transaction

ASSUME TxAssumption ==
  /\ MaxNonce \in Nat
  /\ BaseFee \in Nat
  /\ GasLimits \subseteq Nat
  /\ Balances \subseteq Nat
  /\ Txs \subseteq [from : Senders, nonce : 0 .. MaxNonce, gasLimit : Nat, gasPrice : Nat, value : Nat]

VARIABLES
  pool,          \* _state: pending, queued, transactions by hash, block gas limit
  poolSnapshots, \* _snapshotIdToState, with the accounts of that moment
  nextPoolSnapshotId, \* _nextSnapshotId
  nextOrderId,   \* _nextOrderId, the order of arrival; no snapshot restores it
  accounts       \* the nonces and balances that the state manager holds

poolVars == <<pool, poolSnapshots, nextPoolSnapshotId, nextOrderId, accounts>>

OrderedTransaction == [orderId : Nat, data : Txs]
PoolState == [pending : [Senders -> SUBSET OrderedTransaction],
              queued : [Senders -> SUBSET OrderedTransaction],
              byHash : SUBSET Txs,
              blockGasLimit : Nat]
Account == [nonce : 0 .. MaxNonce + 1, balance : Balances]

UpfrontCost(tx) == tx.gasLimit * tx.gasPrice + tx.value
Nonces(list) == {otx.data.nonce : otx \in list}
LastNonce(list) == CHOOSE n \in Nonces(list) : \A m \in Nonces(list) : m <= n

ExecutableNonce(s) ==
  IF pool.pending[s] = {} THEN accounts[s].nonce ELSE LastNonce(pool.pending[s]) + 1
------------------------------------------------------------------------------
KnownTransaction(tx) ==
  \E otx \in pool.pending[tx.from] \cup pool.queued[tx.from] : otx.data = tx

(* There is no replacement of transactions yet: a nonce is queued once.     *)
TxWithNonceExists(tx) == tx.nonce \in Nonces(pool.queued[tx.from])

IsValid(tx) ==
  /\ ~KnownTransaction(tx)
  /\ ~TxWithNonceExists(tx)
  /\ tx \notin EmptyCreations
  /\ UpfrontCost(tx) <= accounts[tx.from].balance
  /\ tx.nonce >= ExecutableNonce(tx.from)
  /\ BaseFee <= tx.gasLimit /\ tx.gasLimit <= pool.blockGasLimit

(* Mutant: only the next transaction moves. *)
MoveOnlyNext(pending, queued) == {otx \in queued : otx.data.nonce = LastNonce(pending) + 1}

(* Of the queued transactions, those that follow the pending ones without   *)
(* a gap; the first in the order of nonces that does not ends the move.     *)
MovableTransactions(pending, queued) ==
  LET executable == LastNonce(pending) + 1
  IN  {otx \in queued : {n \in Nonces(queued) : n <= otx.data.nonce} = executable .. otx.data.nonce}

AddPendingTransaction(tx) ==
  LET s == tx.from
      added == pool.pending[s] \cup {[orderId |-> nextOrderId, data |-> tx]}
      moved == MovableTransactions(added, pool.queued[s])
  IN  pool' = [pool EXCEPT !.pending[s] = added \cup moved,
                           !.queued[s] = @ \ moved,
                           !.byHash = @ \cup {tx}]

AddQueuedTransaction(tx) ==
  pool' = [pool EXCEPT !.queued[tx.from] = @ \cup {[orderId |-> nextOrderId, data |-> tx]},
                       !.byHash = @ \cup {tx}]

(* addTransaction; a transaction that is not valid changes nothing.         *)
AddTransaction(tx) ==
  /\ IsValid(tx)
  /\ \/ tx.nonce = ExecutableNonce(tx.from) /\ AddPendingTransaction(tx)
     \/ tx.nonce # ExecutableNonce(tx.from) /\ AddQueuedTransaction(tx)
  /\ nextOrderId' = nextOrderId + 1
  /\ UNCHANGED <<poolSnapshots, nextPoolSnapshotId, accounts>>

(* Mutant: a transaction that was mined is not dropped. *)
UnexecutableForFunds(tx, limit, accts) ==
  tx.gasLimit > limit \/ UpfrontCost(tx) > accts[tx.from].balance

Unexecutable(tx, limit, accts) ==
  \/ tx.gasLimit > limit
  \/ tx.nonce < accts[tx.from].nonce
  \/ UpfrontCost(tx) > accts[tx.from].balance

(* Mutant: what follows a dropped transaction stays pending. *)
RequeueNothing(p, s, accts) == {}

(* What follows a dropped transaction goes back to the queue, unless the    *)
(* dropped one was the next of its sender: then it stays pending.           *)
Requeued(p, s, accts) ==
  {otx \in p.pending[s] :
     \E dropped \in p.pending[s] :
       /\ Unexecutable(dropped.data, p.blockGasLimit, accts)
       /\ dropped.data.nonce > accts[s].nonce
       /\ dropped.data.nonce < otx.data.nonce}

Stay(p, s, accts) ==
  {otx \in p.pending[s] \ Requeued(p, s, accts) : ~Unexecutable(otx.data, p.blockGasLimit, accts)}

(* Mutant: what goes back to the queue is not added to it. *)
WaitOldOnly(p, s, accts) ==
  {otx \in p.queued[s] : ~Unexecutable(otx.data, p.blockGasLimit, accts)}

Wait(p, s, accts) ==
  {otx \in p.queued[s] \cup Requeued(p, s, accts) : ~Unexecutable(otx.data, p.blockGasLimit, accts)}

(* Mutant: only what leaves the queue is not found any more. *)
DeletedFromQueue(p, accts) ==
  {otx.data : otx \in UNION {p.queued[s] \ Wait(p, s, accts) : s \in Senders}}

(* _removeTx deletes the hash also of what only goes back to the queue.     *)
DeletedHashes(p, accts) ==
  {otx.data : otx \in UNION {(p.pending[s] \ Stay(p, s, accts)) \cup (p.queued[s] \ Wait(p, s, accts)) :
                               s \in Senders}}

UpdatePendingAndQueued(p, accts) ==
  [p EXCEPT !.pending = [s \in Senders |-> Stay(p, s, accts)],
            !.queued = [s \in Senders |-> Wait(p, s, accts)],
            !.byHash = @ \ DeletedHashes(p, accts)]

TxPoolInit ==
  /\ \E limit \in GasLimits :
       pool = [pending |-> [s \in Senders |-> {}], queued |-> [s \in Senders |-> {}],
               byHash |-> {}, blockGasLimit |-> limit]
  /\ poolSnapshots = <<>>
  /\ nextPoolSnapshotId = 0
  /\ nextOrderId = 0
  /\ accounts \in [Senders -> {a \in Account : a.nonce = 0}]

SetBlockGasLimit(limit) ==
  /\ pool' = UpdatePendingAndQueued([pool EXCEPT !.blockGasLimit = limit], accounts)
  /\ UNCHANGED <<poolSnapshots, nextPoolSnapshotId, nextOrderId, accounts>>

SnapshotPool ==
  /\ poolSnapshots' = [id \in DOMAIN poolSnapshots \cup {nextPoolSnapshotId} |->
                         IF id = nextPoolSnapshotId THEN [pool |-> pool, accounts |-> accounts]
                                                    ELSE poolSnapshots[id]]
  /\ nextPoolSnapshotId' = nextPoolSnapshotId + 1
  /\ UNCHANGED <<pool, nextOrderId, accounts>>

(* Mutant: the state root is not set back. *)
RevertPoolKeepAccounts(id) ==
  /\ id \in DOMAIN poolSnapshots
  /\ pool' = poolSnapshots[id].pool
  /\ poolSnapshots' = [i \in {j \in DOMAIN poolSnapshots : j < id} |-> poolSnapshots[i]]
  /\ UNCHANGED <<nextPoolSnapshotId, nextOrderId, accounts>>

RevertPool(id) ==
  /\ id \in DOMAIN poolSnapshots
  /\ pool' = poolSnapshots[id].pool
  /\ accounts' = poolSnapshots[id].accounts
  /\ poolSnapshots' = [i \in {j \in DOMAIN poolSnapshots : j < id} |-> poolSnapshots[i]]
  /\ UNCHANGED <<nextPoolSnapshotId, nextOrderId>>

(* A block was mined: it executed, in order, some of the transactions that  *)
(* were pending, and changed balances in any way.                           *)
BlockMined ==
  /\ \E accts \in [Senders -> Account] :
       /\ \A s \in Senders : accounts[s].nonce .. accts[s].nonce - 1 \subseteq Nonces(pool.pending[s])
       /\ \A s \in Senders : accounts[s].nonce <= accts[s].nonce
       /\ accounts' = accts
       /\ pool' = UpdatePendingAndQueued(pool, accts)
  /\ UNCHANGED <<poolSnapshots, nextPoolSnapshotId, nextOrderId>>

TxPoolNext ==
  \/ \E tx \in Txs : AddTransaction(tx)
  \/ \E limit \in GasLimits : SetBlockGasLimit(limit)
  \/ SnapshotPool
  \/ \E id \in DOMAIN poolSnapshots : RevertPool(id)
  \/ BlockMined

TxPoolSpec == TxPoolInit /\ [][TxPoolNext]_poolVars
------------------------------------------------------------------------------
TxPoolTypeOK ==
  /\ pool \in PoolState
  /\ nextPoolSnapshotId \in Nat
  /\ nextOrderId \in Nat
  /\ accounts \in [Senders -> Account]
  /\ DOMAIN poolSnapshots \subseteq 0 .. nextPoolSnapshotId - 1

(* Whatever was dropped, requeued or reverted, the pending transactions of  *)
(* a sender have consecutive nonces, each once: a block that starts with    *)
(* the first can go on to the last.                                         *)
PendingWithoutGaps ==
  \A s \in Senders :
    /\ \E first, next \in 0 .. MaxNonce + 1 : Nonces(pool.pending[s]) = first .. next - 1
    /\ \A x, y \in pool.pending[s] : x.data.nonce = y.data.nonce => x = y

(* A queued transaction waits for one with a lower nonce that is still to   *)
(* come. One with the very nonce that is executable would wait forever:     *)
(* the pool would neither move it nor take another with its nonce.          *)
QueuedWaitForOthers ==
  \A s \in Senders : \A otx \in pool.queued[s] : otx.data.nonce > ExecutableNonce(s)

(* A nonce is queued once, so sorting the queue by nonces is deterministic  *)
(* and the move to the pending list never stops at a duplicate.             *)
QueuedNoncesDiffer ==
  \A s \in Senders : \A x, y \in pool.queued[s] : x.data.nonce = y.data.nonce => x = y

(* Nothing is found by its hash that the pool does not hold. (The converse  *)
(* fails: what went back to the queue is not found, even once it is pending *)
(* again.)                                                                  *)
FoundByHashIsPooled == \A tx \in pool.byHash : KnownTransaction(tx)

(* No step but a revert takes a transaction away that could still be        *)
(* executed: its nonce is not used, its sender can pay, it fits in a block. *)
NothingViableLost ==
  [][\A s \in Senders : \A otx \in pool.pending[s] \cup pool.queued[s] :
       \/ otx \in (pool.pending[s] \cup pool.queued[s])'
       \/ Unexecutable(otx.data, pool'.blockGasLimit, accounts')
       \/ poolSnapshots' # poolSnapshots]_poolVars

(* What TxPriorityHeap says of the pending transactions it is given: all    *)
(* of a sender can be executed one by one, starting now.                    *)
PendingExecutable ==
  \A s \in Senders :
    pool.pending[s] # {} => accounts[s].nonce \in Nonces(pool.pending[s])
==============================================================================
