------------------------------ MODULE ForkedNode ------------------------------
(***************************************************************************)
(* A node that forks a remote chain: the requests that mine, look back or  *)
(* run a call at some block, step by step, over the one state manager they *)
(* share. Each read may need the remote chain, and may fail.               *)
(***************************************************************************)
EXTENDS ForkBlockchain

CONSTANTS
  Written,                          \* bound: the accounts transactions write
  Balances, Codes, Values,          \* what transactions write
  MaxWrites,                        \* bound on the writes of a run
  MaxBlockNumber, MaxSnapshots, MaxRoots  \* bounds on the whole

VARIABLES
  snapshots,  \* the latest block and the state root of each
  request,    \* the request being served
  answer      \* the last answer given

vars == <<manager, data, snapshots, request, answer>>

Idle == [op |-> "none"]
Tell(about, of, value) == answer' = about :> <<of, value>>
MayAddRoots == Cardinality(DOMAIN manager.stateRootToState) < MaxRoots
LocalTxs == UNION {data.byNumber[n].txs : n \in DOMAIN data.byNumber}
PastTxs == LocalTxs \cup UNION {RemoteTxs[n] : n \in 0..ForkBlockNumber}

NodeInit ==
  /\ manager = NewStateManager
  /\ data = NewBlockchain
  /\ snapshots = <<>>
  /\ request = Idle
  /\ answer = Nothing
------------------------------------------------------------------------------
(* Snapshots                                                                *)
TakenSnapshot ==
  /\ data' = FetchBlockNumber(data, data.latest)
  /\ snapshots' = Append(snapshots,
       [latestBlock |-> LatestBlock(data), stateRoot |-> GetStateRoot(manager).stateRoot])

RevertedToSnapshot(i, m) ==
  /\ data' = DeleteLaterBlocks(data, snapshots[i].latestBlock)
  /\ manager' = SetStateRoot(m, snapshots[i].stateRoot)
  /\ snapshots' = SubSeq(snapshots, 1, i - 1)

TakeSnapshot ==
  /\ request = Idle /\ Len(snapshots) < MaxSnapshots
  /\ TakenSnapshot
  /\ manager' = GetStateRoot(manager)
  /\ answer' = Nothing
  /\ UNCHANGED request

RevertToSnapshot ==
  /\ request = Idle
  /\ \E i \in DOMAIN snapshots : RevertedToSnapshot(i, manager)
  /\ answer' = Nothing
  /\ UNCHANGED request
------------------------------------------------------------------------------
(* A run of the virtual machine, in the request that asked for it           *)
Running == request.op \in {"mine", "call"} /\ request.depth > 0

Write(m) ==
  /\ Running /\ request.writes < MaxWrites
  /\ manager' = m
  /\ request' = [request EXCEPT !.writes = @ + 1]
  /\ UNCHANGED <<data, snapshots, answer>>

PutAccountStep ==
  \E a \in Written, b \in Balances :
    Running /\ Write(PutAccount(manager, a, b, GetAccount(manager, a).code # NoCode))

PutContractCodeStep ==
  \E a \in Written, c \in Codes : Running /\ Write(PutContractCode(manager, a, c))

PutContractStorageStep ==
  \E a \in Written, k \in Slots, v \in Values : Running /\ Write(PutContractStorage(manager, a, k, v))

ClearContractStorageStep ==
  \E a \in Written : Running /\ Write(ClearContractStorage(manager, a))

(* A message within the transaction, and its end.                           *)
BeginMessage ==
  /\ Running /\ request.depth = 1 /\ request.writes < MaxWrites /\ MayAddRoots
  /\ manager' = Checkpoint(manager)
  /\ request' = [request EXCEPT !.depth = @ + 1]
  /\ UNCHANGED <<data, snapshots, answer>>

EndMessage ==
  /\ Running /\ request.depth = 2
  /\ manager' \in {Commit(manager), Revert(manager)}
  /\ request' = [request EXCEPT !.depth = @ - 1]
  /\ UNCHANGED <<data, snapshots, answer>>
------------------------------------------------------------------------------
(* Mining: the block is built on a checkpoint of its own, and so is each    *)
(* transaction. For a query of the pending block, snapshot is the one it    *)
(* takes.                                                                   *)
Mining(snapshot) ==
  [op |-> "mine", snapshot |-> snapshot, txs |-> {}, depth |-> 0, writes |-> 0]

BeginMine ==
  /\ request = Idle /\ data.latest < MaxBlockNumber /\ MayAddRoots
  /\ request' = Mining(Nothing)
  /\ data' = FetchBlockNumber(data, data.latest)
  /\ manager' = Checkpoint(manager)
  /\ answer' = Nothing
  /\ UNCHANGED snapshots

BeginPending ==
  /\ request = Idle /\ data.latest < MaxBlockNumber /\ Len(snapshots) < MaxSnapshots /\ MayAddRoots
  /\ TakenSnapshot
  /\ request' = Mining(Len(snapshots) + 1)
  /\ manager' = Checkpoint(manager)
  /\ answer' = Nothing

BeginTransaction ==
  /\ request.op = "mine" /\ request.depth = 0 /\ MayAddRoots
  /\ \E tx \in Txs \ (PastTxs \cup request.txs) :
       request' = [request EXCEPT !.txs = @ \cup {tx}, !.depth = 1, !.writes = 0]
  /\ manager' = Checkpoint(manager)
  /\ UNCHANGED <<data, snapshots, answer>>

EndTransaction ==
  /\ request.op = "mine" /\ request.depth = 1
  /\ manager' = Commit(manager)
  /\ request' = [request EXCEPT !.depth = 0]
  /\ UNCHANGED <<data, snapshots, answer>>

(* The state root of the block is taken before its checkpoint goes.         *)
BuildBlock ==
  /\ request.op = "mine" /\ request.depth = 0 /\ MayAddRoots
  /\ LET rooted == GetStateRoot(manager)
         block == [number |-> data.latest + 1, stateRoot |-> rooted.stateRoot, txs |-> request.txs]
     IN  /\ manager' = Commit(rooted)
         /\ data' = WithReceipts(AddBlock(data, block), block)
  /\ request' = IF request.snapshot = Nothing THEN Idle
                ELSE [op |-> "query", snapshot |-> request.snapshot, number |-> data'.latest,
                      stateRoot |-> Nothing]
  /\ UNCHANGED <<snapshots, answer>>

(* A read of the remote chain failed in a transaction: its checkpoint and   *)
(* that of the block are undone.                                            *)
FailMine ==
  /\ request.op = "mine" /\ request.depth \in {0, 1}
  /\ LET m == Revert(IF request.depth = 1 THEN Revert(manager) ELSE manager)
     IN  IF request.snapshot # Nothing THEN RevertedToSnapshot(request.snapshot, m)
         ELSE manager' = m /\ UNCHANGED <<data, snapshots>>
  /\ request' = Idle
  /\ UNCHANGED answer
------------------------------------------------------------------------------
(* Queries: in the context of a block, or as things are for the latest.     *)
BeginQuery ==
  /\ request = Idle
  /\ \E n \in 0..data.latest :
       LET fetched == FetchBlockNumber(data, n)
           rooted == GetStateRoot(manager)
       IN  IF n = data.latest
             THEN /\ request' = [op |-> "query", snapshot |-> Nothing, number |-> n, stateRoot |-> Nothing]
                  /\ UNCHANGED <<manager, data>>
             ELSE /\ request' = [op |-> "query", snapshot |-> Nothing, number |-> n,
                                 stateRoot |-> rooted.stateRoot]
                  /\ manager' = SetBlockContext(rooted, fetched.byNumber[n].stateRoot, n)
                  /\ data' = fetched
  /\ answer' = Nothing
  /\ UNCHANGED snapshots

(* Mutant: the number of the context is left as it was. *)
FinishKeepingContext(m) ==
  /\ request' = Idle
  /\ IF request.snapshot # Nothing THEN RevertedToSnapshot(request.snapshot, m)
     ELSE /\ manager' = IF request.stateRoot = Nothing THEN m ELSE SetStateRoot(m, request.stateRoot)
          /\ UNCHANGED <<data, snapshots>>

(* Mutant: the block of a query of the pending block is left.               *)
FinishKeepingBlock(m) ==
  /\ request' = Idle
  /\ manager' = IF request.stateRoot = Nothing THEN m ELSE RestoreForkBlockContext(m, request.stateRoot)
  /\ snapshots' = IF request.snapshot = Nothing THEN snapshots
                  ELSE SubSeq(snapshots, 1, request.snapshot - 1)
  /\ UNCHANGED data

(* The finally blocks of _runInBlockContext and _runInPendingBlockContext.  *)
FinishQuery(m) ==
  /\ request' = Idle
  /\ IF request.snapshot # Nothing THEN RevertedToSnapshot(request.snapshot, m)
     ELSE /\ manager' = IF request.stateRoot = Nothing THEN m
                        ELSE RestoreForkBlockContext(m, request.stateRoot)
          /\ UNCHANGED <<data, snapshots>>

ReadAccount ==
  /\ request.op = "query"
  /\ \E a \in Accounts :
       IF request.snapshot # Nothing THEN answer' = Nothing
       ELSE Tell("account", <<request.number, a>>, GetAccount(manager, a))
  /\ FinishQuery(manager)

FailRead == request.op = "query" /\ FinishQuery(manager) /\ UNCHANGED answer

(* _runTxAndRevertMutations                                                 *)
BeginCall ==
  /\ request.op = "query" /\ MayAddRoots
  /\ LET rooted == GetStateRoot(manager)
     IN  /\ manager' = Checkpoint(rooted)
         /\ request' = [op |-> "call", snapshot |-> request.snapshot, number |-> request.number,
                        stateRoot |-> request.stateRoot, before |-> rooted.stateRoot,
                        depth |-> 1, writes |-> 0]
  /\ UNCHANGED <<data, snapshots, answer>>

EndCall ==
  /\ request.op = "call" /\ request.depth = 1
  /\ \E m \in {Commit(manager), Revert(manager)} : FinishQuery(SetStateRoot(m, request.before))
  /\ UNCHANGED answer
------------------------------------------------------------------------------
(* Questions about blocks and transactions                                  *)
Ask(fetched) ==
  /\ request = Idle
  /\ data' = fetched
  /\ UNCHANGED <<manager, snapshots, request>>

AskBlock ==
  \E n \in 0..MaxBlockNumber :
    LET fetched == FetchBlockNumber(data, n)
        block == BlockWithNumber(fetched, n)
    IN  Ask(fetched) /\ Tell("block", n, IF block = Nothing THEN Nothing ELSE block.txs)

AskBlockByHash == \E b \in RemoteBlocks : Ask(FetchBlock(data, b)) /\ answer' = Nothing

AskTransaction == \E tx \in Txs : Ask(FetchTransaction(data, tx)) /\ answer' = Nothing

AskBlockOf ==
  \E tx \in Txs :
    LET fetched == FetchBlockOf(data, tx)
    IN  Ask(fetched) /\ Tell("transaction", tx,
          IF tx \in DOMAIN fetched.byTx THEN fetched.byTx[tx].number ELSE Nothing)

AskReceipt ==
  \E tx \in Txs :
    LET fetched == FetchReceipt(data, tx)
    IN  Ask(fetched) /\ Tell("transaction", tx,
          IF tx \in DOMAIN fetched.receipts THEN fetched.receipts[tx].number ELSE Nothing)
------------------------------------------------------------------------------
(* What the node should be taken for: the blocks of the remote chain as far *)
(* as the fork, the accounts it was configured with, and its own blocks. A  *)
(* pending block is not seen, nor the snapshot taken for it.                *)
Pending == request # Idle /\ request.snapshot # Nothing

VisibleBlock ==
  IF Pending THEN snapshots[request.snapshot].latestBlock.number ELSE data.latest

VisibleSnapshots == IF Pending THEN request.snapshot - 1 ELSE Len(snapshots)

MiningAsked == request.op = "mine" /\ request.snapshot = Nothing

BlockOfHistory(n) ==
  CASE n < ForkBlockNumber -> [txs |-> RemoteTxs[n], accounts |-> RemoteAccounts[n]]
    [] n = ForkBlockNumber -> [txs |-> RemoteTxs[n], accounts |-> Resolved(GenesisState, n)]
    [] OTHER -> [txs |-> data.byNumber[n].txs,
                 accounts |-> Resolved(manager.stateRootToState[data.byNumber[n].stateRoot],
                                       ForkBlockNumber)]

H == INSTANCE History WITH
  blocks <- [i \in 1..(VisibleBlock + 1) |-> BlockOfHistory(i - 1)],
  snapshots <- [i \in 1..VisibleSnapshots |-> snapshots[i].latestBlock.number + 1],
  mining <- MiningAsked,
  Numbers <- 0..MaxBlockNumber
------------------------------------------------------------------------------
Next ==
  \/ TakeSnapshot \/ RevertToSnapshot
  \/ PutAccountStep \/ PutContractCodeStep \/ PutContractStorageStep \/ ClearContractStorageStep
  \/ BeginMessage \/ EndMessage
  \/ BeginMine \/ BeginPending \/ BeginTransaction \/ EndTransaction \/ BuildBlock \/ FailMine
  \/ BeginQuery \/ ReadAccount \/ FailRead \/ BeginCall \/ EndCall
  \/ AskBlock \/ AskBlockByHash \/ AskTransaction \/ AskBlockOf \/ AskReceipt

Spec == NodeInit /\ [][Next]_vars
------------------------------------------------------------------------------
(* Every question about an account, a block or a transaction is answered    *)
(* from the history of the node: the remote chain as far as the fork, the   *)
(* accounts of the configuration, and the blocks mined here. A request to   *)
(* mine adds one block to it or none, a revert leaves what there was when   *)
(* the snapshot was taken; no query, of the pending block either, call,     *)
(* question or read that fails changes that history.                        *)
ImplementsHistory == H!HistorySpec

(* BlockchainData keeps six maps: they hold the same blocks, one for each   *)
(* number after the fork; every transaction of a block mined here has its   *)
(* receipt, and each receipt names the block of its transaction; nothing of *)
(* a block that was reverted or that came after the fork is left.           *)
IndexesAgree ==
  /\ data.byHash = {data.byNumber[n] : n \in DOMAIN data.byNumber}
  /\ data.byHash = DOMAIN data.totalDifficulty
  /\ (ForkBlockNumber + 1)..data.latest = {n \in DOMAIN data.byNumber : ~IsRemote(n)}
  /\ \A b \in data.byHash :
       /\ data.totalDifficulty[b] = Difficulty * (b.number + 1)
       /\ \A tx \in b.txs : tx \in data.transactions /\ data.byTx[tx] = b
  /\ \A tx \in DOMAIN data.byTx : data.byTx[tx] \in data.byHash /\ tx \in data.byTx[tx].txs
  /\ \A n \in (ForkBlockNumber + 1)..data.latest : data.byNumber[n].txs \subseteq DOMAIN data.receipts
  /\ \A tx \in DOMAIN data.receipts : \E n \in 0..data.latest :
       tx \in BlockOfHistory(n).txs /\ data.receipts[tx] = [tx |-> tx, number |-> n]
  /\ data.transactions \subseteq PastTxs

(* eth_getLogs over a range gives the logs of the transactions in its       *)
(* blocks, remote and local, no matter which of them were fetched before.   *)
AllLogsFound ==
  request = Idle =>
    \A from, to \in 0..data.latest :
      GetLogs(data, from, to) =
        UNION {{[tx |-> tx, number |-> n] : tx \in BlockOfHistory(n).txs} : n \in from..to}
==============================================================================
