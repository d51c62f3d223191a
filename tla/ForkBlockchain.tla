---------------------------- MODULE ForkBlockchain ----------------------------
(***************************************************************************)
(* The blocks of a node that forks a remote chain. Blocks of the remote    *)
(* chain are fetched when they are asked for and kept with the local ones; *)
(* nothing of the remote chain after the fork block is let in.             *)
(***************************************************************************)
EXTENDS ForkStateManager

CONSTANTS
  Txs,
  RemoteTxs,  \* the transactions of each block of the remote chain
  Nothing     \* undefined or null

(* A transaction is mined once; and nothing is no number and no block.      *)
ASSUME RemoteAssumption ==
  /\ Nothing \notin Nat \cup [number : Nat, stateRoot : Nat, txs : SUBSET Txs]
  /\ RemoteTxs \in [DOMAIN RemoteAccounts -> SUBSET Txs]
  /\ \A m, n \in DOMAIN RemoteTxs : m # n => RemoteTxs[m] \cap RemoteTxs[n] = {}

VARIABLE data  \* BlockchainData, with _latestBlockNumber

RemoteBlock(number) == [number |-> number, stateRoot |-> RemoteRoot(number), txs |-> RemoteTxs[number]]
RemoteBlocks == {RemoteBlock(n) : n \in DOMAIN RemoteTxs}
RemoteBlockOf(tx) == {b \in RemoteBlocks : tx \in b.txs}
IsRemote(number) == number <= ForkBlockNumber
Difficulty == 1
None == [x \in {} |-> x]

NewBlockchain ==
  [latest |-> ForkBlockNumber, byNumber |-> None, byHash |-> {}, byTx |-> None,
   transactions |-> {}, receipts |-> None, totalDifficulty |-> None]

Without(f, keys) == [x \in DOMAIN f \ keys |-> f[x]]

(* A block is its own hash here: two blocks that agree on number, state     *)
(* root and transactions are never in the same chain.                       *)
WithBlock(d, block, td) ==
  [d EXCEPT !.byNumber = With(@, block.number, block),
            !.byHash = @ \cup {block},
            !.totalDifficulty = With(@, block, td),
            !.transactions = @ \cup block.txs,
            !.byTx = [tx \in DOMAIN @ \cup block.txs |-> IF tx \in block.txs THEN block ELSE @[tx]]]

(* removeBlock for each of these blocks.                                    *)
WithoutBlocks(d, blocks) ==
  LET txs == UNION {block.txs : block \in blocks}
  IN  [d EXCEPT !.byNumber = Without(@, {block.number : block \in blocks}),
                !.byHash = @ \ blocks,
                !.totalDifficulty = Without(@, blocks),
                !.transactions = @ \ txs,
                !.receipts = Without(@, txs),
                !.byTx = Without(@, txs)]

Receipt(tx, block) == [tx |-> tx, number |-> block.number]

(* Mutant: the receipts of a mined block are not kept. *)
WithoutReceipts(d, block) == d

WithReceipts(d, block) ==
  [d EXCEPT !.receipts =
     [tx \in DOMAIN @ \cup block.txs |-> IF tx \in block.txs THEN Receipt(tx, block) ELSE @[tx]]]
------------------------------------------------------------------------------
(* What the remote chain answers, as far as the fork block.                 *)

(* The total difficulty of a remote block comes with it.                    *)
ProcessRemoteBlock(d, block) ==
  IF IsRemote(block.number) THEN WithBlock(d, block, Difficulty * (block.number + 1)) ELSE d

FetchBlock(d, block) ==
  IF block \in d.byHash \/ block \notin RemoteBlocks THEN d ELSE ProcessRemoteBlock(d, block)

FetchBlockNumber(d, number) ==
  IF number > d.latest \/ number \in DOMAIN d.byNumber THEN d
  ELSE ProcessRemoteBlock(d, RemoteBlock(number))

BlockWithNumber(d, number) == IF number \in DOMAIN d.byNumber THEN d.byNumber[number] ELSE Nothing

LatestBlock(d) == BlockWithNumber(FetchBlockNumber(d, d.latest), d.latest)

(* Mutant: a transaction of any remote block is let in. *)
FetchAnyTransaction(d, tx) ==
  IF tx \in d.transactions \/ RemoteBlockOf(tx) = {} THEN d
  ELSE [d EXCEPT !.transactions = @ \cup {tx}]

FetchTransaction(d, tx) ==
  IF tx \in d.transactions \/ \A b \in RemoteBlockOf(tx) : ~IsRemote(b.number) THEN d
  ELSE [d EXCEPT !.transactions = @ \cup {tx}]

FetchBlockOf(d, tx) ==
  IF tx \in DOMAIN d.byTx \/ RemoteBlockOf(tx) = {} THEN d
  ELSE FetchBlock(FetchTransaction(d, tx), CHOOSE b \in RemoteBlockOf(tx) : TRUE)

FetchReceipt(d, tx) ==
  IF tx \in DOMAIN d.receipts \/ \A b \in RemoteBlockOf(tx) : ~IsRemote(b.number) THEN d
  ELSE LET block == CHOOSE b \in RemoteBlockOf(tx) : TRUE
       IN  [FetchTransaction(d, tx) EXCEPT
              !.receipts = With(@, tx, Receipt(tx, block))]
------------------------------------------------------------------------------
(* Blocks of this node                                                      *)
AddBlock(d, block) ==
  LET parent == FetchBlockNumber(d, block.number - 1)
  IN  WithBlock([parent EXCEPT !.latest = @ + 1], block,
        parent.totalDifficulty[parent.byNumber[block.number - 1]] + Difficulty)

(* deleteLaterBlocks: the blocks after this one.                            *)
DeleteLaterBlocks(d, block) ==
  [WithoutBlocks(d, {d.byNumber[n] : n \in {k \in DOMAIN d.byNumber : k > block.number}})
     EXCEPT !.latest = block.number]
------------------------------------------------------------------------------
(* Logs: each transaction logs once. The remote chain answers for its part. *)
LocalLogs(d, from, to) ==
  {d.receipts[tx] : tx \in {t \in DOMAIN d.receipts :
     \E n \in (from..to) \cap DOMAIN d.byNumber :
       t \in d.byNumber[n].txs /\ d.receipts[t].number \in from..to}}

RemoteLogs(from, to) ==
  UNION {{[tx |-> tx, number |-> n] : tx \in RemoteTxs[n]} : n \in (from..to) \cap DOMAIN RemoteTxs}

(* Mutant: the remote chain is asked about the whole range. *)
LogsOfRange(d, from, to) ==
  IF IsRemote(from) THEN RemoteLogs(from, to) \cup LocalLogs(d, ForkBlockNumber + 1, to)
  ELSE LocalLogs(d, from, to)

GetLogs(d, from, to) ==
  IF IsRemote(from)
    THEN RemoteLogs(from, IF IsRemote(to) THEN to ELSE ForkBlockNumber)
           \cup LocalLogs(d, ForkBlockNumber + 1, to)
    ELSE LocalLogs(d, from, to)
==============================================================================
