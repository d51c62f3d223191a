------------------------------- MODULE History -------------------------------
(***************************************************************************)
(* What a node promises about the past: a list of blocks, each with the    *)
(* state it led to, and the snapshots that may be gone back to. A question *)
(* about a block is answered from that block and changes nothing; a        *)
(* request to mine adds one block at the end or none, and a revert to a    *)
(* snapshot leaves the blocks there were when it was taken. Nothing else   *)
(* changes the past.                                                       *)
(***************************************************************************)
EXTENDS Naturals, Sequences, TLC

CONSTANTS
  Accounts, Txs,
  Numbers,  \* the block numbers one may ask about
  Nothing   \* no block, no answer

VARIABLES
  blocks,     \* block number n is blocks[n + 1]: its transactions and its accounts
  snapshots,  \* for each snapshot, how many blocks there were
  mining,     \* whether a request to mine is being served
  answer      \* the last answer given

vars == <<blocks, snapshots, mining, answer>>

Latest == Len(blocks) - 1
Numbered(n) == blocks[n + 1]
Tell(about, of, value) == answer' = about :> <<of, value>>

BlockOf(tx) ==
  IF \E n \in 0..Latest : tx \in Numbered(n).txs
    THEN CHOOSE n \in 0..Latest : tx \in Numbered(n).txs
    ELSE Nothing

(* Nothing was asked, or the answer is the right one.                       *)
RightAnswer ==
  \/ answer' = Nothing
  \/ \E n \in 0..Latest, a \in Accounts : Tell("account", <<n, a>>, Numbered(n).accounts[a])
  \/ \E n \in Numbers : Tell("block", n, IF n <= Latest THEN Numbered(n).txs ELSE Nothing)
  \/ \E tx \in Txs : Tell("transaction", tx, BlockOf(tx))

Answer == ~mining /\ RightAnswer /\ UNCHANGED <<blocks, snapshots, mining>>

Extends(longer, shorter) ==
  /\ Len(longer) = Len(shorter) + 1
  /\ SubSeq(longer, 1, Len(shorter)) = shorter

BeginMining == ~mining /\ mining' /\ UNCHANGED <<blocks, snapshots>> /\ answer' = Nothing

AddBlock ==
  /\ mining /\ ~mining'
  /\ Extends(blocks', blocks)
  /\ UNCHANGED <<snapshots, answer>>

FailMining == mining /\ ~mining' /\ UNCHANGED <<blocks, snapshots, answer>>

TakeSnapshot ==
  /\ ~mining
  /\ snapshots' = Append(snapshots, Len(blocks))
  /\ answer' = Nothing
  /\ UNCHANGED <<blocks, mining>>

RevertBlocks ==
  /\ ~mining
  /\ \E i \in DOMAIN snapshots :
       /\ blocks' = SubSeq(blocks, 1, snapshots[i])
       /\ snapshots' = SubSeq(snapshots, 1, i - 1)
  /\ answer' = Nothing
  /\ UNCHANGED mining

HistoryInit == blocks # <<>> /\ snapshots = <<>> /\ ~mining /\ answer = Nothing
HistoryNext == Answer \/ BeginMining \/ AddBlock \/ FailMining \/ TakeSnapshot \/ RevertBlocks
HistorySpec == HistoryInit /\ [][HistoryNext]_vars
==============================================================================
