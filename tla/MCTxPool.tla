------------------------------ MODULE MCTxPool ------------------------------
(***************************************************************************)
(* Small instances of the transaction pool.                                *)
(***************************************************************************)
EXTENDS TxPool

CONSTANTS
  MaxOrderId,      \* bound on the transactions ever added
  MaxPoolSnapshots \* bound on the snapshots ever taken

Tx(s, nonce, gasLimit, gasPrice, value) ==
  [from |-> s, nonce |-> nonce, gasLimit |-> gasLimit, gasPrice |-> gasPrice, value |-> value]

(* For each nonce a cheap and a dear transaction, the dear one with more    *)
(* gas; one lacks the gas every transaction needs.                          *)
MCTxs ==
  {Tx(s, nonce, gas, 1, 0) : s \in Senders, nonce \in 0 .. MaxNonce, gas \in 1 .. 2}
    \cup {Tx(s, 0, 0, 1, 0) : s \in Senders}

MCEmptyCreations == {tx \in MCTxs : tx.nonce = MaxNonce /\ tx.gasLimit = 2}

PoolBounded ==
  /\ nextOrderId <= MaxOrderId
  /\ nextPoolSnapshotId <= MaxPoolSnapshots

==============================================================================
