------------------------------- MODULE MCNode -------------------------------
(***************************************************************************)
(* Small instances of the node.                                            *)
(***************************************************************************)
EXTENDS HardhatNode

CONSTANTS
  Rich, Poor,    \* two senders
  MaxBlocks,     \* bound on the length of the chain
  MaxOrderId,    \* bound on the transactions ever added
  MaxSnapshotId, \* bound on the snapshots ever taken
  MaxOffset      \* bound on how far the clock is moved

Tx(s, nonce, gasLimit, gasPrice, value) ==
  [from |-> s, nonce |-> nonce, gasLimit |-> gasLimit, gasPrice |-> gasPrice, value |-> value]

(* Three nonces of one sender; of the two transactions for the second one   *)
(* takes a whole block, is too big for the smaller limit, and can become    *)
(* too dear once the first is mined. One of a second sender that pays more. *)
MCTxs ==
  {Tx(Rich, 0, 1, 1, 0), Tx(Rich, 1, 1, 1, 0), Tx(Rich, 1, 2, 1, 0),
   Tx(Rich, 2, 1, 1, 0), Tx(Poor, 0, 1, 2, 0)}

(* A request that was accepted is served to its end. The second sender      *)
(* starts with nothing or with enough. Snapshots are not followed while the *)
(* smaller limit holds, nor is the clock once it ticks (module MCFilters).  *)
NodeBounded ==
  /\ now = 0
  /\ chain[1].stateRoot[Poor].balance \in {0, 2}
  /\ \/ Busy
     \/ /\ Len(chain) <= MaxBlocks
        /\ nextOrderId <= MaxOrderId
        /\ nextSnapshotId <= MaxSnapshotId
        /\ offset <= MaxOffset
        /\ pool.blockGasLimit = 1 => snapshots = <<>>

==============================================================================
