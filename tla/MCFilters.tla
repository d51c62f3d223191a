------------------------------ MODULE MCFilters ------------------------------
(***************************************************************************)
(* Small instances of the node and its filters: a clock that is put        *)
(* forward and back by seconds and ticks by parts of them, and what        *)
(* filters are given meanwhile.                                            *)
(***************************************************************************)
EXTENDS NodeFilters

CONSTANTS
  Rich, socket,  \* the sender, a connection
  MaxBlocks,     \* bound on the length of the chain
  MaxOrderId,    \* bound on the transactions ever added
  MaxSnapshotId, \* bound on the snapshots ever taken; one less with filters
  MaxOffset      \* bound on how far the clock is moved

MCRangeStarts == {LATEST_BLOCK, 0}
MCRangeEnds == {LATEST_BLOCK}
MCIncrements == {-1, 1}

(* Of two transactions of the sender it can pay one, or both. *)
Tx(nonce) == [from |-> Rich, nonce |-> nonce, gasLimit |-> 1, gasPrice |-> 1, value |-> 0]
MCTxs == {Tx(0), Tx(1)}
PaysForBoth == chain[1].stateRoot[Rich].balance = 2

(* Before there are filters the clock is followed, by a sender who can pay  *)
(* one transaction; three snapshots as long as no time was taken off.       *)
ClockBounded ==
  /\ lastFilterId = 0 /\ closed = {} /\ ~PaysForBoth
  /\ Busy \/ /\ nextSnapshotId <= IF putBack = 0 THEN MaxSnapshotId ELSE MaxSnapshotId - 1
             /\ offset \in -MaxOffset .. MaxOffset
             /\ putBack <= MaxOffset

(* While there are filters the clock ticks and is not put forward or back,  *)
(* and it stands still for a sender who can pay one transaction, so that    *)
(* sends fail and are undone. Not followed are connections closed before    *)
(* they subscribed to anything, the time after the last filter is gone, and *)
(* timestamps asked for while there are some.                               *)
FollowersBounded ==
  /\ PaysForBoth \/ now = FirstTick
  /\ \A s \in closed : subscriptions[s] # {}
  /\ lastFilterId = MaxFilters => DOMAIN filters # {}
  /\ nextBlockTimestamp # 0 => lastFilterId = 0
  /\ putBack = 0
  /\ Busy \/ (nextSnapshotId < MaxSnapshotId /\ offset <= 0)

(* A request that was accepted is served to its end.                        *)
FiltersBounded ==
  /\ chain[1].stateRoot[Rich].balance > 0
  /\ Busy \/ (Len(chain) <= MaxBlocks /\ nextOrderId <= MaxOrderId)
  /\ ClockBounded \/ FollowersBounded

(* What the steps that can follow depend on: not on the last answer. *)
FilterView == <<poolVars, chain, now, clockVars, snapshotVars, automine, building, request, filterVars>>
==============================================================================
