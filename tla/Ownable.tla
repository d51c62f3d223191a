------------------------------- MODULE Ownable -------------------------------
(***************************************************************************)
(* The OpenZeppelin access control contract the token inherits from: one   *)
(* account owns the contract, and can hand it on or give it up for good.   *)
(***************************************************************************)
EXTENDS Evm

VARIABLE contractOwner   \* _owner

OwnershipTransferred(previousOwner, newOwner) ==
  [event |-> "OwnershipTransferred", previousOwner |-> previousOwner, newOwner |-> newOwner]

(* The constructor makes the deployer the owner. *)
OwnableInit(deployer) == contractOwner = deployer

OnlyOwner(sender) == contractOwner = sender

RenounceOwnership(sender) ==
  /\ Message(sender)
  /\ OnlyOwner(sender)
  /\ Emit(<<OwnershipTransferred(contractOwner, ZERO)>>)
  /\ contractOwner' = ZERO

TransferOwnership(sender, newOwner) ==
  /\ Message(sender)
  /\ OnlyOwner(sender)
  /\ newOwner # ZERO
  /\ Emit(<<OwnershipTransferred(contractOwner, newOwner)>>)
  /\ contractOwner' = newOwner
==============================================================================
