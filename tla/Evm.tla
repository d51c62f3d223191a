--------------------------------- MODULE Evm ---------------------------------
(***************************************************************************)
(* The part of the Ethereum virtual machine that a contract sees: the      *)
(* sender of the current message, the log of the current transaction and   *)
(* the stack of messages that wait for an external call.                   *)
(*                                                                         *)
(* Transactions are executed one at a time.  A message that reverts leaves *)
(* no trace, so an operation is enabled exactly when none of its require   *)
(* statements fails; only a message that has called out to another         *)
(* contract can revert later, and callStack keeps what it has to restore.  *)
(***************************************************************************)
EXTENDS Addresses, Naturals, Sequences

CONSTANTS
  Contracts,    \* the accounts that have code (Address.isContract)
  MaxCallDepth  \* how many messages may wait for an external call

ASSUME ContractAssumption == Contracts \subseteq Accounts
ASSUME CallDepthAssumption == MaxCallDepth \in Nat

VARIABLES
  msgSender,  \* the sender of the last message
  logs,       \* the events of the transaction it belongs to, in order
  callStack   \* for each pending external call, the state before the message

evmVars == <<msgSender, logs, callStack>>

(* During an external call only code can send a message. *)
Senders == IF callStack = <<>> THEN Accounts ELSE Contracts

(* A message that is not sent from within an external call starts a         *)
(* transaction, whose log is empty.                                         *)
TransactionLogs == IF callStack = <<>> THEN <<>> ELSE logs

Message(sender) ==
  /\ sender \in Senders
  /\ msgSender' = sender

Emit(events) == logs' = TransactionLogs \o events
==============================================================================
