-------------------------------- MODULE MCZap --------------------------------
(***************************************************************************)
(* Small instances of the deployed contract for TLC.                       *)
(***************************************************************************)
EXTENDS ZapIndexer, HashUtils

CONSTANTS
  OtherContract,  \* another deployment of the contract
  Zapper,         \* the account the signed intents name as zapper
  MaxZaps,        \* bound on the tokens minted
  MaxSigned,      \* bound on the signatures made
  MaxApprovals,   \* bound on the approvals, of tokens and operators, in force
  MaxEvents       \* bound on the events of a transaction that is still pending

MCTokenIds == ZapIds

(* The domain of this contract on each chain, and that of another contract. *)
MCSigningDomains ==
  Domains \cup {[BuildDomainSeparator(DeployChainId) EXCEPT !.verifyingContract = OtherContract]}

(* Two Zaps of one series, and one that names another total for it. *)
MCIntents ==
  {Zap(SeriesPublication(ZERO_HASH, Zapper, total), serial) : total \in {1, MaxBytes4}, serial \in {0}}
    \cup {Zap(SeriesPublication(ZERO_HASH, Zapper, MaxBytes4), MaxBytes4 - 1)}

Approvals == {id \in TokenIds : tokenApprovals[id] # ZERO}

Bounded ==
  /\ Cardinality(DOMAIN tokenOwners) <= MaxZaps
  /\ Cardinality(signed) <= MaxSigned
  /\ Cardinality(Approvals) + Cardinality(operatorApprovals) <= MaxApprovals

BriefTransactions == Len(TransactionLogs) <= MaxEvents

(* What the steps that can follow depend on: not on the last sender, nor,   *)
(* between transactions, on the log of the last one.                        *)
Future == <<contractVars, TransactionLogs, callStack, chainId, signed>>

(* What they depend on when no property is about the log either. *)
SilentFuture ==
  <<contractVars, [i \in DOMAIN callStack |-> WithoutLogs(callStack[i])], chainId, signed>>
==============================================================================
