-------------------------------- MODULE ERC721 -------------------------------
(***************************************************************************)
(* The OpenZeppelin token contract the Zap contract inherits from.  Beside *)
(* the ledger of the holders it keeps approvals: an address for one token, *)
(* an operator for all tokens of a holder.                                 *)
(***************************************************************************)
EXTENDS Evm, TokenLedger

VARIABLES
  tokenApprovals,    \* _tokenApprovals: token -> approved address
  operatorApprovals  \* the pairs <<holder, operator>> set in _operatorApprovals

erc721Vars == <<tokenOwners, holderTokens, tokenApprovals, operatorApprovals>>

ERC721Init ==
  /\ LedgerInit
  /\ tokenApprovals = [t \in TokenIds |-> ZERO]
  /\ operatorApprovals = {}

TransferEvent(from, to, token) ==
  [event |-> "Transfer", from |-> from, to |-> to, tokenId |-> token]

ApprovalEvent(holder, to, token) ==
  [event |-> "Approval", owner |-> holder, approved |-> to, tokenId |-> token]

ApprovalForAllEvent(holder, operator, approved) ==
  [event |-> "ApprovalForAll", owner |-> holder, operator |-> operator, approved |-> approved]

IsApprovedForAll(holder, operator) == <<holder, operator>> \in operatorApprovals

(* _mint; the Transfer event is emitted by the caller. *)
MintToken(to, token) ==
  /\ AddToken(to, token)
  /\ UNCHANGED <<tokenApprovals, operatorApprovals>>

IsApprovedOrOwner(spender, token) ==
  /\ Exists(token)
  /\ LET holder == tokenOwners[token]
     IN  \/ spender = holder
         \/ tokenApprovals[token] = spender
         \/ IsApprovedForAll(holder, spender)

(* Mutant: the approval is left to the next holder. *)
KeepApproval(token) == UNCHANGED tokenApprovals

ClearApproval(token) == tokenApprovals' = [tokenApprovals EXCEPT ![token] = ZERO]

(* transferFrom, and safeTransferFrom up to the call of the receiver.       *)
TransferFrom(sender, from, to, token) ==
  /\ Message(sender)
  /\ IsApprovedOrOwner(sender, token)
  /\ ClearApproval(token)
  /\ MoveToken(from, to, token)
  /\ Emit(<<ApprovalEvent(from, ZERO, token), TransferEvent(from, to, token)>>)
  /\ UNCHANGED operatorApprovals

Approve(sender, to, token) ==
  /\ Message(sender)
  /\ Exists(token)
  /\ LET holder == tokenOwners[token]
     IN  /\ to # holder
         /\ sender = holder \/ IsApprovedForAll(holder, sender)
         /\ Emit(<<ApprovalEvent(holder, to, token)>>)
  /\ tokenApprovals' = [tokenApprovals EXCEPT ![token] = to]
  /\ UNCHANGED <<tokenOwners, holderTokens, operatorApprovals>>

SetApprovalForAll(sender, operator, approved) ==
  /\ Message(sender)
  /\ operator # sender
  /\ operatorApprovals' = IF approved THEN operatorApprovals \cup {<<sender, operator>>}
                                      ELSE operatorApprovals \ {<<sender, operator>>}
  /\ Emit(<<ApprovalForAllEvent(sender, operator, approved)>>)
  /\ UNCHANGED <<tokenOwners, holderTokens, tokenApprovals>>
==============================================================================
