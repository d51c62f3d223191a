------------------------------ MODULE ZapIndexer -----------------------------
(***************************************************************************)
(* What a consumer of the events can know: replaying the log of every      *)
(* transaction over what was known before it.                              *)
(***************************************************************************)
EXTENDS ZapChain, SequencesExt

Move(s, e) ==
  [s EXCEPT
     !.tokenOwners = [t \in DOMAIN @ \cup {e.tokenId} |-> IF t = e.tokenId THEN e.to ELSE @[t]],
     !.holderTokens =
        [a \in Address |-> (@[a] \ {e.tokenId}) \cup (IF a = e.to THEN {e.tokenId} ELSE {})]]

Publication(s, e) ==
  [s EXCEPT !.seriesPublications =
     [@ EXCEPT ![Eip712HashSeriesFingerprint(e.publication.ipfsHash, e.publication.zapper)] =
        e.publication]]

Apply(s, e) ==
  CASE e.event = "Transfer" -> Move(s, e)
    [] e.event = "Publish" -> Publication(s, e)
    [] e.event = "Mint" -> s
    [] e.event = "Approval" -> [s EXCEPT !.tokenApprovals[e.tokenId] = e.approved]
    [] e.event = "ApprovalForAll" ->
         [s EXCEPT !.operatorApprovals =
            IF e.approved THEN @ \cup {<<e.owner, e.operator>>} ELSE @ \ {<<e.owner, e.operator>>}]
    [] e.event = "OwnershipTransferred" -> [s EXCEPT !.contractOwner = e.newOwner]

WithoutLogs(s) == [s EXCEPT !.logs = <<>>]

(* Whatever a transaction does, and whatever part of it is undone by        *)
(* receivers that reject a token, its events tell all of it and in the      *)
(* right order: replayed over the state before the transaction they give    *)
(* the state of the contract.                                               *)
EventsTellAll ==
  [][WithoutLogs(FoldLeft(Apply, Committed, logs')) = WithoutLogs(Storage')]_<<contractVars, logs>>
==============================================================================
