--------------------------- MODULE ZapChainProofs ----------------------------
(***************************************************************************)
(* What holds of the deployed contract for any number of accounts,         *)
(* contracts, hashes, totals and chains, and any depth of callbacks.       *)
(***************************************************************************)
EXTENDS HashUtils, ZapIndexer, SequenceTheorems, FiniteSetTheorems, WellFoundedInduction, TLAPS

(* Approvals name somebody else than the holder, and nobody before a mint.  *)
OthersApprovedIn(s) ==
  \A id \in TokenIds :
    IF id \in DOMAIN s.tokenOwners THEN s.tokenApprovals[id] # s.tokenOwners[id]
                                   ELSE s.tokenApprovals[id] = ZERO

(* A storage is consistent when it is well typed and its parts agree.       *)
Consistent(s) ==
  /\ StorageTypeOK(s)
  /\ ZapsMatchSeriesIn(s)
  /\ NoEmptySeriesIn(s)
  /\ HoldersAgreeIn(s)
  /\ OthersApprovedIn(s)

(* The inductive invariant: a revert restores an earlier storage, so the    *)
(* storages that wait in the call stack have to be consistent too.          *)
ConsistentAll ==
  /\ TypeOK
  /\ Consistent(Storage)
  /\ \A saved \in Saved : Consistent(saved)
------------------------------------------------------------------------------
(* Typed data hashed in the current domain is a key the contract can use,   *)
(* and the id of a Zap gives away its series.                               *)
LEMMA HashesInDomain ==
  ASSUME chainId \in ChainIds,
         NEW publication \in Publications, NEW serialNumber \in Bytes4
  PROVE  /\ Eip712HashSeriesFingerprint(publication.ipfsHash, publication.zapper)
              \in FingerprintHashes
         /\ Eip712HashZapData(publication, serialNumber) \in ZapIds
         /\ SeriesOf(Eip712HashZapData(publication, serialNumber))
              = Eip712HashSeriesFingerprint(publication.ipfsHash, publication.zapper)
         /\ Eip712HashZapData(publication, serialNumber).data.publication = publication
         /\ Eip712HashZapData(publication, serialNumber).data.serialNumber = serialNumber
<1>1. DomainSeparatorV4 \in Domains
  BY ChainAssumption DEF DomainSeparatorV4, CachedDomainSeparator, Domains
<1> QED
  BY <1>1 DEF Eip712HashSeriesFingerprint, Eip712HashZapData, HashTypedDataV4, TypedDataHash,
              FingerprintHashes, ZapIds, Zap, Zaps, Publications, SeriesOf

LEMMA SeriesOfZap ==
  ASSUME NEW id \in ZapIds
  PROVE  /\ SeriesOf(id) \in FingerprintHashes
         /\ id.data.publication \in Publications
         /\ id.data.serialNumber \in Nat
         /\ id.data.publication.seriesTotal \in Nat
BY DEF SeriesOf, TypedDataHash, FingerprintHashes, ZapIds, Zaps, Publications, Bytes4

(* A sequence is a sequence over its own elements. *)
LEMMA SeqOfElements ==
  ASSUME NEW S, NEW seq \in Seq(S)
  PROVE  seq \in Seq({seq[i] : i \in DOMAIN seq})
<1> DEFINE E == {seq[i] : i \in DOMAIN seq}
<1>1. Len(seq) \in Nat /\ seq \in [1 .. Len(seq) -> S] /\ DOMAIN seq = 1 .. Len(seq)
  BY LenProperties
<1>2. \A i \in 1 .. Len(seq) : seq[i] \in E
  BY <1>1
<1>3. seq = [i \in 1 .. Len(seq) |-> seq[i]]
  BY <1>1
<1> HIDE DEF E
<1>4. [i \in 1 .. Len(seq) |-> seq[i]] \in Seq(E)
  BY <1>1, <1>2, IsASeq
<1> QED
  BY <1>3, <1>4 DEF E

LEMMA StackOfSaved ==
  ASSUME NEW S, callStack' \in Seq(S)
  PROVE  callStack' \in Seq(Saved')
BY SeqOfElements DEF Saved

(* The call stack when a message starts to wait, and when it is answered.   *)
LEMMA Push ==
  ASSUME TypeOK, callStack' = Append(callStack, Storage)
  PROVE  /\ callStack' \in Seq(Saved')
         /\ Saved' = Saved \cup {Storage}
         /\ Len(callStack') = Len(callStack) + 1
<1> DEFINE S == Saved \cup {Storage}
<1>1. callStack \in Seq(S) /\ Storage \in S
  BY SeqMonotonic DEF TypeOK
<1> HIDE DEF S
<1>2. /\ callStack' \in Seq(S)
      /\ Len(callStack') = Len(callStack) + 1
      /\ DOMAIN callStack' = 1 .. Len(callStack) + 1
      /\ \A i \in 1 .. Len(callStack) : callStack'[i] = callStack[i]
      /\ callStack'[Len(callStack) + 1] = Storage
      /\ DOMAIN callStack = 1 .. Len(callStack)
      /\ Len(callStack) \in Nat
  BY <1>1
<1>3. Saved' = Saved \cup {Storage}
  BY <1>2 DEF Saved
<1>4. callStack' \in Seq(Saved')
  BY <1>2, StackOfSaved
<1> QED
  BY <1>2, <1>3, <1>4

LEMMA Pop ==
  ASSUME TypeOK, callStack # <<>>,
         callStack' = SubSeq(callStack, 1, Len(callStack) - 1)
  PROVE  /\ callStack' \in Seq(Saved')
         /\ Saved' \subseteq Saved
         /\ callStack[Len(callStack)] \in Saved
         /\ Len(callStack') = Len(callStack) - 1
         /\ \A i \in 1 .. Len(callStack) - 1 : callStack'[i] = callStack[i]
<1>1. callStack \in Seq(Saved)
  BY DEF TypeOK
<1>2. Len(callStack) \in Nat \ {0} /\ DOMAIN callStack = 1 .. Len(callStack)
  BY <1>1, EmptySeq, LenProperties
<1>3. \A i \in 1 .. Len(callStack) - 1 : callStack[i] \in Saved
  BY <1>2 DEF Saved
<1>4. /\ callStack' \in Seq(Saved)
      /\ Len(callStack') = Len(callStack) - 1
      /\ \A i \in 1 .. Len(callStack) - 1 : callStack'[i] = callStack[i]
  BY <1>1, <1>2, <1>3
<1>5. DOMAIN callStack' = 1 .. Len(callStack) - 1
  BY <1>4, LenProperties
<1>6. Saved' \subseteq Saved /\ callStack[Len(callStack)] \in Saved
  BY <1>2, <1>4, <1>5 DEF Saved
<1>7. callStack' \in Seq(Saved')
  BY <1>4, StackOfSaved
<1> QED
  BY <1>4, <1>6, <1>7
------------------------------------------------------------------------------
(* A mint keeps the storage consistent: a Zap of the series, which exists   *)
(* since the series is published, shows that the publication it was         *)
(* published with is the one the new Zap is minted under.                   *)
LEMMA MintConsistent ==
  ASSUME Consistent(Storage), chainId \in ChainIds, UNCHANGED contractOwner,
         NEW publication \in Publications, NEW serialNumber \in Bytes4,
         Mint(publication, serialNumber)
  PROVE  Consistent(Storage)'
<1> DEFINE fingerprint == Eip712HashSeriesFingerprint(publication.ipfsHash, publication.zapper)
           tokenId == Eip712HashZapData(publication, serialNumber)
<1>1. /\ fingerprint \in FingerprintHashes
      /\ tokenId \in ZapIds
      /\ tokenId \in TokenIds
      /\ SeriesOf(tokenId) = fingerprint
      /\ tokenId.data.publication = publication
      /\ tokenId.data.serialNumber = serialNumber
  BY HashesInDomain, TokenIdAssumption
<1>2. /\ IF Published(fingerprint)
         THEN /\ seriesPublications[fingerprint].seriesTotal = publication.seriesTotal
              /\ seriesPublications' = seriesPublications
         ELSE seriesPublications' = [seriesPublications EXCEPT ![fingerprint] = publication]
      /\ serialNumber < publication.seriesTotal
      /\ publication.zapper # ZERO
      /\ tokenId \notin DOMAIN tokenOwners
      /\ holderTokens' = [holderTokens EXCEPT ![publication.zapper] = @ \cup {tokenId}]
      /\ tokenOwners' = [t \in DOMAIN tokenOwners \cup {tokenId} |->
                            IF t = tokenId THEN publication.zapper ELSE tokenOwners[t]]
      /\ tokenApprovals' = tokenApprovals
      /\ operatorApprovals' = operatorApprovals
  BY DEF Mint, PublishOrMatch, SerialNumberInSeries, MintToken, AddToken, SetTokenOwner, Exists
<1>3. /\ seriesPublications \in [FingerprintHashes -> Publications]
      /\ DOMAIN tokenOwners \subseteq ZapIds
      /\ tokenOwners \in [DOMAIN tokenOwners -> Address]
      /\ holderTokens \in [Address -> SUBSET ZapIds]
      /\ tokenApprovals \in [TokenIds -> Address]
      /\ operatorApprovals \in SUBSET (Address \X Address)
      /\ contractOwner \in Address
  BY DEF Consistent, StorageTypeOK, Storage
<1>4. publication.zapper \in Address /\ publication.seriesTotal \in Nat /\ serialNumber \in Nat
  BY DEF Publications, Bytes4
<1> HIDE DEF fingerprint, tokenId
<1>5. StorageTypeOK(Storage)'
  BY <1>1, <1>2, <1>3, <1>4 DEF StorageTypeOK, Storage
<1>6. \A id \in DOMAIN tokenOwners :
        /\ id \in ZapIds
        /\ seriesPublications[SeriesOf(id)] = id.data.publication
        /\ id.data.serialNumber < id.data.publication.seriesTotal
        /\ Published(SeriesOf(id))
  BY <1>3, SeriesOfZap DEF Consistent, ZapsMatchSeriesIn, Storage, Published
<1>7. Published(fingerprint) => seriesPublications[fingerprint] = publication
  <2> SUFFICES ASSUME Published(fingerprint)
               PROVE  seriesPublications[fingerprint] = publication
    OBVIOUS
  <2>1. PICK id \in DOMAIN tokenOwners : SeriesOf(id) = fingerprint
    BY <1>1 DEF Consistent, NoEmptySeriesIn, ZapsOfSeries, Storage, Published
  <2>2. seriesPublications[fingerprint] = id.data.publication
    BY <1>6, <2>1
  <2>3. /\ id.data.publication.ipfsHash = publication.ipfsHash
        /\ id.data.publication.zapper = publication.zapper
    BY <2>1 DEF fingerprint, SeriesOf, Eip712HashSeriesFingerprint, HashTypedDataV4, TypedDataHash
  <2>4. id.data.publication \in Publications
    BY <1>6, <2>1, SeriesOfZap
  <2> QED
    BY <1>2, <2>2, <2>3, <2>4 DEF Publications
<1>8. /\ seriesPublications'[fingerprint] = publication
      /\ \A f \in FingerprintHashes : f # fingerprint => seriesPublications'[f] = seriesPublications[f]
      /\ \A f \in FingerprintHashes : Published(f) => seriesPublications'[f] = seriesPublications[f]
  BY <1>1, <1>2, <1>3, <1>7
<1>9. ZapsMatchSeriesIn(Storage)'
  <2> SUFFICES ASSUME NEW id \in DOMAIN tokenOwners'
               PROVE  /\ seriesPublications'[SeriesOf(id)] = id.data.publication
                      /\ id.data.serialNumber < id.data.publication.seriesTotal
    BY DEF ZapsMatchSeriesIn, Storage, SeriesOf, TypedDataHash
  <2>1. CASE id = tokenId
    BY <1>1, <1>2, <1>8, <2>1
  <2>2. CASE id \in DOMAIN tokenOwners
    BY <1>6, <1>8, <2>2, SeriesOfZap
  <2> QED
    BY <1>2, <2>1, <2>2
<1>10. NoEmptySeriesIn(Storage)'
  <2> SUFFICES ASSUME NEW f \in FingerprintHashes, seriesPublications'[f].seriesTotal # 0
               PROVE  \E id \in DOMAIN tokenOwners' : SeriesOf(id) = f
    BY DEF NoEmptySeriesIn, ZapsOfSeries, Storage
  <2>1. CASE f = fingerprint
    BY <1>1, <1>2, <2>1
  <2>2. CASE f # fingerprint
    BY <1>2, <1>8, <2>2 DEF Consistent, NoEmptySeriesIn, ZapsOfSeries, Storage
  <2> QED
    BY <2>1, <2>2
<1>11. HoldersAgreeIn(Storage)'
  BY <1>2, <1>3, <1>4 DEF Consistent, HoldersAgreeIn, Storage
<1>12. OthersApprovedIn(Storage)'
  BY <1>1, <1>2, <1>3 DEF Consistent, OthersApprovedIn, Storage
<1> QED
  BY <1>5, <1>9, <1>10, <1>11, <1>12 DEF Consistent

(* So does a transfer, to the holder itself too: the token leaves the set   *)
(* of its holder and joins that of its new one, and loses its approval.     *)
LEMMA TransferConsistent ==
  ASSUME Consistent(Storage), UNCHANGED <<contractOwner, seriesPublications>>,
         NEW sender, NEW from \in Address, NEW to \in Address, NEW token \in TokenIds,
         TransferFrom(sender, from, to, token)
  PROVE  Consistent(Storage)'
<1>1. /\ token \in DOMAIN tokenOwners
      /\ tokenOwners[token] = from
      /\ to # ZERO
      /\ tokenApprovals' = [tokenApprovals EXCEPT ![token] = ZERO]
      /\ holderTokens' =
           [[holderTokens EXCEPT ![from] = @ \ {token}] EXCEPT ![to] = @ \cup {token}]
      /\ tokenOwners' = [t \in DOMAIN tokenOwners \cup {token} |->
                            IF t = token THEN to ELSE tokenOwners[t]]
      /\ operatorApprovals' = operatorApprovals
  BY DEF TransferFrom, MoveToken, IsApprovedOrOwner, Exists, ClearApproval, MoveHolding, SetTokenOwner
<1>2. /\ DOMAIN tokenOwners' = DOMAIN tokenOwners
      /\ tokenOwners'[token] = to
      /\ \A t \in DOMAIN tokenOwners : t # token => tokenOwners'[t] = tokenOwners[t]
  BY <1>1
<1>3. /\ DOMAIN tokenOwners \subseteq ZapIds
      /\ tokenOwners \in [DOMAIN tokenOwners -> Address]
      /\ holderTokens \in [Address -> SUBSET ZapIds]
      /\ tokenApprovals \in [TokenIds -> Address]
      /\ ZERO \in Address
  BY DEF Consistent, StorageTypeOK, Storage, Address
<1>4. StorageTypeOK(Storage)'
  BY <1>1, <1>2, <1>3 DEF Consistent, StorageTypeOK, Storage
<1>5. ZapsMatchSeriesIn(Storage)' /\ NoEmptySeriesIn(Storage)'
  BY <1>2 DEF Consistent, ZapsMatchSeriesIn, NoEmptySeriesIn, ZapsOfSeries, Storage
<1>6. HoldersAgreeIn(Storage)'
  <2>1. \A a \in Address : holderTokens[a] = {id \in DOMAIN tokenOwners : tokenOwners[id] = a}
    BY DEF Consistent, HoldersAgreeIn, Storage
  <2>2. \A a \in Address :
          holderTokens'[a] = (holderTokens[a] \ {token}) \cup (IF a = to THEN {token} ELSE {})
    BY <1>1, <1>3, <2>1
  <2>3. \A a \in Address : holderTokens'[a] = {id \in DOMAIN tokenOwners' : tokenOwners'[id] = a}
    BY <1>1, <1>2, <2>1, <2>2
  <2>4. \A id \in DOMAIN tokenOwners' : tokenOwners'[id] # ZERO
    BY <1>1, <1>2 DEF Consistent, HoldersAgreeIn, Storage
  <2> QED
    BY <2>3, <2>4 DEF HoldersAgreeIn, Storage
<1>7. OthersApprovedIn(Storage)'
  BY <1>1, <1>2, <1>3 DEF Consistent, OthersApprovedIn, Storage
<1> QED
  BY <1>4, <1>5, <1>6, <1>7 DEF Consistent

(* And so do approvals and changes of the contract's owner.                 *)
LEMMA ApprovalConsistent ==
  ASSUME Consistent(Storage), NEW sender \in Accounts, ApprovalMessage(sender)
  PROVE  Consistent(Storage)'
<1> USE DEF Consistent, StorageTypeOK, ZapsMatchSeriesIn, NoEmptySeriesIn, ZapsOfSeries,
            HoldersAgreeIn, OthersApprovedIn, Storage, ApprovalMessage
<1>1. ASSUME NEW token \in TokenIds, NEW to \in Address, Approve(sender, to, token)
      PROVE  Consistent(Storage)'
  BY <1>1 DEF Approve, Exists
<1>2. ASSUME NEW operator \in Address, NEW approved \in BOOLEAN,
             SetApprovalForAll(sender, operator, approved)
      PROVE  Consistent(Storage)'
  <2>1. operatorApprovals' \in SUBSET (Address \X Address)
    BY <1>2 DEF SetApprovalForAll, Address
  <2> QED
    BY <1>2, <2>1 DEF SetApprovalForAll
<1> QED
  BY <1>1, <1>2

LEMMA OwnershipConsistent ==
  ASSUME Consistent(Storage), NEW sender \in Accounts, OwnershipMessage(sender)
  PROVE  Consistent(Storage)'
<1>1. contractOwner' \in Address /\ UNCHANGED <<seriesPublications, erc721Vars>>
  BY DEF OwnershipMessage, RenounceOwnership, TransferOwnership, Address
<1> QED
  BY <1>1 DEF Consistent, StorageTypeOK, ZapsMatchSeriesIn, NoEmptySeriesIn, ZapsOfSeries,
              HoldersAgreeIn, OthersApprovedIn, Storage, erc721Vars

LEMMA UnchangedConsistent ==
  ASSUME Consistent(Storage), UNCHANGED contractVars
  PROVE  Consistent(Storage)'
BY DEF Consistent, StorageTypeOK, ZapsMatchSeriesIn, NoEmptySeriesIn, ZapsOfSeries,
       HoldersAgreeIn, OthersApprovedIn, Storage, contractVars, erc721Vars

(* A revert brings back a storage that was consistent when it was saved.    *)
LEMMA RestoreConsistent ==
  ASSUME NEW saved, Consistent(saved), Restore(saved)
  PROVE  Consistent(Storage)'
BY DEF Consistent, StorageTypeOK, ZapsMatchSeriesIn, NoEmptySeriesIn, ZapsOfSeries,
       HoldersAgreeIn, OthersApprovedIn, Storage, Restore

(* Whatever way a Zap is minted, it is minted by _mint.                     *)
LEMMA MintMessageMints ==
  ASSUME ConsistentAll, NEW sender \in Accounts, MintMessage(sender)
  PROVE  \E publication \in Publications, serialNumber \in Bytes4 : Mint(publication, serialNumber)
<1>1. sender \in Address /\ contractOwner \in Address
  BY DEF ConsistentAll, Consistent, StorageTypeOK, Storage, Address
<1>2. CASE \E ipfsHash \in IpfsHashes, seriesTotal, serialNumber \in Bytes4 :
             MintByOwnerForOwner(sender, ipfsHash, seriesTotal, serialNumber)
  BY <1>1, <1>2 DEF MintByOwnerForOwner, SeriesPublication, Publications
<1>3. CASE \E signature \in SignatureData, publication \in Publications, serialNumber \in Bytes4 :
             MintByOwner(sender, publication, serialNumber, signature)
  BY <1>3 DEF MintByOwner
<1>4. CASE \E signature \in SignatureData, ipfsHash \in IpfsHashes, seriesTotal, serialNumber \in Bytes4 :
             MintByZapper(sender, ipfsHash, seriesTotal, serialNumber, signature)
  BY <1>1, <1>4 DEF MintByZapper, SeriesPublication, Publications
<1>5. CASE \E zapperSignature, ownerSignature \in SignatureData,
              publication \in Publications, serialNumber \in Bytes4 :
             MintBySignatures(sender, publication, serialNumber, zapperSignature, ownerSignature)
  BY <1>5 DEF MintBySignatures
<1> QED
  BY <1>2, <1>3, <1>4, <1>5 DEF MintMessage

LEMMA MintMessageConsistent ==
  ASSUME ConsistentAll, NEW sender \in Accounts, MintMessage(sender)
  PROVE  Consistent(Storage)'
<1>1. Consistent(Storage) /\ chainId \in ChainIds /\ UNCHANGED contractOwner
  BY DEF ConsistentAll, TypeOK, MintMessage
<1> QED
  BY <1>1, MintMessageMints, MintConsistent

(* What is left of TypeOK' once the storage and the stack are in order.     *)
LEMMA StackConsistent ==
  ASSUME ConsistentAll, Consistent(Storage)', chainId' \in ChainIds, msgSender' \in Accounts,
         signed' \subseteq Signatures,
         \/ UNCHANGED callStack
         \/ /\ Len(callStack) < MaxCallDepth
            /\ callStack' = Append(callStack, Storage)
         \/ /\ callStack # <<>>
            /\ callStack' = SubSeq(callStack, 1, Len(callStack) - 1)
  PROVE  ConsistentAll'
<1>1. TypeOK /\ Len(callStack) \in Nat /\ MaxCallDepth \in Nat
  BY LenProperties, CallDepthAssumption DEF ConsistentAll, TypeOK
<1>2. /\ callStack' \in Seq(Saved')
      /\ \A saved \in Saved' : Consistent(saved)
      /\ Len(callStack') <= MaxCallDepth
  <2>1. CASE UNCHANGED callStack
    BY <2>1 DEF ConsistentAll, TypeOK, Saved
  <2>2. CASE Len(callStack) < MaxCallDepth /\ callStack' = Append(callStack, Storage)
    BY <1>1, <2>2, Push DEF ConsistentAll
  <2>3. CASE callStack # <<>> /\ callStack' = SubSeq(callStack, 1, Len(callStack) - 1)
    <3>1. Len(callStack) <= MaxCallDepth
      BY DEF ConsistentAll, TypeOK
    <3> QED
      BY <1>1, <2>3, <3>1, Pop DEF ConsistentAll
  <2> QED
    BY <2>1, <2>2, <2>3
<1>3. \A saved \in Saved' : Consistent(saved) /\ StorageTypeOK(saved)
  BY <1>2 DEF Consistent
<1>4. StorageTypeOK(Storage)'
  BY DEF Consistent
<1> QED
  BY <1>2, <1>3, <1>4 DEF ConsistentAll, TypeOK

LEMMA InitConsistent == Init => ConsistentAll
<1> SUFFICES ASSUME Init PROVE ConsistentAll
  OBVIOUS
<1>1. Saved = {} /\ callStack \in Seq(Saved) /\ Len(callStack) <= MaxCallDepth
  BY CallDepthAssumption DEF Init, Saved
<1>2. NoPublication \in Publications /\ NoPublication.seriesTotal = 0
  BY HashAssumption, Bytes4Assumption
     DEF NoPublication, SeriesPublication, Publications, Address, Bytes4
<1>3. Deployer \in Address /\ ZERO \in Address
  BY DeployerAssumption DEF Address
<1>4. Consistent(Storage)
  BY <1>2, <1>3 DEF Init, OwnableInit, ERC721Init, LedgerInit, Consistent, StorageTypeOK, ZapsMatchSeriesIn,
        NoEmptySeriesIn, HoldersAgreeIn, OthersApprovedIn, Storage
<1> QED
  BY <1>1, <1>4, DeployerAssumption, ChainAssumption DEF Init, ConsistentAll, TypeOK, Consistent

LEMMA StepConsistent == ConsistentAll /\ [Next]_vars => ConsistentAll'
<1> SUFFICES ASSUME ConsistentAll, [Next]_vars PROVE ConsistentAll'
  OBVIOUS
<1>1. /\ Consistent(Storage)
      /\ chainId \in ChainIds
      /\ msgSender \in Accounts
      /\ signed \subseteq Signatures
      /\ TypeOK
  BY DEF ConsistentAll, TypeOK
<1>2. ASSUME NEW sender \in Accounts, OwnershipMessage(sender)
      PROVE  ConsistentAll'
  <2>1. msgSender' = sender /\ UNCHANGED <<callStack, chainId, signed>>
    BY <1>2 DEF OwnershipMessage, RenounceOwnership, TransferOwnership, Message
  <2> QED
    BY <1>1, <1>2, <2>1, OwnershipConsistent, StackConsistent
<1>3. ASSUME NEW sender \in Accounts, ApprovalMessage(sender)
      PROVE  ConsistentAll'
  <2>1. msgSender' = sender /\ UNCHANGED <<callStack, chainId, signed>>
    BY <1>3 DEF ApprovalMessage, Approve, SetApprovalForAll, Message
  <2> QED
    BY <1>1, <1>3, <2>1, ApprovalConsistent, StackConsistent
<1>4. ASSUME NEW sender \in Accounts, TransferMessage(sender)
      PROVE  ConsistentAll'
  <2>1. PICK token \in TokenIds, from \in Address, to \in Address :
          TransferFrom(sender, from, to, token)
    BY <1>4 DEF TransferMessage
  <2>2. /\ msgSender' = sender
        /\ UNCHANGED <<contractOwner, seriesPublications, callStack, chainId, signed>>
    BY <1>4, <2>1 DEF TransferMessage, TransferFrom, Message
  <2> QED
    BY <1>1, <2>1, <2>2, TransferConsistent, StackConsistent
<1>5. ASSUME NEW sender \in Accounts, SafeTransferMessage(sender)
      PROVE  ConsistentAll'
  <2>1. PICK token \in TokenIds, from \in Address, to \in Address :
          TransferFrom(sender, from, to, token) /\ CallReceiver(to)
    BY <1>5 DEF SafeTransferMessage
  <2>2. /\ msgSender' = sender
        /\ UNCHANGED <<contractOwner, seriesPublications, chainId, signed>>
    BY <1>5, <2>1 DEF SafeTransferMessage, TransferFrom, Message
  <2>3. Consistent(Storage)'
    BY <1>1, <2>1, <2>2, TransferConsistent
  <2> QED
    BY <1>1, <2>1, <2>2, <2>3, StackConsistent DEF CallReceiver
<1>6. ASSUME NEW sender \in Accounts, MintMessage(sender)
      PROVE  ConsistentAll'
  <2>1. msgSender' = sender /\ UNCHANGED <<callStack, chainId, signed>>
    BY <1>6 DEF MintMessage, MintByOwnerForOwner, MintByOwner, MintByZapper, MintBySignatures, Message
  <2> QED
    BY <1>1, <1>6, <2>1, MintMessageConsistent, StackConsistent
<1>7. CASE ReceiverAccepts
  BY <1>1, <1>7, UnchangedConsistent, StackConsistent DEF ReceiverAccepts
<1>8. CASE ReceiverRejects
  <2>1. callStack[Len(callStack)] \in Saved
    BY <1>1, <1>8, Pop DEF ReceiverRejects
  <2>2. Consistent(callStack[Len(callStack)])
    BY <2>1 DEF ConsistentAll
  <2>3. Consistent(Storage)'
    BY <1>8, <2>2, RestoreConsistent DEF ReceiverRejects
  <2> QED
    BY <1>1, <1>8, <2>3, StackConsistent DEF ReceiverRejects
<1>9. CASE SignMintIntent
  BY <1>1, <1>9, UnchangedConsistent, StackConsistent DEF SignMintIntent, evmVars
<1>10. CASE Fork
  BY <1>1, <1>10, UnchangedConsistent, StackConsistent DEF Fork, evmVars
<1>11. CASE UNCHANGED vars
  BY <1>1, <1>11, UnchangedConsistent, StackConsistent DEF vars, evmVars
<1> QED
  BY <1>2, <1>3, <1>4, <1>5, <1>6, <1>7, <1>8, <1>9, <1>10, <1>11 DEF Next
------------------------------------------------------------------------------
(* The storage is consistent, and so is every storage a revert may restore. *)
THEOREM AlwaysConsistent == Spec => []ConsistentAll
BY InitConsistent, StepConsistent, PTL DEF Spec

(* The state and the call stack are well typed: every token id is the hash  *)
(* of a Zap, every key of a publication that of a fingerprint.              *)
THEOREM TypeCorrect == Spec => []TypeOK
<1>1. ConsistentAll => TypeOK
  BY DEF ConsistentAll
<1> QED
  BY <1>1, AlwaysConsistent, PTL

(* A series keeps its total: every Zap of it was minted under the           *)
(* publication the contract holds for it, with a serial number below it.    *)
THEOREM ZapsAlwaysMatchSeries == Spec => []ZapsMatchSeries
<1>1. ConsistentAll => ZapsMatchSeries
  BY DEF ConsistentAll, Consistent, ZapsMatchSeries
<1> QED
  BY <1>1, AlwaysConsistent, PTL

(* _mint publishes a series only together with a Zap of it.                 *)
THEOREM NeverAnEmptySeries == Spec => []NoEmptySeries
<1>1. ConsistentAll => NoEmptySeries
  BY DEF ConsistentAll, Consistent, NoEmptySeries
<1> QED
  BY <1>1, AlwaysConsistent, PTL

(* The two records of the holders in the token ledger never differ.         *)
THEOREM HoldersAlwaysAgree == Spec => []HoldersAgree
<1>1. ConsistentAll => HoldersAgree
  BY DEF ConsistentAll, Consistent, HoldersAgree
<1> QED
  BY <1>1, AlwaysConsistent, PTL

------------------------------------------------------------------------------
(* What a step may never do, and the size of a series, on that basis.       *)

(* Each storage in the call stack extends those saved before it, and the    *)
(* current storage extends them all.                                        *)
Ordered ==
  /\ \A i, j \in DOMAIN callStack : i <= j => Extends(callStack[i], callStack[j])
  /\ \A i \in DOMAIN callStack : Extends(callStack[i], Storage)

StepInv == ConsistentAll /\ Ordered
------------------------------------------------------------------------------
(* A limited edition: the serial numbers of the Zaps of a series are        *)
(* distinct, since the rest of what their ids hash is the same.             *)
LEMMA ConsistentSupply == ConsistentAll => SupplyLimited
<1> SUFFICES ASSUME ConsistentAll, NEW fingerprint \in FingerprintHashes
             PROVE  Cardinality(ZapsOfSeries(Storage, fingerprint))
                      <= seriesPublications[fingerprint].seriesTotal
  BY DEF SupplyLimited
<1> DEFINE Z == ZapsOfSeries(Storage, fingerprint)
           total == seriesPublications[fingerprint].seriesTotal
           number == [id \in Z |-> id.data.serialNumber]
<1>1. /\ total \in Nat
      /\ \A id \in Z : /\ id \in ZapIds
                       /\ SeriesOf(id) = fingerprint
                       /\ id.data.publication = seriesPublications[fingerprint]
                       /\ id.data.serialNumber < total
  BY DEF ConsistentAll, Consistent, StorageTypeOK, ZapsMatchSeriesIn, ZapsOfSeries, Storage,
         Publications, Bytes4
<1>2. \A id \in Z : id.data.serialNumber \in 0 .. total - 1
  BY <1>1, SeriesOfZap
<1>3. \A id1, id2 \in Z : id1.data.serialNumber = id2.data.serialNumber => id1 = id2
  <2> SUFFICES ASSUME NEW id1 \in Z, NEW id2 \in Z, id1.data.serialNumber = id2.data.serialNumber
               PROVE  id1 = id2
    OBVIOUS
  <2>1. id1.data.publication = id2.data.publication
    BY <1>1
  <2>2. id1.domain = id2.domain
    BY <1>1 DEF SeriesOf, TypedDataHash
  <2>3. id1 \in ZapIds /\ id2 \in ZapIds
    BY <1>1
  <2>4. id1.data = id2.data
    BY <2>1, <2>3 DEF ZapIds, Zaps
  <2> QED
    BY <2>2, <2>3, <2>4 DEF ZapIds
<1> HIDE DEF Z, total
<1>4. number \in Injection(Z, 0 .. total - 1)
  BY <1>2, <1>3 DEF Injection, IsInjective
<1> HIDE DEF number
<1>5. IsFiniteSet(0 .. total - 1) /\ Cardinality(0 .. total - 1) = total
  BY <1>1, FS_Interval
<1>6. Cardinality(Z) <= total
  BY <1>4, <1>5, FS_Injection
<1> QED
  BY <1>6 DEF Z, total

(* A series never has more Zaps than the total it was published with.       *)
THEOREM SupplyAlwaysLimited == Spec => []SupplyLimited
BY ConsistentSupply, AlwaysConsistent, PTL
------------------------------------------------------------------------------
LEMMA ExtendsTransitive ==
  ASSUME NEW r, NEW s, NEW t, Extends(r, s), Extends(s, t)
  PROVE  Extends(r, t)
BY DEF Extends

(* What a message does, calls of the receiver aside: it is a mint, or it    *)
(* leaves the publications and the set of the tokens alone.                 *)
LEMMA MessageExtends ==
  ASSUME ConsistentAll,
         \/ UNCHANGED <<seriesPublications, tokenOwners>>
         \/ \E token \in TokenIds, from, to \in Address, sender \in Accounts :
              TransferFrom(sender, from, to, token) /\ UNCHANGED seriesPublications
         \/ \E publication \in Publications, serialNumber \in Bytes4 :
              Mint(publication, serialNumber)
  PROVE  Extends(Storage, Storage')
<1>1. ASSUME UNCHANGED <<seriesPublications, tokenOwners>>
      PROVE  Extends(Storage, Storage')
  BY <1>1 DEF Extends, Storage
<1>2. ASSUME NEW token \in TokenIds, NEW from \in Address, NEW to \in Address, NEW sender \in Accounts,
             TransferFrom(sender, from, to, token), UNCHANGED seriesPublications
      PROVE  Extends(Storage, Storage')
  BY <1>2 DEF TransferFrom, MoveToken, SetTokenOwner, Extends, Storage
<1>3. ASSUME NEW publication \in Publications, NEW serialNumber \in Bytes4,
             Mint(publication, serialNumber)
      PROVE  Extends(Storage, Storage')
  <2> DEFINE fingerprint == Eip712HashSeriesFingerprint(publication.ipfsHash, publication.zapper)
  <2>1. seriesPublications \in [FingerprintHashes -> Publications]
    BY DEF ConsistentAll, Consistent, StorageTypeOK, Storage
  <2>2. PublishOrMatch(fingerprint, publication)
    BY <1>3 DEF Mint
  <2> HIDE DEF fingerprint
  <2>3. \A f \in FingerprintHashes :
          seriesPublications[f].seriesTotal # 0 => seriesPublications'[f] = seriesPublications[f]
    BY <2>1, <2>2 DEF PublishOrMatch, Published
  <2>4. DOMAIN tokenOwners \subseteq DOMAIN tokenOwners'
    BY <1>3 DEF Mint, MintToken, AddToken, SetTokenOwner
  <2> QED
    BY <2>3, <2>4 DEF Extends, Storage
<1> QED
  BY <1>1, <1>2, <1>3

(* What steps do to the publications and the tokens, and to the stack.      *)
Grows == Extends(Storage, Storage')

LEMMA StepKinds ==
  ASSUME ConsistentAll, [Next]_vars
  PROVE  \/ UNCHANGED callStack /\ Grows
         \/ callStack' = Append(callStack, Storage) /\ Grows
         \/ /\ callStack # <<>>
            /\ callStack' = SubSeq(callStack, 1, Len(callStack) - 1)
            /\ UNCHANGED contractVars \/ Restore(callStack[Len(callStack)])
<1>1. ASSUME NEW sender \in Accounts, OwnershipMessage(sender) \/ ApprovalMessage(sender)
      PROVE  UNCHANGED callStack /\ Grows
  <2>1. UNCHANGED <<callStack, seriesPublications, tokenOwners>>
    BY <1>1 DEF OwnershipMessage, ApprovalMessage, Approve, SetApprovalForAll, erc721Vars
  <2> QED
    BY <2>1, MessageExtends DEF Grows
<1>2. ASSUME NEW sender \in Accounts, TransferMessage(sender)
      PROVE  UNCHANGED callStack /\ Grows
  BY <1>2, MessageExtends DEF TransferMessage, Grows
<1>3. ASSUME NEW sender \in Accounts, SafeTransferMessage(sender)
      PROVE  (UNCHANGED callStack \/ callStack' = Append(callStack, Storage)) /\ Grows
  BY <1>3, MessageExtends DEF SafeTransferMessage, CallReceiver, Grows
<1>4. ASSUME NEW sender \in Accounts, MintMessage(sender)
      PROVE  UNCHANGED callStack /\ Grows
  BY <1>4, MintMessageMints, MessageExtends DEF MintMessage, Grows
<1>5. CASE ReceiverAccepts
  BY <1>5 DEF ReceiverAccepts
<1>6. CASE ReceiverRejects
  BY <1>6 DEF ReceiverRejects
<1>7. CASE SignMintIntent \/ Fork \/ UNCHANGED vars
  <2>1. UNCHANGED <<callStack, seriesPublications, tokenOwners>>
    BY <1>7 DEF SignMintIntent, Fork, vars, evmVars, contractVars, erc721Vars
  <2> QED
    BY <2>1, MessageExtends DEF Grows
<1> QED
  BY <1>1, <1>2, <1>3, <1>4, <1>5, <1>6, <1>7 DEF Next

LEMMA InitOrdered == Init => Ordered
BY DEF Init, Ordered

LEMMA StackIndices ==
  ASSUME ConsistentAll
  PROVE  /\ DOMAIN callStack = 1 .. Len(callStack)
         /\ Len(callStack) \in Nat
         /\ callStack # <<>> => Len(callStack) > 0
         /\ \A i \in DOMAIN callStack : callStack[i] \in Saved
BY LenProperties, EmptySeq DEF ConsistentAll, TypeOK, Saved

(* The stack without its last element, and with one more.                   *)
LEMMA PopElements ==
  ASSUME ConsistentAll, callStack # <<>>,
         callStack' = SubSeq(callStack, 1, Len(callStack) - 1)
  PROVE  /\ DOMAIN callStack' = 1 .. Len(callStack) - 1
         /\ \A i \in DOMAIN callStack' : callStack'[i] = callStack[i]
         /\ Len(callStack') = Len(callStack) - 1
         /\ callStack' = <<>> <=> Len(callStack) = 1
<1>1. /\ callStack' \in Seq(Saved')
      /\ Len(callStack') = Len(callStack) - 1
      /\ \A i \in 1 .. Len(callStack) - 1 : callStack'[i] = callStack[i]
  BY Pop DEF ConsistentAll
<1>2. DOMAIN callStack' = 1 .. Len(callStack) - 1
  BY <1>1, LenProperties
<1>3. callStack' = <<>> <=> Len(callStack') = 0
  BY <1>1, EmptySeq
<1> QED
  BY <1>1, <1>2, <1>3, StackIndices

LEMMA PushElements ==
  ASSUME ConsistentAll, callStack' = Append(callStack, Storage)
  PROVE  /\ DOMAIN callStack' = 1 .. Len(callStack) + 1
         /\ \A i \in DOMAIN callStack : callStack'[i] = callStack[i]
         /\ callStack'[Len(callStack) + 1] = Storage
         /\ Len(callStack') = Len(callStack) + 1
         /\ callStack' # <<>>
<1> DEFINE S == Saved \cup {Storage}
<1>1. callStack \in Seq(S) /\ Storage \in S
  BY SeqMonotonic DEF ConsistentAll, TypeOK
<1> HIDE DEF S
<1> QED
  BY <1>1

LEMMA StepOrdered == ConsistentAll /\ Ordered /\ [Next]_vars => Ordered'
<1> SUFFICES ASSUME ConsistentAll, Ordered, [Next]_vars PROVE Ordered'
  OBVIOUS
<1>1. CASE UNCHANGED callStack /\ Grows
  BY <1>1, ExtendsTransitive DEF Ordered, Grows
<1>2. CASE callStack' = Append(callStack, Storage) /\ Grows
  <2>1. \A i \in DOMAIN callStack : Extends(callStack[i], Storage')
    BY <1>2, ExtendsTransitive DEF Ordered, Grows
  <2>2. Extends(Storage, Storage) /\ Extends(Storage, Storage')
    BY <1>2 DEF Grows, Extends
  <2> QED
    BY <1>2, <2>1, <2>2, PushElements, StackIndices DEF Ordered
<1>3. CASE /\ callStack # <<>>
           /\ callStack' = SubSeq(callStack, 1, Len(callStack) - 1)
           /\ UNCHANGED contractVars \/ Restore(callStack[Len(callStack)])
  <2>1. /\ DOMAIN callStack' \subseteq DOMAIN callStack
        /\ Len(callStack) \in DOMAIN callStack
        /\ \A i \in DOMAIN callStack' : callStack'[i] = callStack[i] /\ i <= Len(callStack)
    BY <1>3, PopElements, StackIndices
  <2>2. \A i \in DOMAIN callStack' : Extends(callStack[i], Storage')
    <3>1. CASE UNCHANGED contractVars
      BY <2>1, <3>1 DEF Ordered, Extends, Storage, contractVars, erc721Vars
    <3>2. CASE Restore(callStack[Len(callStack)])
      BY <2>1, <3>2 DEF Ordered, Extends, Storage, Restore
    <3> QED
      BY <1>3, <3>1, <3>2
  <2> QED
    BY <2>1, <2>2 DEF Ordered
<1> QED
  BY <1>1, <1>2, <1>3, StepKinds

(* Storages are saved in the order in which they came about.                *)
THEOREM AlwaysStepInv == Spec => []StepInv
<1>1. Init => StepInv
  BY InitConsistent, InitOrdered DEF StepInv
<1>2. StepInv /\ [Next]_vars => StepInv'
  BY StepConsistent, StepOrdered DEF StepInv
<1> QED
  BY <1>1, <1>2, PTL DEF Spec
------------------------------------------------------------------------------
(* The committed state is extended by every step: while messages are        *)
(* pending it does not change, and the first of them to be answered leaves  *)
(* the current storage, which extends it, or the committed one.             *)
LEMMA StepCements == StepInv /\ [Next]_vars => Extends(Committed, Committed')
<1> SUFFICES ASSUME StepInv, [Next]_vars PROVE Extends(Committed, Committed')
  OBVIOUS
<1> USE DEF StepInv
<1>1. \A s : Extends(s, s)
  BY DEF Extends
<1>2. callStack = <<>> \/ 1 \in DOMAIN callStack
  BY StackIndices
<1>3. CASE UNCHANGED callStack /\ Grows
  <2>1. CASE callStack = <<>>
    BY <1>3, <2>1 DEF Committed, Grows
  <2>2. CASE callStack # <<>>
    BY <1>1, <1>3, <2>2 DEF Committed
  <2> QED
    BY <2>1, <2>2
<1>4. CASE callStack' = Append(callStack, Storage) /\ Grows
  <2>1. CASE callStack = <<>>
    <3>1. Len(callStack) = 0
      BY <2>1
    <3>2. callStack'[1] = Storage /\ callStack' # <<>>
      BY <1>4, <3>1, PushElements
    <3> QED
      BY <1>1, <2>1, <3>2 DEF Committed
  <2>2. CASE callStack # <<>>
    BY <1>1, <1>2, <1>4, <2>2, PushElements DEF Committed
  <2> QED
    BY <2>1, <2>2
<1>5. CASE /\ callStack # <<>>
           /\ callStack' = SubSeq(callStack, 1, Len(callStack) - 1)
           /\ UNCHANGED contractVars \/ Restore(callStack[Len(callStack)])
  <2>1. CASE Len(callStack) = 1
    <3>1. Committed = callStack[1] /\ Committed' = Storage'
      BY <1>5, <2>1, PopElements DEF Committed
    <3>2. Extends(callStack[1], Storage)
      BY <1>2, <1>5 DEF Ordered
    <3>3. CASE UNCHANGED contractVars
      BY <3>1, <3>2, <3>3 DEF Extends, Storage, contractVars, erc721Vars
    <3>4. CASE Restore(callStack[Len(callStack)])
      BY <2>1, <3>1, <3>4 DEF Extends, Storage, Restore
    <3> QED
      BY <1>5, <3>3, <3>4
  <2>2. CASE Len(callStack) # 1
    <3>1. callStack' # <<>> /\ callStack'[1] = callStack[1]
      BY <1>2, <1>5, <2>2, PopElements, StackIndices
    <3> QED
      BY <1>1, <1>5, <3>1 DEF Committed
  <2> QED
    BY <2>1, <2>2
<1> QED
  BY <1>3, <1>4, <1>5, StepKinds

(* A published series keeps its total and a minted Zap stays, once no       *)
(* revert can undo them, at any depth of callbacks.                         *)
THEOREM SeriesStayCemented == Spec => SeriesCemented
<1>1. StepInv /\ [Next]_vars => [Extends(Committed, Committed')]_vars
  BY StepCements
<1> QED
  BY <1>1, AlwaysStepInv, PTL DEF Spec, SeriesCemented
------------------------------------------------------------------------------
(* A signature that passes recover was made by the account itself, for      *)
(* this digest.                                                             *)
LEMMA RecoversSigned ==
  ASSUME ConsistentAll, NEW account \in Address, NEW digest, NEW signature \in SignatureData,
         Recovers(digest, signature, account)
  PROVE  Signature(account, digest) \in signed
<1>1. signature # GARBAGE /\ signature \in signed
  BY DEF Recovers, Ecrecover, SignatureData
<1>2. signature.digest = digest /\ signature.signer = account
  BY <1>1, NobodyAssumption DEF Recovers, Ecrecover
<1>3. signature \in Signatures
  BY <1>1 DEF ConsistentAll, TypeOK
<1> QED
  BY <1>1, <1>2, <1>3 DEF Signatures, Signature

(* Each way to mint has the consent of the owner and of the zapper.         *)
LEMMA MintMessageConsents ==
  ASSUME ConsistentAll, NEW sender \in Accounts, MintMessage(sender)
  PROVE  \E publication \in Publications, serialNumber \in Bytes4 :
           /\ Mint(publication, serialNumber)
           /\ \A account \in {contractOwner, publication.zapper} :
                \/ msgSender' = account
                \/ Signature(account, Eip712HashZapMintIntent(publication, serialNumber)) \in signed
<1>1. sender \in Address /\ contractOwner \in Address /\ \A p \in Publications : p.zapper \in Address
  BY DEF ConsistentAll, Consistent, StorageTypeOK, Storage, Address, Publications
<1>2. ASSUME NEW ipfsHash \in IpfsHashes, NEW seriesTotal \in Bytes4, NEW serialNumber \in Bytes4,
             MintByOwnerForOwner(sender, ipfsHash, seriesTotal, serialNumber)
      PROVE  /\ SeriesPublication(ipfsHash, contractOwner, seriesTotal) \in Publications
             /\ SeriesPublication(ipfsHash, contractOwner, seriesTotal).zapper = contractOwner
             /\ Mint(SeriesPublication(ipfsHash, contractOwner, seriesTotal), serialNumber)
             /\ msgSender' = contractOwner
  BY <1>1, <1>2 DEF MintByOwnerForOwner, OnlyOwner, Message, SeriesPublication, Publications
<1>3. ASSUME NEW publication \in Publications, NEW serialNumber \in Bytes4,
             NEW signature \in SignatureData, MintByOwner(sender, publication, serialNumber, signature)
      PROVE  /\ Mint(publication, serialNumber)
             /\ msgSender' = contractOwner
             /\ Signature(publication.zapper, Eip712HashZapMintIntent(publication, serialNumber)) \in signed
  BY <1>1, <1>3, RecoversSigned DEF MintByOwner, OnlyOwner, Message
<1>4. ASSUME NEW ipfsHash \in IpfsHashes, NEW seriesTotal \in Bytes4, NEW serialNumber \in Bytes4,
             NEW signature \in SignatureData,
             MintByZapper(sender, ipfsHash, seriesTotal, serialNumber, signature)
      PROVE  LET publication == SeriesPublication(ipfsHash, sender, seriesTotal)
             IN  /\ publication \in Publications
                 /\ publication.zapper = sender
                 /\ Mint(publication, serialNumber)
                 /\ msgSender' = sender
                 /\ Signature(contractOwner, Eip712HashZapMintIntent(publication, serialNumber)) \in signed
  <2> DEFINE publication == SeriesPublication(ipfsHash, sender, seriesTotal)
  <2>1. publication \in Publications /\ publication.zapper = sender
    BY <1>1 DEF SeriesPublication, Publications
  <2>2. /\ Mint(publication, serialNumber)
        /\ msgSender' = sender
        /\ Recovers(Eip712HashZapMintIntent(publication, serialNumber), signature, contractOwner)
    BY <1>4 DEF MintByZapper, Message
  <2> HIDE DEF publication
  <2>3. Signature(contractOwner, Eip712HashZapMintIntent(publication, serialNumber)) \in signed
    BY <1>1, <2>2, RecoversSigned
  <2> QED
    BY <2>1, <2>2, <2>3 DEF publication
<1>5. ASSUME NEW publication \in Publications, NEW serialNumber \in Bytes4,
             NEW zapperSignature \in SignatureData, NEW ownerSignature \in SignatureData,
             MintBySignatures(sender, publication, serialNumber, zapperSignature, ownerSignature)
      PROVE  /\ Mint(publication, serialNumber)
             /\ Signature(publication.zapper, Eip712HashZapMintIntent(publication, serialNumber)) \in signed
             /\ Signature(contractOwner, Eip712HashZapMintIntent(publication, serialNumber)) \in signed
  BY <1>1, <1>5, RecoversSigned DEF MintBySignatures
<1>6. CASE \E ipfsHash \in IpfsHashes, seriesTotal, serialNumber \in Bytes4 :
             MintByOwnerForOwner(sender, ipfsHash, seriesTotal, serialNumber)
  BY <1>2, <1>6
<1>7. CASE \E signature \in SignatureData, publication \in Publications, serialNumber \in Bytes4 :
             MintByOwner(sender, publication, serialNumber, signature)
  BY <1>3, <1>7
<1>8. CASE \E signature \in SignatureData, ipfsHash \in IpfsHashes, seriesTotal, serialNumber \in Bytes4 :
             MintByZapper(sender, ipfsHash, seriesTotal, serialNumber, signature)
  BY <1>4, <1>8
<1>9. CASE \E zapperSignature, ownerSignature \in SignatureData,
              publication \in Publications, serialNumber \in Bytes4 :
             MintBySignatures(sender, publication, serialNumber, zapperSignature, ownerSignature)
  BY <1>5, <1>9
<1> QED
  BY <1>6, <1>7, <1>8, <1>9 DEF MintMessage

(* A revert takes tokens back but brings none: the storage it restores is   *)
(* extended by the current one.                                             *)
LEMMA OnlyMintsCreate ==
  ASSUME StepInv, [Next]_vars, NEW id \in DOMAIN tokenOwners' \ DOMAIN tokenOwners
  PROVE  \E sender \in Accounts : MintMessage(sender)
<1>1. ASSUME NEW sender \in Accounts,
             TransferMessage(sender) \/ SafeTransferMessage(sender)
      PROVE  DOMAIN tokenOwners' = DOMAIN tokenOwners
  BY <1>1 DEF TransferMessage, SafeTransferMessage, TransferFrom, MoveToken, IsApprovedOrOwner, Exists, SetTokenOwner
<1>2. ASSUME NEW sender \in Accounts, OwnershipMessage(sender) \/ ApprovalMessage(sender)
      PROVE  UNCHANGED tokenOwners
  BY <1>2 DEF OwnershipMessage, ApprovalMessage, Approve, SetApprovalForAll, erc721Vars
<1>3. CASE ReceiverRejects
  <2>1. Len(callStack) \in DOMAIN callStack
    BY <1>3, StackIndices DEF ReceiverRejects, StepInv
  <2>2. Extends(callStack[Len(callStack)], Storage)
    BY <2>1 DEF StepInv, Ordered
  <2>3. tokenOwners' = callStack[Len(callStack)].tokenOwners
    BY <1>3 DEF ReceiverRejects, Restore
  <2> QED
    BY <2>2, <2>3 DEF Extends, Storage
<1>4. CASE ReceiverAccepts \/ SignMintIntent \/ Fork \/ UNCHANGED vars
  BY <1>4 DEF ReceiverAccepts, SignMintIntent, Fork, vars, contractVars, erc721Vars
<1> QED
  BY <1>1, <1>2, <1>3, <1>4 DEF Next

LEMMA StepConsented ==
  ASSUME StepInv, [Next]_vars, NEW id \in DOMAIN tokenOwners' \ DOMAIN tokenOwners
  PROVE  /\ id.domain = BuildDomainSeparator(chainId)
         /\ tokenOwners'[id] = id.data.publication.zapper
         /\ Consents(contractOwner, id)
         /\ Consents(id.data.publication.zapper, id)
<1>1. PICK sender \in Accounts : MintMessage(sender)
  BY OnlyMintsCreate
<1>2. PICK publication \in Publications, serialNumber \in Bytes4 :
        /\ Mint(publication, serialNumber)
        /\ \A account \in {contractOwner, publication.zapper} :
             \/ msgSender' = account
             \/ Signature(account, Eip712HashZapMintIntent(publication, serialNumber)) \in signed
  BY <1>1, MintMessageConsents DEF StepInv
<1>3. /\ id = Eip712HashZapData(publication, serialNumber)
      /\ tokenOwners'[id] = publication.zapper
  BY <1>2 DEF Mint, MintToken, AddToken, SetTokenOwner
<1>4. /\ id.domain = DomainSeparatorV4
      /\ id.data.publication = publication
      /\ TypedDataHash(id.domain, "ZapMintIntent", id.data)
           = Eip712HashZapMintIntent(publication, serialNumber)
  BY <1>3 DEF Eip712HashZapData, Eip712HashZapMintIntent, HashTypedDataV4, TypedDataHash, Zap
<1>5. DomainSeparatorV4 = BuildDomainSeparator(chainId)
  BY DEF DomainSeparatorV4, CachedDomainSeparator
<1> QED
  BY <1>2, <1>3, <1>4, <1>5 DEF Consents

(* Nothing is minted without the consent of the zapper and of the owner at  *)
(* that moment, for this contract and the chain it runs on.                 *)
THEOREM MintsAlwaysConsented == Spec => MintNeedsConsent
<1>1. StepInv /\ [Next]_vars =>
        [\A id \in DOMAIN tokenOwners' \ DOMAIN tokenOwners :
           /\ id.domain = BuildDomainSeparator(chainId)
           /\ tokenOwners'[id] = id.data.publication.zapper
           /\ Consents(contractOwner, id)
           /\ Consents(id.data.publication.zapper, id)]_vars
  BY StepConsented
<1> QED
  BY <1>1, AlwaysStepInv, PTL DEF Spec, MintNeedsConsent
------------------------------------------------------------------------------
(* Answered calls are the only steps that shorten the stack.                *)
LEMMA StackShrinks ==
  ASSUME ConsistentAll, ReceiverAccepts \/ ReceiverRejects
  PROVE  Len(callStack') < Len(callStack)
<1>1. /\ callStack # <<>>
      /\ callStack' = SubSeq(callStack, 1, Len(callStack) - 1)
  BY DEF ReceiverAccepts, ReceiverRejects
<1> QED
  BY <1>1, PopElements, StackIndices

LEMMA StepTransfers ==
  ASSUME ConsistentAll, [Next]_vars, NEW id \in DOMAIN tokenOwners
  PROVE  \/ Len(callStack') < Len(callStack)
         \/ /\ id \in DOMAIN tokenOwners'
            /\ \/ tokenOwners'[id] = tokenOwners[id]
               \/ msgSender' \in {tokenOwners[id], tokenApprovals[id]}
               \/ <<tokenOwners[id], msgSender'>> \in operatorApprovals
<1>1. ASSUME NEW sender \in Accounts, NEW from, NEW to, NEW token,
             TransferFrom(sender, from, to, token)
      PROVE  /\ id \in DOMAIN tokenOwners'
             /\ \/ tokenOwners'[id] = tokenOwners[id]
                \/ msgSender' \in {tokenOwners[id], tokenApprovals[id]}
                \/ <<tokenOwners[id], msgSender'>> \in operatorApprovals
  <2>1. /\ DOMAIN tokenOwners' = DOMAIN tokenOwners
        /\ id # token => tokenOwners'[id] = tokenOwners[id]
    BY <1>1 DEF TransferFrom, MoveToken, IsApprovedOrOwner, Exists, SetTokenOwner
  <2>2. IsApprovedOrOwner(sender, token) /\ msgSender' = sender
    BY <1>1 DEF TransferFrom, MoveToken, Message
  <2> QED
    BY <2>1, <2>2 DEF IsApprovedOrOwner, IsApprovedForAll
<1>2. ASSUME NEW sender \in Accounts, TransferMessage(sender) \/ SafeTransferMessage(sender)
      PROVE  \E from, to, token : TransferFrom(sender, from, to, token)
  BY <1>2 DEF TransferMessage, SafeTransferMessage
<1>3. ASSUME NEW sender \in Accounts, MintMessage(sender)
      PROVE  id \in DOMAIN tokenOwners' /\ tokenOwners'[id] = tokenOwners[id]
  BY <1>3, MintMessageMints DEF Mint, MintToken, AddToken, SetTokenOwner, Exists
<1>4. ASSUME NEW sender \in Accounts, OwnershipMessage(sender) \/ ApprovalMessage(sender)
      PROVE  UNCHANGED tokenOwners
  BY <1>4 DEF OwnershipMessage, ApprovalMessage, Approve, SetApprovalForAll, erc721Vars
<1>5. CASE SignMintIntent \/ Fork \/ UNCHANGED vars
  BY <1>5 DEF SignMintIntent, Fork, vars, contractVars, erc721Vars
<1> QED
  BY <1>1, <1>2, <1>3, <1>4, <1>5, StackShrinks DEF Next

(* A token never changes hands behind its holder's back.                    *)
THEOREM TransfersAlwaysConsented == Spec => TransferNeedsConsent
<1>1. ConsistentAll /\ [Next]_vars =>
        [\A id \in DOMAIN tokenOwners :
           Len(callStack') < Len(callStack) \/
             /\ id \in DOMAIN tokenOwners'
             /\ \/ tokenOwners'[id] = tokenOwners[id]
                \/ msgSender' \in {tokenOwners[id], tokenApprovals[id]}
                \/ <<tokenOwners[id], msgSender'>> \in operatorApprovals]_vars
  BY StepTransfers
<1> QED
  BY <1>1, AlwaysConsistent, PTL DEF Spec, TransferNeedsConsent
------------------------------------------------------------------------------
LEMMA StepRenounced ==
  ASSUME StepInv, [Next]_vars, contractOwner = ZERO, Len(callStack') >= Len(callStack)
  PROVE  contractOwner' = ZERO /\ DOMAIN tokenOwners' = DOMAIN tokenOwners
<1> USE DEF StepInv
<1>1. \A sender \in Accounts : ~OnlyOwner(sender)
  BY AddressAssumption DEF OnlyOwner
<1>2. \A sender \in Accounts : ~MintMessage(sender)
  <2>1. \A digest, signature : ~Recovers(digest, signature, contractOwner)
    BY DEF Recovers
  <2> QED
    BY <1>1, <2>1 DEF MintMessage, MintByOwnerForOwner, MintByOwner, MintByZapper, MintBySignatures
<1>3. ~ReceiverAccepts /\ ~ReceiverRejects
  <2>1. Len(callStack) \in Nat
    BY StackIndices
  <2>2. ReceiverAccepts \/ ReceiverRejects => Len(callStack') = Len(callStack) - 1
    BY PopElements DEF ReceiverAccepts, ReceiverRejects
  <2> QED
    BY <2>1, <2>2
<1>4. UNCHANGED contractOwner
  BY <1>1, <1>2, <1>3 DEF Next, OwnershipMessage, RenounceOwnership, TransferOwnership, ApprovalMessage,
       TransferMessage, SafeTransferMessage, SignMintIntent, Fork, vars, contractVars
<1>5. \A id \in DOMAIN tokenOwners' : id \in DOMAIN tokenOwners
  BY <1>2, OnlyMintsCreate
<1>6. DOMAIN tokenOwners \subseteq DOMAIN tokenOwners'
  <2>1. Len(callStack) \in Nat /\ ~(Len(callStack') < Len(callStack))
    <3>1. Len(callStack) \in Nat
      BY StackIndices
    <3>2. UNCHANGED callStack \/ callStack' = Append(callStack, Storage)
      BY <1>3 DEF Next, OwnershipMessage, ApprovalMessage, TransferMessage, SafeTransferMessage,
           CallReceiver, MintMessage, SignMintIntent, Fork, vars, evmVars
    <3> QED
      BY <3>1, <3>2, PushElements
  <2> QED
    BY <2>1, StepTransfers
<1> QED
  BY <1>4, <1>5, <1>6

(* A contract without owner stays without, and mints nothing.               *)
THEOREM RenouncedIsForever == Spec => RenouncedForever
<1>1. StepInv /\ [Next]_vars =>
        [contractOwner = ZERO /\ Len(callStack') >= Len(callStack) =>
           contractOwner' = ZERO /\ DOMAIN tokenOwners' = DOMAIN tokenOwners]_vars
  BY StepRenounced
<1> QED
  BY <1>1, AlwaysStepInv, PTL DEF Spec, RenouncedForever
------------------------------------------------------------------------------
(* Numbers and bytes: a number is its last byte and the higher ones, so that *)
(* comparing byte by byte from the highest compares the numbers.            *)
LEMMA LastByte ==
  ASSUME NEW n \in Nat
  PROVE  /\ HigherBytes(n) \in Nat /\ n % ByteValues \in Nat /\ n % ByteValues < ByteValues
         /\ n = ByteValues * HigherBytes(n) + (n % ByteValues)
  BY ByteAssumption DEF HigherBytes

LEMMA BytesOrder ==
  ASSUME NEW m \in Nat, NEW n \in Nat
  PROVE  m < n <=> \/ HigherBytes(m) < HigherBytes(n)
                   \/ HigherBytes(m) = HigherBytes(n) /\ m % ByteValues < n % ByteValues
<1> DEFINE B == ByteValues
           p == HigherBytes(m)
           q == HigherBytes(n)
           r == m % ByteValues
           s == n % ByteValues
<1>1. /\ p \in Nat /\ q \in Nat /\ r \in Nat /\ s \in Nat /\ r < B /\ s < B /\ B \in Nat
      /\ m = B * p + r /\ n = B * q + s
  BY LastByte, ByteAssumption
<1> HIDE DEF B, p, q, r, s
<1>2. ASSUME NEW i \in Nat, NEW j \in Nat, i < j
      PROVE  B * i + B <= B * j
  <2>1. PICK k \in Nat : j = i + 1 + k
    <3>1. j - i - 1 \in Nat /\ j = i + 1 + (j - i - 1)
      BY <1>2
    <3> QED
      BY <3>1
  <2>2. B * j = B * i + B + B * k
    BY <2>1, <1>1
  <2>3. B * k \in Nat /\ B * i \in Nat
    BY <1>1
  <2> QED
    BY <2>2, <2>3, <1>1
<1>3. p < q => m < n
  <2> SUFFICES ASSUME p < q PROVE m < n
    OBVIOUS
  <2>1. B * p + B <= B * q /\ B * p \in Nat /\ B * q \in Nat
    BY <1>1, <1>2
  <2> QED
    BY <2>1, <1>1
<1>4. q < p => n < m
  <2> SUFFICES ASSUME q < p PROVE n < m
    OBVIOUS
  <2>1. B * q + B <= B * p /\ B * p \in Nat /\ B * q \in Nat
    BY <1>1, <1>2
  <2> QED
    BY <2>1, <1>1
<1>5. p = q => (m < n <=> r < s)
  <2> SUFFICES ASSUME p = q PROVE m < n <=> r < s
    OBVIOUS
  <2>1. B * p \in Nat /\ m = B * p + r /\ n = B * p + s
    BY <1>1
  <2> QED
    BY <2>1, <1>1
<1>6. m < n <=> (p < q \/ (p = q /\ r < s))
  BY <1>1, <1>3, <1>4, <1>5
<1> QED
  BY <1>6 DEF p, q, r, s

(* Nothing is left above the highest of four bytes.                         *)
LEMMA FirstByte ==
  ASSUME NEW n \in Bytes4
  PROVE  LET t == HigherBytes(HigherBytes(HigherBytes(n)))
         IN  t \in Nat /\ t % ByteValues = t
<1> DEFINE B == ByteValues
           a == HigherBytes(n)
           b == HigherBytes(a)
           t == HigherBytes(b)
<1>1. n \in Nat /\ B \in Nat /\ n < B * B * B * B /\ n <= MaxBytes4
  BY ByteAssumption, Bytes4Assumption DEF Bytes4
<1>2. a \in Nat /\ b \in Nat /\ t \in Nat
  BY <1>1, LastByte
<1>3. B * a <= n /\ B * b <= a /\ B * t <= b
  <2>1. ASSUME NEW k \in Nat PROVE B * HigherBytes(k) <= k
    <3>1. k % B \in Nat /\ HigherBytes(k) \in Nat /\ k = B * HigherBytes(k) + (k % B)
      BY LastByte
    <3>2. B * HigherBytes(k) \in Nat
      BY <1>1, <3>1
    <3> QED
      BY <3>1, <3>2
  <2> QED
    BY <1>1, <1>2, <2>1
<1> HIDE DEF B, a, b, t
<1>4. ASSUME NEW i \in Nat, NEW j \in Nat, i <= j
      PROVE  B * i <= B * j
  <2>1. PICK k \in Nat : j = i + k
    <3>1. j - i \in Nat /\ j = i + (j - i)
      BY <1>4
    <3> QED
      BY <3>1
  <2>2. B * j = B * i + B * k /\ B * k \in Nat /\ B * i \in Nat
    BY <2>1, <1>1
  <2> QED
    BY <2>2
<1>5. B * (B * (B * t)) <= n
  <2>1. B * t \in Nat /\ B * (B * t) \in Nat /\ B * (B * (B * t)) \in Nat /\ B * b \in Nat /\ B * (B * b) \in Nat /\ B * a \in Nat
    BY <1>1, <1>2
  <2>2. B * (B * t) <= B * b
    BY <2>1, <1>2, <1>3, <1>4
  <2>3. B * (B * (B * t)) <= B * (B * b)
    BY <2>1, <2>2, <1>4
  <2>4. B * (B * b) <= B * a
    BY <2>1, <1>2, <1>3, <1>4
  <2> QED
    BY <2>1, <2>3, <2>4, <1>1, <1>3
<1>6. t < B
  <2> SUFFICES ASSUME B <= t PROVE FALSE
    BY <1>1, <1>2
  <2>1. B * B \in Nat /\ B * (B * B) \in Nat /\ B * (B * (B * B)) \in Nat
        /\ B * t \in Nat /\ B * (B * t) \in Nat /\ B * (B * (B * t)) \in Nat
    BY <1>1, <1>2
  <2>2. B * B <= B * t
    BY <1>1, <1>2, <1>4
  <2>3. B * (B * B) <= B * (B * t)
    BY <2>1, <2>2, <1>4
  <2>4. B * (B * (B * B)) <= B * (B * (B * t))
    BY <2>1, <2>3, <1>4
  <2>5. B * B * B * B = B * (B * (B * B))
    BY <1>1
  <2> QED
    BY <2>1, <2>4, <2>5, <1>1, <1>5
<1>7. t % B = t
  BY <1>1, <1>2, <1>6
<1> QED
  BY <1>2, <1>7 DEF t, b, a, B

LEMMA BytesOrdered ==
  ASSUME NEW m \in Bytes4, NEW n \in Bytes4
  PROVE  Bytes4Less(Bytes4ify(m), Bytes4ify(n)) <=> m < n
<1> DEFINE B == ByteValues
           a == HigherBytes(m)
           b == HigherBytes(a)
           t == HigherBytes(b)
           c == HigherBytes(n)
           d == HigherBytes(c)
           u == HigherBytes(d)
           x == Bytes4ify(m)
           y == Bytes4ify(n)
<1>1. m \in Nat /\ n \in Nat
  BY DEF Bytes4
<1>2. /\ a \in Nat /\ b \in Nat /\ t \in Nat /\ c \in Nat /\ d \in Nat /\ u \in Nat
  BY <1>1, LastByte
<1>3. /\ m < n <=> (a < c \/ (a = c /\ m % B < n % B))
      /\ a < c <=> (b < d \/ (b = d /\ a % B < c % B))
      /\ b < d <=> (t < u \/ (t = u /\ b % B < d % B))
  BY <1>1, <1>2, BytesOrder
<1>4. t % B = t /\ u % B = u
  BY FirstByte
<1>5. /\ x[1] = t % B /\ x[2] = b % B /\ x[3] = a % B /\ x[4] = m % B
      /\ y[1] = u % B /\ y[2] = d % B /\ y[3] = c % B /\ y[4] = n % B
  BY DEF Bytes4ify
<1>6. /\ a = B * b + (a % B) /\ c = B * d + (c % B)
      /\ b = B * t + (b % B) /\ d = B * u + (d % B)
  BY <1>2, LastByte
<1>7. /\ b = d <=> (t = u /\ b % B = d % B)
      /\ a = c <=> (b = d /\ a % B = c % B)
  BY <1>6
<1>8. Bytes4Less(x, y) <=>
        \/ x[1] < y[1]
        \/ x[2] < y[2] /\ x[1] = y[1]
        \/ x[3] < y[3] /\ x[1] = y[1] /\ x[2] = y[2]
        \/ x[4] < y[4] /\ x[1] = y[1] /\ x[2] = y[2] /\ x[3] = y[3]
  <2> HIDE DEF x, y
  <2>1. /\ 1 .. 4 = {1, 2, 3, 4} /\ 1 .. 1 - 1 = {} /\ 1 .. 2 - 1 = {1} /\ 1 .. 3 - 1 = {1, 2} /\ 1 .. 4 - 1 = {1, 2, 3}
    OBVIOUS
  <2> QED
    BY <2>1 DEF Bytes4Less
<1> HIDE DEF a, b, t, c, d, u, x, y, B
<1> QED
  BY <1>3, <1>4, <1>5, <1>7, <1>8 DEF x, y

LEMMA BytesDistinct ==
  ASSUME NEW m \in Bytes4, NEW n \in Bytes4, Bytes4ify(m) = Bytes4ify(n)
  PROVE  m = n
<1>1. ~(m < n) /\ ~(n < m)
  <2>1. ~Bytes4Less(Bytes4ify(m), Bytes4ify(m)) 
    BY BytesOrdered, Bytes4Assumption DEF Bytes4
  <2> QED
    BY <2>1, BytesOrdered, Bytes4Assumption DEF Bytes4
<1> QED
  BY <1>1 DEF Bytes4

------------------------------------------------------------------------------
(* Words                                                                    *)

LEMMA TupleOfTwo ==
  ASSUME NEW f, f = [i \in 1 .. 2 |-> f[i]]
  PROVE  f = <<f[1], f[2]>>
<1> DEFINE u == <<f[1], f[2]>>
<1>1. u = [i \in 1 .. 2 |-> u[i]]
  OBVIOUS
<1>2. u[1] = f[1] /\ u[2] = f[2]
  OBVIOUS
<1> HIDE DEF u
<1>3. \A i \in 1 .. 2 : f[i] = u[i]
  <2>1. 1 .. 2 = {1, 2}
    OBVIOUS
  <2> QED
    BY <2>1, <1>2
<1>4. f = u
  BY <1>1, <1>3
<1> QED
  BY <1>4 DEF u

LEMMA TupleOfThree ==
  ASSUME NEW f, f = [i \in 1 .. 3 |-> f[i]]
  PROVE  f = <<f[1], f[2], f[3]>>
<1> DEFINE u == <<f[1], f[2], f[3]>>
<1>1. u = [i \in 1 .. 3 |-> u[i]]
  OBVIOUS
<1>2. u[1] = f[1] /\ u[2] = f[2] /\ u[3] = f[3]
  OBVIOUS
<1> HIDE DEF u
<1>3. \A i \in 1 .. 3 : f[i] = u[i]
  <2>1. 1 .. 3 = {1, 2, 3}
    OBVIOUS
  <2> QED
    BY <2>1, <1>2
<1>4. f = u
  BY <1>1, <1>3
<1> QED
  BY <1>4 DEF u

LEMMA TupleOfFour ==
  ASSUME NEW f, f = [i \in 1 .. 4 |-> f[i]]
  PROVE  f = <<f[1], f[2], f[3], f[4]>>
<1> DEFINE u == <<f[1], f[2], f[3], f[4]>>
<1>1. u = [i \in 1 .. 4 |-> u[i]]
  OBVIOUS
<1>2. u[1] = f[1] /\ u[2] = f[2] /\ u[3] = f[3] /\ u[4] = f[4]
  OBVIOUS
<1> HIDE DEF u
<1>3. \A i \in 1 .. 4 : f[i] = u[i]
  <2>1. 1 .. 4 = {1, 2, 3, 4}
    OBVIOUS
  <2> QED
    BY <2>1, <1>2
<1>4. f = u
  BY <1>1, <1>3
<1> QED
  BY <1>4 DEF u

LEMMA TupleOfFive ==
  ASSUME NEW f, f = [i \in 1 .. 5 |-> f[i]]
  PROVE  f = <<f[1], f[2], f[3], f[4], f[5]>>
<1> DEFINE u == <<f[1], f[2], f[3], f[4], f[5]>>
<1>1. u = [i \in 1 .. 5 |-> u[i]]
  OBVIOUS
<1>2. u[1] = f[1] /\ u[2] = f[2] /\ u[3] = f[3] /\ u[4] = f[4] /\ u[5] = f[5]
  OBVIOUS
<1> HIDE DEF u
<1>3. \A i \in 1 .. 5 : f[i] = u[i]
  <2>1. 1 .. 5 = {1, 2, 3, 4, 5}
    OBVIOUS
  <2> QED
    BY <2>1, <1>2
<1>4. f = u
  BY <1>1, <1>3
<1> QED
  BY <1>4 DEF u

LEMMA OneAndTwo ==
  ASSUME NEW a, NEW b, NEW c
  PROVE  <<a>> \o <<b, c>> = <<a, b, c>>
<1> DEFINE s == <<a>>
           t == <<b, c>>
           u == <<a, b, c>>
<1>1. Len(s) = 1 /\ Len(t) = 2
  OBVIOUS
<1>2. s[1] = a /\ t[1] = b /\ t[2] = c
  OBVIOUS
<1>3. u[1] = a /\ u[2] = b /\ u[3] = c
  OBVIOUS
<1>4. s \o t = [i \in 1 .. 3 |-> IF i <= 1 THEN s[i] ELSE t[i - 1]]
  BY <1>1
<1>5. u = [i \in 1 .. 3 |-> u[i]]
  OBVIOUS
<1> HIDE DEF s, t, u
<1>6. \A i \in 1 .. 3 : (IF i <= 1 THEN s[i] ELSE t[i - 1]) = u[i]
  <2>1. 1 .. 3 = {1, 2, 3}
    OBVIOUS
  <2> QED
    BY <2>1, <1>2, <1>3
<1>7. s \o t = u
  BY <1>4, <1>5, <1>6
<1> QED
  BY <1>7 DEF s, t, u

LEMMA TwoAndOne ==
  ASSUME NEW a, NEW b, NEW c
  PROVE  <<a, b>> \o <<c>> = <<a, b, c>>
<1> DEFINE s == <<a, b>>
           t == <<c>>
           u == <<a, b, c>>
<1>1. Len(s) = 2 /\ Len(t) = 1
  OBVIOUS
<1>2. s[1] = a /\ s[2] = b /\ t[1] = c
  OBVIOUS
<1>3. u[1] = a /\ u[2] = b /\ u[3] = c
  OBVIOUS
<1>4. s \o t = [i \in 1 .. 3 |-> IF i <= 2 THEN s[i] ELSE t[i - 2]]
  BY <1>1
<1>5. u = [i \in 1 .. 3 |-> u[i]]
  OBVIOUS
<1> HIDE DEF s, t, u
<1>6. \A i \in 1 .. 3 : (IF i <= 2 THEN s[i] ELSE t[i - 2]) = u[i]
  <2>1. 1 .. 3 = {1, 2, 3}
    OBVIOUS
  <2> QED
    BY <2>1, <1>2, <1>3
<1>7. s \o t = u
  BY <1>4, <1>5, <1>6
<1> QED
  BY <1>7 DEF s, t, u

LEMMA OneAndThree ==
  ASSUME NEW a, NEW b, NEW c, NEW d
  PROVE  <<a>> \o <<b, c, d>> = <<a, b, c, d>>
<1> DEFINE s == <<a>>
           t == <<b, c, d>>
           u == <<a, b, c, d>>
<1>1. Len(s) = 1 /\ Len(t) = 3
  OBVIOUS
<1>2. s[1] = a /\ t[1] = b /\ t[2] = c /\ t[3] = d
  OBVIOUS
<1>3. u[1] = a /\ u[2] = b /\ u[3] = c /\ u[4] = d
  OBVIOUS
<1>4. s \o t = [i \in 1 .. 4 |-> IF i <= 1 THEN s[i] ELSE t[i - 1]]
  BY <1>1
<1>5. u = [i \in 1 .. 4 |-> u[i]]
  OBVIOUS
<1> HIDE DEF s, t, u
<1>6. \A i \in 1 .. 4 : (IF i <= 1 THEN s[i] ELSE t[i - 1]) = u[i]
  <2>1. 1 .. 4 = {1, 2, 3, 4}
    OBVIOUS
  <2> QED
    BY <2>1, <1>2, <1>3
<1>7. s \o t = u
  BY <1>4, <1>5, <1>6
<1> QED
  BY <1>7 DEF s, t, u

LEMMA ThreeAndOne ==
  ASSUME NEW a, NEW b, NEW c, NEW d
  PROVE  <<a, b, c>> \o <<d>> = <<a, b, c, d>>
<1> DEFINE s == <<a, b, c>>
           t == <<d>>
           u == <<a, b, c, d>>
<1>1. Len(s) = 3 /\ Len(t) = 1
  OBVIOUS
<1>2. s[1] = a /\ s[2] = b /\ s[3] = c /\ t[1] = d
  OBVIOUS
<1>3. u[1] = a /\ u[2] = b /\ u[3] = c /\ u[4] = d
  OBVIOUS
<1>4. s \o t = [i \in 1 .. 4 |-> IF i <= 3 THEN s[i] ELSE t[i - 3]]
  BY <1>1
<1>5. u = [i \in 1 .. 4 |-> u[i]]
  OBVIOUS
<1> HIDE DEF s, t, u
<1>6. \A i \in 1 .. 4 : (IF i <= 3 THEN s[i] ELSE t[i - 3]) = u[i]
  <2>1. 1 .. 4 = {1, 2, 3, 4}
    OBVIOUS
  <2> QED
    BY <2>1, <1>2, <1>3
<1>7. s \o t = u
  BY <1>4, <1>5, <1>6
<1> QED
  BY <1>7 DEF s, t, u

LEMMA FourAndOne ==
  ASSUME NEW a, NEW b, NEW c, NEW d, NEW e
  PROVE  <<a, b, c, d>> \o <<e>> = <<a, b, c, d, e>>
<1> DEFINE s == <<a, b, c, d>>
           t == <<e>>
           u == <<a, b, c, d, e>>
<1>1. Len(s) = 4 /\ Len(t) = 1
  OBVIOUS
<1>2. s[1] = a /\ s[2] = b /\ s[3] = c /\ s[4] = d /\ t[1] = e
  OBVIOUS
<1>3. u[1] = a /\ u[2] = b /\ u[3] = c /\ u[4] = d /\ u[5] = e
  OBVIOUS
<1>4. s \o t = [i \in 1 .. 5 |-> IF i <= 4 THEN s[i] ELSE t[i - 4]]
  BY <1>1
<1>5. u = [i \in 1 .. 5 |-> u[i]]
  OBVIOUS
<1> HIDE DEF s, t, u
<1>6. \A i \in 1 .. 5 : (IF i <= 4 THEN s[i] ELSE t[i - 4]) = u[i]
  <2>1. 1 .. 5 = {1, 2, 3, 4, 5}
    OBVIOUS
  <2> QED
    BY <2>1, <1>2, <1>3
<1>7. s \o t = u
  BY <1>4, <1>5, <1>6
<1> QED
  BY <1>7 DEF s, t, u

LEMMA OneAndFour ==
  ASSUME NEW a, NEW b, NEW c, NEW d, NEW e
  PROVE  <<a>> \o <<b, c, d, e>> = <<a, b, c, d, e>>
<1> DEFINE s == <<a>>
           t == <<b, c, d, e>>
           u == <<a, b, c, d, e>>
<1>1. Len(s) = 1 /\ Len(t) = 4
  OBVIOUS
<1>2. s[1] = a /\ t[1] = b /\ t[2] = c /\ t[3] = d /\ t[4] = e
  OBVIOUS
<1>3. u[1] = a /\ u[2] = b /\ u[3] = c /\ u[4] = d /\ u[5] = e
  OBVIOUS
<1>4. s \o t = [i \in 1 .. 5 |-> IF i <= 1 THEN s[i] ELSE t[i - 1]]
  BY <1>1
<1>5. u = [i \in 1 .. 5 |-> u[i]]
  OBVIOUS
<1> HIDE DEF s, t, u
<1>6. \A i \in 1 .. 5 : (IF i <= 1 THEN s[i] ELSE t[i - 1]) = u[i]
  <2>1. 1 .. 5 = {1, 2, 3, 4, 5}
    OBVIOUS
  <2> QED
    BY <2>1, <1>2, <1>3
<1>7. s \o t = u
  BY <1>4, <1>5, <1>6
<1> QED
  BY <1>7 DEF s, t, u

LEMMA TwoAndThree ==
  ASSUME NEW a, NEW b, NEW c, NEW d, NEW e
  PROVE  <<a, b>> \o <<c, d, e>> = <<a, b, c, d, e>>
<1> DEFINE s == <<a, b>>
           t == <<c, d, e>>
           u == <<a, b, c, d, e>>
<1>1. Len(s) = 2 /\ Len(t) = 3
  OBVIOUS
<1>2. s[1] = a /\ s[2] = b /\ t[1] = c /\ t[2] = d /\ t[3] = e
  OBVIOUS
<1>3. u[1] = a /\ u[2] = b /\ u[3] = c /\ u[4] = d /\ u[5] = e
  OBVIOUS
<1>4. s \o t = [i \in 1 .. 5 |-> IF i <= 2 THEN s[i] ELSE t[i - 2]]
  BY <1>1
<1>5. u = [i \in 1 .. 5 |-> u[i]]
  OBVIOUS
<1> HIDE DEF s, t, u
<1>6. \A i \in 1 .. 5 : (IF i <= 2 THEN s[i] ELSE t[i - 2]) = u[i]
  <2>1. 1 .. 5 = {1, 2, 3, 4, 5}
    OBVIOUS
  <2> QED
    BY <2>1, <1>2, <1>3
<1>7. s \o t = u
  BY <1>4, <1>5, <1>6
<1> QED
  BY <1>7 DEF s, t, u

LEMMA FiveAndOne ==
  ASSUME NEW a, NEW b, NEW c, NEW d, NEW e, NEW g
  PROVE  <<a, b, c, d, e>> \o <<g>> = <<a, b, c, d, e, g>>
<1> DEFINE s == <<a, b, c, d, e>>
           t == <<g>>
           u == <<a, b, c, d, e, g>>
<1>1. Len(s) = 5 /\ Len(t) = 1
  OBVIOUS
<1>2. s[1] = a /\ s[2] = b /\ s[3] = c /\ s[4] = d /\ s[5] = e /\ t[1] = g
  OBVIOUS
<1>3. u[1] = a /\ u[2] = b /\ u[3] = c /\ u[4] = d /\ u[5] = e /\ u[6] = g
  OBVIOUS
<1>4. s \o t = [i \in 1 .. 6 |-> IF i <= 5 THEN s[i] ELSE t[i - 5]]
  BY <1>1
<1>5. u = [i \in 1 .. 6 |-> u[i]]
  OBVIOUS
<1> HIDE DEF s, t, u
<1>6. \A i \in 1 .. 6 : (IF i <= 5 THEN s[i] ELSE t[i - 5]) = u[i]
  <2>1. 1 .. 6 = {1, 2, 3, 4, 5, 6}
    OBVIOUS
  <2> QED
    BY <2>1, <1>2, <1>3
<1>7. s \o t = u
  BY <1>4, <1>5, <1>6
<1> QED
  BY <1>7 DEF s, t, u

LEMMA OneAndFive ==
  ASSUME NEW a, NEW b, NEW c, NEW d, NEW e, NEW g
  PROVE  <<a>> \o <<b, c, d, e, g>> = <<a, b, c, d, e, g>>
<1> DEFINE s == <<a>>
           t == <<b, c, d, e, g>>
           u == <<a, b, c, d, e, g>>
<1>1. Len(s) = 1 /\ Len(t) = 5
  OBVIOUS
<1>2. s[1] = a /\ t[1] = b /\ t[2] = c /\ t[3] = d /\ t[4] = e /\ t[5] = g
  OBVIOUS
<1>3. u[1] = a /\ u[2] = b /\ u[3] = c /\ u[4] = d /\ u[5] = e /\ u[6] = g
  OBVIOUS
<1>4. s \o t = [i \in 1 .. 6 |-> IF i <= 1 THEN s[i] ELSE t[i - 1]]
  BY <1>1
<1>5. u = [i \in 1 .. 6 |-> u[i]]
  OBVIOUS
<1> HIDE DEF s, t, u
<1>6. \A i \in 1 .. 6 : (IF i <= 1 THEN s[i] ELSE t[i - 1]) = u[i]
  <2>1. 1 .. 6 = {1, 2, 3, 4, 5, 6}
    OBVIOUS
  <2> QED
    BY <2>1, <1>2, <1>3
<1>7. s \o t = u
  BY <1>4, <1>5, <1>6
<1> QED
  BY <1>7 DEF s, t, u

LEMMA AppendThird == ASSUME NEW a, NEW b, NEW c PROVE Append(<<a, b>>, c) = <<a, b, c>>
<1>1. Append(<<a, b>>, c) = <<a, b>> \o <<c>>
  OBVIOUS
<1> QED
  BY <1>1, TwoAndOne

LEMMA AppendFourth == ASSUME NEW a, NEW b, NEW c, NEW d PROVE Append(<<a, b, c>>, d) = <<a, b, c, d>>
<1>1. Append(<<a, b, c>>, d) = <<a, b, c>> \o <<d>>
  OBVIOUS
<1> QED
  BY <1>1, ThreeAndOne

LEMMA FieldsOf ==
  /\ SeriesFingerprintFields = <<Field("bytes32", "ipfsHash"), Field("address", "zapper")>>
  /\ SeriesPublicationFields =
       <<Field("bytes32", "ipfsHash"), Field("address", "zapper"), Field("bytes4", "seriesTotal")>>
  /\ ZapDataFields =
       <<Field("bytes32", "ipfsHash"), Field("address", "zapper"),
         Field("bytes4", "seriesTotal"), Field("bytes4", "serialNumber")>>
  /\ ZapMintIntentFields =
       <<Field("string", "mintIntent"), Field("bytes32", "ipfsHash"), Field("address", "zapper"),
         Field("bytes4", "seriesTotal"), Field("bytes4", "serialNumber")>>
<1>1. SeriesFingerprintFields = <<Field("bytes32", "ipfsHash"), Field("address", "zapper")>>
  BY DEF SeriesFingerprintFields
<1>2. SeriesPublicationFields =
        <<Field("bytes32", "ipfsHash"), Field("address", "zapper"), Field("bytes4", "seriesTotal")>>
  BY <1>1, AppendThird DEF SeriesPublicationFields
<1>3. ZapDataFields =
        <<Field("bytes32", "ipfsHash"), Field("address", "zapper"),
          Field("bytes4", "seriesTotal"), Field("bytes4", "serialNumber")>>
  BY <1>2, AppendFourth DEF ZapDataFields
<1>4. ZapMintIntentFields =
        <<Field("string", "mintIntent"), Field("bytes32", "ipfsHash"), Field("address", "zapper"),
          Field("bytes4", "seriesTotal"), Field("bytes4", "serialNumber")>>
  BY <1>3, OneAndFour DEF ZapMintIntentFields
<1> QED
  BY <1>1, <1>2, <1>3, <1>4

(* What the contract hashes, word by word.                                  *)
LEMMA AbiWords ==
  ASSUME NEW digest
  PROVE  /\ digest.type = "ZapMintIntent" =>
              AbiStruct(digest) =
                <<Keccak256(ZAP_MINT_INTENT_TYPE), Keccak256(MINT_INTENT_STATEMENT),
                  digest.data.publication.ipfsHash, PadLeft(digest.data.publication.zapper),
                  PadRight(Bytes4ify(digest.data.publication.seriesTotal)),
                  PadRight(Bytes4ify(digest.data.serialNumber))>>
         /\ digest.type = "ZapData" =>
              AbiStruct(digest) =
                <<Keccak256(ZAP_DATA_TYPE),
                  digest.data.publication.ipfsHash, PadLeft(digest.data.publication.zapper),
                  PadRight(Bytes4ify(digest.data.publication.seriesTotal)),
                  PadRight(Bytes4ify(digest.data.serialNumber))>>
         /\ digest.type = "SeriesPublication" =>
              AbiStruct(digest) =
                <<Keccak256(SERIES_PUBLICATION_TYPE),
                  digest.data.ipfsHash, PadLeft(digest.data.zapper),
                  PadRight(Bytes4ify(digest.data.seriesTotal))>>
         /\ digest.type = "SeriesFingerprint" =>
              AbiStruct(digest) =
                <<Keccak256(SERIES_FINGERPRINT_TYPE),
                  digest.data.ipfsHash, PadLeft(digest.data.zapper)>>
<1>1. ASSUME NEW x
      PROVE  AbiPublication(x) = <<x.ipfsHash, PadLeft(x.zapper), PadRight(Bytes4ify(x.seriesTotal))>>
  BY TwoAndOne DEF AbiPublication, AbiFingerprint
<1>2. ASSUME digest.type = "ZapMintIntent"
      PROVE  AbiStruct(digest) =
                <<Keccak256(ZAP_MINT_INTENT_TYPE), Keccak256(MINT_INTENT_STATEMENT),
                  digest.data.publication.ipfsHash, PadLeft(digest.data.publication.zapper),
                  PadRight(Bytes4ify(digest.data.publication.seriesTotal)),
                  PadRight(Bytes4ify(digest.data.serialNumber))>>
  <2> DEFINE z == digest.data
             x == z.publication
  <2>1. AbiStruct(digest) =
          <<Keccak256(ZAP_MINT_INTENT_TYPE), Keccak256(MINT_INTENT_STATEMENT)>> \o AbiPublication(x)
            \o AbiSerialNumber(z)
    BY <1>2 DEF AbiStruct
  <2>2. AbiSerialNumber(z) = <<PadRight(Bytes4ify(z.serialNumber))>>
    BY DEF AbiSerialNumber
  <2>3. AbiStruct(digest) =
          <<Keccak256(ZAP_MINT_INTENT_TYPE), Keccak256(MINT_INTENT_STATEMENT),
            x.ipfsHash, PadLeft(x.zapper), PadRight(Bytes4ify(x.seriesTotal)),
            PadRight(Bytes4ify(z.serialNumber))>>
    <3>1. AbiPublication(x) = <<x.ipfsHash, PadLeft(x.zapper), PadRight(Bytes4ify(x.seriesTotal))>>
      BY <1>1
    <3> HIDE DEF x, z
    <3>2. <<Keccak256(ZAP_MINT_INTENT_TYPE), Keccak256(MINT_INTENT_STATEMENT)>> \o AbiPublication(x) =
            <<Keccak256(ZAP_MINT_INTENT_TYPE), Keccak256(MINT_INTENT_STATEMENT),
              x.ipfsHash, PadLeft(x.zapper), PadRight(Bytes4ify(x.seriesTotal))>>
      BY <3>1, TwoAndThree
    <3> QED
      BY <2>1, <2>2, <3>2, FiveAndOne
  <2> QED
    BY <2>3
<1>3. ASSUME digest.type = "ZapData"
      PROVE  AbiStruct(digest) =
                <<Keccak256(ZAP_DATA_TYPE),
                  digest.data.publication.ipfsHash, PadLeft(digest.data.publication.zapper),
                  PadRight(Bytes4ify(digest.data.publication.seriesTotal)),
                  PadRight(Bytes4ify(digest.data.serialNumber))>>
  <2> DEFINE z == digest.data
             x == z.publication
  <2>1. AbiStruct(digest) = <<Keccak256(ZAP_DATA_TYPE)>> \o AbiPublication(x) \o AbiSerialNumber(z)
    BY <1>3 DEF AbiStruct
  <2>2. AbiSerialNumber(z) = <<PadRight(Bytes4ify(z.serialNumber))>>
    BY DEF AbiSerialNumber
  <2>3. AbiStruct(digest) =
          <<Keccak256(ZAP_DATA_TYPE),
            x.ipfsHash, PadLeft(x.zapper), PadRight(Bytes4ify(x.seriesTotal)),
            PadRight(Bytes4ify(z.serialNumber))>>
    <3>1. AbiPublication(x) = <<x.ipfsHash, PadLeft(x.zapper), PadRight(Bytes4ify(x.seriesTotal))>>
      BY <1>1
    <3> HIDE DEF x, z
    <3>2. <<Keccak256(ZAP_DATA_TYPE)>> \o AbiPublication(x) =
            <<Keccak256(ZAP_DATA_TYPE), x.ipfsHash, PadLeft(x.zapper), PadRight(Bytes4ify(x.seriesTotal))>>
      BY <3>1, OneAndThree
    <3> QED
      BY <2>1, <2>2, <3>2, FourAndOne
  <2> QED
    BY <2>3
<1>4. ASSUME digest.type = "SeriesPublication"
      PROVE  AbiStruct(digest) =
                <<Keccak256(SERIES_PUBLICATION_TYPE),
                  digest.data.ipfsHash, PadLeft(digest.data.zapper),
                  PadRight(Bytes4ify(digest.data.seriesTotal))>>
  <2>1. AbiStruct(digest) = <<Keccak256(SERIES_PUBLICATION_TYPE)>> \o AbiPublication(digest.data)
    BY <1>4 DEF AbiStruct
  <2>2. AbiPublication(digest.data) =
          <<digest.data.ipfsHash, PadLeft(digest.data.zapper), PadRight(Bytes4ify(digest.data.seriesTotal))>>
    BY <1>1
  <2> QED
    BY <2>1, <2>2, OneAndThree
<1>5. ASSUME digest.type = "SeriesFingerprint"
      PROVE  AbiStruct(digest) =
                <<Keccak256(SERIES_FINGERPRINT_TYPE),
                  digest.data.ipfsHash, PadLeft(digest.data.zapper)>>
  <2>1. AbiStruct(digest) = <<Keccak256(SERIES_FINGERPRINT_TYPE)>> \o AbiFingerprint(digest.data)
    BY <1>5 DEF AbiStruct
  <2>2. AbiFingerprint(digest.data) = <<digest.data.ipfsHash, PadLeft(digest.data.zapper)>>
    BY DEF AbiFingerprint
  <2> QED
    BY <2>1, <2>2, OneAndTwo
<1> QED
  BY <1>2, <1>3, <1>4, <1>5

(* What the client hashes, word by word.                                    *)
LEMMA DomainHash ==
  ASSUME NEW domain
  PROVE  /\ HashStruct("EIP712Domain", EIP712Domain, domain) = Keccak256(AbiDomain(domain))
         /\ AbiDomain(domain) = <<Keccak256(DOMAIN_TYPE), Keccak256(domain.name), Keccak256(domain.version),
                                  PadLeft(domain.chainId), PadLeft(domain.verifyingContract)>>
<1> DEFINE f == [i \in DOMAIN EIP712Domain |-> FieldWord(EIP712Domain[i].type, domain[EIP712Domain[i].name])]
<1>1. /\ DOMAIN EIP712Domain = 1 .. 4
      /\ EIP712Domain[1] = Field("string", "name") /\ EIP712Domain[2] = Field("string", "version")
      /\ EIP712Domain[3] = Field("uint256", "chainId") /\ EIP712Domain[4] = Field("address", "verifyingContract")
  BY DEF EIP712Domain
<1>2. f = [i \in 1 .. 4 |-> f[i]]
  BY <1>1
<1>3. f[1] = Keccak256(domain.name) /\ f[2] = Keccak256(domain.version)
  BY <1>1 DEF FieldWord, Field
<1>4. f[3] = PadLeft(domain.chainId) /\ f[4] = PadLeft(domain.verifyingContract)
  BY <1>1 DEF FieldWord, Field
<1>5. HashStruct("EIP712Domain", EIP712Domain, domain) =
        Keccak256(<<Keccak256(<<"EIP712Domain", EIP712Domain>>)>> \o f)
  BY DEF HashStruct
<1>6. f = <<f[1], f[2], f[3], f[4]>>
  <2> HIDE DEF f
  <2> QED
    BY <1>2, TupleOfFour
<1>7. <<"EIP712Domain", EIP712Domain>> = DOMAIN_TYPE
  BY DEF EIP712Domain, DOMAIN_TYPE
<1> HIDE DEF f
<1>8. <<Keccak256(DOMAIN_TYPE)>> \o f = <<Keccak256(DOMAIN_TYPE), f[1], f[2], f[3], f[4]>>
  BY <1>6, OneAndFour
<1> QED
  BY <1>3, <1>4, <1>5, <1>7, <1>8 DEF AbiDomain

LEMMA StructHash ==
  ASSUME NEW digest,
         digest.type \in {"ZapMintIntent", "ZapData", "SeriesPublication", "SeriesFingerprint"}
  PROVE  ClientHash(digest) =
           Keccak256(<<HashStruct("EIP712Domain", EIP712Domain, digest.domain), Keccak256(AbiStruct(digest))>>)
<1>1. CASE digest.type = "SeriesFingerprint"
  <2> DEFINE m == digest.data
             fields == SeriesFingerprintFields
             f == [i \in DOMAIN fields |-> FieldWord(fields[i].type, m[fields[i].name])]
  <2>1. DOMAIN fields = 1 .. 2 /\ fields[1] = Field("bytes32", "ipfsHash") /\ fields[2] = Field("address", "zapper")
    BY FieldsOf
  <2>2. f = [i \in 1 .. 2 |-> f[i]]
    BY <2>1
  <2>3. f[1] = m.ipfsHash /\ f[2] = PadLeft(m.zapper)
    BY <2>1 DEF FieldWord, Field
  <2>4. HashStruct("SeriesFingerprint", fields, m) =
          Keccak256(<<Keccak256(<<"SeriesFingerprint", fields>>)>> \o f)
    BY DEF HashStruct
  <2>5. <<"SeriesFingerprint", fields>> = SERIES_FINGERPRINT_TYPE
    BY FieldsOf DEF SERIES_FINGERPRINT_TYPE
  <2>6. ClientHash(digest) =
          Keccak256(<<HashStruct("EIP712Domain", EIP712Domain, digest.domain),
                      HashStruct("SeriesFingerprint", fields, m)>>)
    BY <1>1 DEF ClientHash, SignTypedData
  <2> HIDE DEF f, fields
  <2>7. f = <<f[1], f[2]>>
    BY <2>2, TupleOfTwo
  <2>8. <<Keccak256(SERIES_FINGERPRINT_TYPE)>> \o f = <<Keccak256(SERIES_FINGERPRINT_TYPE), f[1], f[2]>>
    BY <2>7, OneAndTwo
  <2>9. AbiStruct(digest) = <<Keccak256(SERIES_FINGERPRINT_TYPE), m.ipfsHash, PadLeft(m.zapper)>>
    BY <1>1, AbiWords
  <2> QED
    BY <2>3, <2>4, <2>5, <2>6, <2>8, <2>9
<1>2. CASE digest.type = "SeriesPublication"
  <2> DEFINE p == digest.data
             m == SeriesMessage(p)
             fields == SeriesPublicationFields
             f == [i \in DOMAIN fields |-> FieldWord(fields[i].type, m[fields[i].name])]
  <2>1. /\ DOMAIN fields = 1 .. 3 /\ fields[1] = Field("bytes32", "ipfsHash") /\ fields[2] = Field("address", "zapper")
        /\ fields[3] = Field("bytes4", "seriesTotal")
    BY FieldsOf
  <2>2. f = [i \in 1 .. 3 |-> f[i]]
    BY <2>1
  <2>3. f[1] = p.ipfsHash /\ f[2] = PadLeft(p.zapper) /\ f[3] = PadRight(Bytes4ify(p.seriesTotal))
    BY <2>1 DEF FieldWord, Field, SeriesMessage
  <2>4. HashStruct("SeriesPublication", fields, m) =
          Keccak256(<<Keccak256(<<"SeriesPublication", fields>>)>> \o f)
    BY DEF HashStruct
  <2>5. <<"SeriesPublication", fields>> = SERIES_PUBLICATION_TYPE
    BY FieldsOf DEF SERIES_PUBLICATION_TYPE
  <2>6. ClientHash(digest) =
          Keccak256(<<HashStruct("EIP712Domain", EIP712Domain, digest.domain),
                      HashStruct("SeriesPublication", fields, m)>>)
    BY <1>2 DEF ClientHash, SignTypedData
  <2> HIDE DEF f, fields, m
  <2>7. f = <<f[1], f[2], f[3]>>
    BY <2>2, TupleOfThree
  <2>8. <<Keccak256(SERIES_PUBLICATION_TYPE)>> \o f = <<Keccak256(SERIES_PUBLICATION_TYPE), f[1], f[2], f[3]>>
    BY <2>7, OneAndThree
  <2>9. AbiStruct(digest) =
          <<Keccak256(SERIES_PUBLICATION_TYPE), p.ipfsHash, PadLeft(p.zapper), PadRight(Bytes4ify(p.seriesTotal))>>
    BY <1>2, AbiWords
  <2> QED
    BY <2>3, <2>4, <2>5, <2>6, <2>8, <2>9
<1>3. CASE digest.type = "ZapData"
  <2> DEFINE z == digest.data
             m == ZapMessage(z)
             fields == ZapDataFields
             f == [i \in DOMAIN fields |-> FieldWord(fields[i].type, m[fields[i].name])]
  <2>1. /\ DOMAIN fields = 1 .. 4 /\ fields[1] = Field("bytes32", "ipfsHash") /\ fields[2] = Field("address", "zapper")
        /\ fields[3] = Field("bytes4", "seriesTotal") /\ fields[4] = Field("bytes4", "serialNumber")
    BY FieldsOf
  <2>2. f = [i \in 1 .. 4 |-> f[i]]
    BY <2>1
  <2>3. /\ f[1] = z.publication.ipfsHash /\ f[2] = PadLeft(z.publication.zapper)
        /\ f[3] = PadRight(Bytes4ify(z.publication.seriesTotal)) /\ f[4] = PadRight(Bytes4ify(z.serialNumber))
    BY <2>1 DEF FieldWord, Field, ZapMessage
  <2>4. HashStruct("ZapData", fields, m) = Keccak256(<<Keccak256(<<"ZapData", fields>>)>> \o f)
    BY DEF HashStruct
  <2>5. <<"ZapData", fields>> = ZAP_DATA_TYPE
    BY FieldsOf DEF ZAP_DATA_TYPE
  <2>6. ClientHash(digest) =
          Keccak256(<<HashStruct("EIP712Domain", EIP712Domain, digest.domain), HashStruct("ZapData", fields, m)>>)
    BY <1>3 DEF ClientHash, SignTypedData
  <2> HIDE DEF f, fields, m
  <2>7. f = <<f[1], f[2], f[3], f[4]>>
    BY <2>2, TupleOfFour
  <2>8. <<Keccak256(ZAP_DATA_TYPE)>> \o f = <<Keccak256(ZAP_DATA_TYPE), f[1], f[2], f[3], f[4]>>
    <3>1. <<Keccak256(ZAP_DATA_TYPE)>> \o <<f[1], f[2], f[3], f[4]>> = <<Keccak256(ZAP_DATA_TYPE), f[1], f[2], f[3], f[4]>>
      BY OneAndFour
    <3> QED
      BY <2>7, <3>1
  <2>9. AbiStruct(digest) =
          <<Keccak256(ZAP_DATA_TYPE), z.publication.ipfsHash, PadLeft(z.publication.zapper),
            PadRight(Bytes4ify(z.publication.seriesTotal)), PadRight(Bytes4ify(z.serialNumber))>>
    BY <1>3, AbiWords
  <2> QED
    BY <2>3, <2>4, <2>5, <2>6, <2>8, <2>9
<1>4. CASE digest.type = "ZapMintIntent"
  <2> DEFINE z == digest.data
             m == ZapMessage(z)
             fields == ZapMintIntentFields
             f == [i \in DOMAIN fields |-> FieldWord(fields[i].type, m[fields[i].name])]
  <2>1. /\ DOMAIN fields = 1 .. 5 /\ fields[1] = Field("string", "mintIntent")
        /\ fields[2] = Field("bytes32", "ipfsHash") /\ fields[3] = Field("address", "zapper")
        /\ fields[4] = Field("bytes4", "seriesTotal") /\ fields[5] = Field("bytes4", "serialNumber")
    BY FieldsOf
  <2>2. f = [i \in 1 .. 5 |-> f[i]]
    BY <2>1
  <2>3. /\ f[1] = Keccak256(MINT_INTENT_STATEMENT)
        /\ f[2] = z.publication.ipfsHash /\ f[3] = PadLeft(z.publication.zapper)
        /\ f[4] = PadRight(Bytes4ify(z.publication.seriesTotal)) /\ f[5] = PadRight(Bytes4ify(z.serialNumber))
    BY <2>1 DEF FieldWord, Field, ZapMessage
  <2>4. HashStruct("ZapMintIntent", fields, m) = Keccak256(<<Keccak256(<<"ZapMintIntent", fields>>)>> \o f)
    BY DEF HashStruct
  <2>5. <<"ZapMintIntent", fields>> = ZAP_MINT_INTENT_TYPE
    BY FieldsOf DEF ZAP_MINT_INTENT_TYPE
  <2>6. ClientHash(digest) =
          Keccak256(<<HashStruct("EIP712Domain", EIP712Domain, digest.domain), HashStruct("ZapMintIntent", fields, m)>>)
    BY <1>4 DEF ClientHash, SignTypedData
  <2> HIDE DEF f, fields, m
  <2>7. f = <<f[1], f[2], f[3], f[4], f[5]>>
    BY <2>2, TupleOfFive
  <2>8. <<Keccak256(ZAP_MINT_INTENT_TYPE)>> \o f = <<Keccak256(ZAP_MINT_INTENT_TYPE), f[1], f[2], f[3], f[4], f[5]>>
    <3>1. <<Keccak256(ZAP_MINT_INTENT_TYPE)>> \o <<f[1], f[2], f[3], f[4], f[5]>> = <<Keccak256(ZAP_MINT_INTENT_TYPE), f[1], f[2], f[3], f[4], f[5]>>
      BY OneAndFive
    <3> QED
      BY <2>7, <3>1
  <2>9. AbiStruct(digest) =
          <<Keccak256(ZAP_MINT_INTENT_TYPE), Keccak256(MINT_INTENT_STATEMENT),
            z.publication.ipfsHash, PadLeft(z.publication.zapper),
            PadRight(Bytes4ify(z.publication.seriesTotal)), PadRight(Bytes4ify(z.serialNumber))>>
    BY <1>4, AbiWords
  <2> QED
    BY <2>3, <2>4, <2>5, <2>6, <2>8, <2>9
<1> QED
  BY <1>1, <1>2, <1>3, <1>4

LEMMA SameHash ==
  ASSUME NEW digest,
         digest.type \in {"ZapMintIntent", "ZapData", "SeriesPublication", "SeriesFingerprint"}
  PROVE  ClientHash(digest) = ContractHash(digest)
BY StructHash, DomainHash DEF ContractHash

(* What is hashed can be told from the hash.                                *)
LEMMA DomainFields ==
  ASSUME NEW domain \in Domains \cup SigningDomains
  PROVE  domain = [name |-> domain.name, version |-> domain.version,
                   chainId |-> domain.chainId, verifyingContract |-> domain.verifyingContract]
BY DomainAssumption DEF Domains, BuildDomainSeparator

LEMMA DomainDistinct ==
  ASSUME NEW x \in Domains \cup SigningDomains, NEW y \in Domains \cup SigningDomains,
         AbiDomain(x) = AbiDomain(y)
  PROVE  x = y
<1>1. /\ Keccak256(x.name) = Keccak256(y.name) /\ Keccak256(x.version) = Keccak256(y.version)
      /\ PadLeft(x.chainId) = PadLeft(y.chainId)
      /\ PadLeft(x.verifyingContract) = PadLeft(y.verifyingContract)
  BY DomainHash
<1>2. x.name = y.name /\ x.version = y.version
  BY <1>1 DEF Keccak256
<1>3. x.chainId = y.chainId /\ x.verifyingContract = y.verifyingContract
  BY <1>1 DEF PadLeft
<1> QED
  BY <1>2, <1>3, DomainFields

LEMMA PublicationDistinct ==
  ASSUME NEW p \in Publications, NEW q \in Publications, p.ipfsHash = q.ipfsHash,
         PadLeft(p.zapper) = PadLeft(q.zapper),
         PadRight(Bytes4ify(p.seriesTotal)) = PadRight(Bytes4ify(q.seriesTotal))
  PROVE  p = q
<1>1. p.zapper = q.zapper
  BY DEF PadLeft
<1>2. p.seriesTotal \in Bytes4 /\ q.seriesTotal \in Bytes4
  BY DEF Publications
<1>3. Bytes4ify(p.seriesTotal) = Bytes4ify(q.seriesTotal)
  BY DEF PadRight
<1>4. p.seriesTotal = q.seriesTotal
  BY <1>2, <1>3, BytesDistinct
<1> QED
  BY <1>1, <1>4 DEF Publications

LEMMA ZapDistinct ==
  ASSUME NEW y \in Zaps, NEW z \in Zaps, y.publication.ipfsHash = z.publication.ipfsHash,
         PadLeft(y.publication.zapper) = PadLeft(z.publication.zapper),
         PadRight(Bytes4ify(y.publication.seriesTotal)) = PadRight(Bytes4ify(z.publication.seriesTotal)),
         PadRight(Bytes4ify(y.serialNumber)) = PadRight(Bytes4ify(z.serialNumber))
  PROVE  y = z
<1>1. y.publication = z.publication
  BY PublicationDistinct DEF Zaps
<1>2. y.serialNumber \in Bytes4 /\ z.serialNumber \in Bytes4
  BY DEF Zaps
<1>3. Bytes4ify(y.serialNumber) = Bytes4ify(z.serialNumber)
  BY DEF PadRight
<1>4. y.serialNumber = z.serialNumber
  BY <1>2, <1>3, BytesDistinct
<1> QED
  BY <1>1, <1>4 DEF Zaps

Hashable(digest) ==
  /\ digest = TypedDataHash(digest.domain, digest.type, digest.data)
  /\ digest.domain \in Domains \cup SigningDomains
  /\ \/ digest.type \in {"ZapMintIntent", "ZapData"} /\ digest.data \in Zaps
     \/ digest.type = "SeriesPublication" /\ digest.data \in Publications
     \/ digest.type = "SeriesFingerprint" /\ digest.data \in [ipfsHash: IpfsHashes, zapper: Address]

LEMMA DigestsHashable ==
  ASSUME NEW digest \in Digests
  PROVE  Hashable(digest)
<1>1. CASE digest \in {signature.digest : signature \in Signatures}
  BY <1>1, IntentAssumption DEF Hashable, Signatures, Signature, TypedDataHash
<1>2. CASE digest \in ZapIds
  BY <1>2 DEF Hashable, ZapIds, TypedDataHash
<1>3. CASE digest \in FingerprintHashes
  BY <1>3 DEF Hashable, FingerprintHashes, TypedDataHash
<1>4. CASE digest \in {TypedDataHash(domain, "SeriesPublication", publication) :
                         domain \in Domains, publication \in Publications}
  BY <1>4 DEF Hashable, TypedDataHash
<1> QED
  BY <1>1, <1>2, <1>3, <1>4 DEF Digests

(* The first word of a struct, the hash of its type, tells the types apart. *)
FirstWord(type) ==
  CASE type = "ZapMintIntent" -> Keccak256(ZAP_MINT_INTENT_TYPE)
    [] type = "ZapData" -> Keccak256(ZAP_DATA_TYPE)
    [] type = "SeriesPublication" -> Keccak256(SERIES_PUBLICATION_TYPE)
    [] type = "SeriesFingerprint" -> Keccak256(SERIES_FINGERPRINT_TYPE)

LEMMA TypeDistinct ==
  ASSUME NEW x, NEW y, Hashable(x), Hashable(y), AbiStruct(x) = AbiStruct(y)
  PROVE  x.type = y.type
<1> DEFINE Types == {"ZapMintIntent", "ZapData", "SeriesPublication", "SeriesFingerprint"}
<1>1. x.type \in Types /\ y.type \in Types
  BY DEF Hashable
<1>2. /\ ZAP_MINT_INTENT_TYPE[1] = "ZapMintIntent" /\ ZAP_DATA_TYPE[1] = "ZapData"
      /\ SERIES_PUBLICATION_TYPE[1] = "SeriesPublication" /\ SERIES_FINGERPRINT_TYPE[1] = "SeriesFingerprint"
  BY DEF ZAP_MINT_INTENT_TYPE, ZAP_DATA_TYPE, SERIES_PUBLICATION_TYPE, SERIES_FINGERPRINT_TYPE
<1>3. ASSUME NEW digest, digest.type \in Types
      PROVE  AbiStruct(digest)[1] = FirstWord(digest.type)
  <2>1. CASE digest.type = "ZapMintIntent"
    BY <2>1, AbiWords DEF FirstWord
  <2>2. CASE digest.type = "ZapData"
    BY <2>2, AbiWords DEF FirstWord
  <2>3. CASE digest.type = "SeriesPublication"
    BY <2>3, AbiWords DEF FirstWord
  <2>4. CASE digest.type = "SeriesFingerprint"
    BY <2>4, AbiWords DEF FirstWord
  <2> QED
    BY <1>3, <2>1, <2>2, <2>3, <2>4
<1>4. ASSUME NEW type \in Types
      PROVE  FirstWord(type).keccak256[1] = type
  BY <1>2 DEF FirstWord, Keccak256
<1> QED
  BY <1>1, <1>3, <1>4

LEMMA HashDistinct ==
  ASSUME NEW x, NEW y, Hashable(x), Hashable(y), ContractHash(x) = ContractHash(y)
  PROVE  x = y
<1>1. <<Keccak256(AbiDomain(x.domain)), Keccak256(AbiStruct(x))>> =
        <<Keccak256(AbiDomain(y.domain)), Keccak256(AbiStruct(y))>>
  BY DEF ContractHash, Keccak256
<1>2. Keccak256(AbiDomain(x.domain)) = Keccak256(AbiDomain(y.domain)) /\ Keccak256(AbiStruct(x)) = Keccak256(AbiStruct(y))
  BY <1>1
<1>3. AbiDomain(x.domain) = AbiDomain(y.domain) /\ AbiStruct(x) = AbiStruct(y)
  BY <1>2 DEF Keccak256
<1>4. x.type = y.type
  BY <1>3, TypeDistinct
<1>5. x.domain = y.domain
  BY <1>3, DomainDistinct DEF Hashable
<1>6. x.data = y.data
  <2>1. CASE x.type = "ZapMintIntent"
    <3>1. x.data \in Zaps /\ y.data \in Zaps
      BY <2>1, <1>4 DEF Hashable
    <3> DEFINE s == AbiStruct(x)
               t == AbiStruct(y)
    <3>2. /\ s[3] = x.data.publication.ipfsHash /\ s[4] = PadLeft(x.data.publication.zapper)
          /\ s[5] = PadRight(Bytes4ify(x.data.publication.seriesTotal)) /\ s[6] = PadRight(Bytes4ify(x.data.serialNumber))
      BY <2>1, AbiWords
    <3>3. /\ t[3] = y.data.publication.ipfsHash /\ t[4] = PadLeft(y.data.publication.zapper)
          /\ t[5] = PadRight(Bytes4ify(y.data.publication.seriesTotal)) /\ t[6] = PadRight(Bytes4ify(y.data.serialNumber))
      BY <2>1, <1>4, AbiWords
    <3> HIDE DEF s, t
    <3>4. s = t
      BY <1>3 DEF s, t
    <3> QED
      BY <3>1, <3>2, <3>3, <3>4, ZapDistinct
  <2>2. CASE x.type = "ZapData"
    <3>1. x.data \in Zaps /\ y.data \in Zaps
      BY <2>2, <1>4 DEF Hashable
    <3> DEFINE s == AbiStruct(x)
               t == AbiStruct(y)
    <3>2. /\ s[2] = x.data.publication.ipfsHash /\ s[3] = PadLeft(x.data.publication.zapper)
          /\ s[4] = PadRight(Bytes4ify(x.data.publication.seriesTotal)) /\ s[5] = PadRight(Bytes4ify(x.data.serialNumber))
      BY <2>2, AbiWords
    <3>3. /\ t[2] = y.data.publication.ipfsHash /\ t[3] = PadLeft(y.data.publication.zapper)
          /\ t[4] = PadRight(Bytes4ify(y.data.publication.seriesTotal)) /\ t[5] = PadRight(Bytes4ify(y.data.serialNumber))
      BY <2>2, <1>4, AbiWords
    <3> HIDE DEF s, t
    <3>4. s = t
      BY <1>3 DEF s, t
    <3> QED
      BY <3>1, <3>2, <3>3, <3>4, ZapDistinct
  <2>3. CASE x.type = "SeriesPublication"
    <3>1. x.data \in Publications /\ y.data \in Publications
      BY <2>3, <1>4 DEF Hashable
    <3> DEFINE s == AbiStruct(x)
               t == AbiStruct(y)
    <3>2. /\ s[2] = x.data.ipfsHash /\ s[3] = PadLeft(x.data.zapper)
          /\ s[4] = PadRight(Bytes4ify(x.data.seriesTotal))
      BY <2>3, AbiWords
    <3>3. /\ t[2] = y.data.ipfsHash /\ t[3] = PadLeft(y.data.zapper)
          /\ t[4] = PadRight(Bytes4ify(y.data.seriesTotal))
      BY <2>3, <1>4, AbiWords
    <3> HIDE DEF s, t
    <3>4. s = t
      BY <1>3 DEF s, t
    <3> QED
      BY <3>1, <3>2, <3>3, <3>4, PublicationDistinct
  <2>4. CASE x.type = "SeriesFingerprint"
    <3>1. x.data \in [ipfsHash: IpfsHashes, zapper: Address] /\ y.data \in [ipfsHash: IpfsHashes, zapper: Address]
      BY <2>4, <1>4 DEF Hashable
    <3> DEFINE s == AbiStruct(x)
               t == AbiStruct(y)
    <3>2. s[2] = x.data.ipfsHash /\ s[3] = PadLeft(x.data.zapper)
      BY <2>4, AbiWords
    <3>3. t[2] = y.data.ipfsHash /\ t[3] = PadLeft(y.data.zapper)
      BY <2>4, <1>4, AbiWords
    <3> HIDE DEF s, t
    <3>4. s = t
      BY <1>3 DEF s, t
    <3>5. x.data.ipfsHash = y.data.ipfsHash /\ x.data.zapper = y.data.zapper
      BY <3>2, <3>3, <3>4 DEF PadLeft
    <3> QED
      BY <3>1, <3>5
  <2> QED
    BY <2>1, <2>2, <2>3, <2>4 DEF Hashable
<1> QED
  BY <1>4, <1>5, <1>6 DEF Hashable

LEMMA InUse ==
  ASSUME TypeOK
  PROVE  DigestsInUse \subseteq Digests
<1>1. /\ signed \subseteq Signatures /\ DOMAIN tokenOwners \subseteq ZapIds
      /\ seriesPublications \in [FingerprintHashes -> Publications] /\ chainId \in ChainIds
  BY DEF TypeOK, StorageTypeOK, Storage
<1>2. {signature.digest : signature \in signed} \subseteq Digests /\ DOMAIN tokenOwners \subseteq Digests
  BY <1>1 DEF Digests
<1>3. ASSUME NEW fingerprint \in FingerprintHashes
      PROVE  /\ fingerprint \in Digests
             /\ HashTypedDataV4("SeriesPublication", seriesPublications[fingerprint]) \in Digests
  <2>1. DomainSeparatorV4 \in Domains
    BY <1>1, ChainAssumption DEF DomainSeparatorV4, CachedDomainSeparator, Domains
  <2>2. seriesPublications[fingerprint] \in Publications
    BY <1>1
  <2> QED
    BY <2>1, <2>2 DEF Digests, HashTypedDataV4
<1> QED
  BY <1>2, <1>3 DEF DigestsInUse

LEMMA HashesAgree == TypeOK => ClientComputesContractHashes
<1> SUFFICES ASSUME TypeOK, NEW digest \in DigestsInUse
             PROVE  digest \in SameOnBothSides /\ digest \notin Ambiguous
  BY DEF ClientComputesContractHashes
<1>1. digest \in Digests
  BY InUse
<1>2. Hashable(digest)
  BY <1>1, DigestsHashable
<1>3. digest \in SameOnBothSides
  BY <1>1, <1>2, SameHash DEF SameOnBothSides, Hashable
<1>4. ASSUME NEW p \in Digests \X Digests, ContractHash(p[1]) = ContractHash(p[2])
      PROVE  p[1] = p[2]
  BY <1>4, DigestsHashable, HashDistinct
<1>5. digest \notin Ambiguous
  BY <1>4 DEF Ambiguous
<1> QED
  BY <1>3, <1>5

LEMMA TotalsOrdered == TypeOK => BytesCompareAsNumbers
<1> SUFFICES ASSUME TypeOK, NEW fingerprint \in FingerprintHashes
             PROVE  seriesPublications[fingerprint].seriesTotal \in OrderedAsNumbers
  BY DEF BytesCompareAsNumbers
<1>1. seriesPublications[fingerprint].seriesTotal \in Bytes4
  BY DEF TypeOK, StorageTypeOK, Storage, Publications
<1> QED
  BY <1>1, BytesOrdered DEF OrderedAsNumbers

(* Client and contract compute the same hash of everything that is signed,  *)
(* minted or published, and no two of them have the same.                   *)
THEOREM HashesAlwaysAgree == Spec => []ClientComputesContractHashes
BY TypeCorrect, HashesAgree, PTL

(* Comparing bytes4 in the contract compares the numbers the client padded. *)
THEOREM BytesAlwaysCompareAsNumbers == Spec => []BytesCompareAsNumbers
BY TypeCorrect, TotalsOrdered, PTL
------------------------------------------------------------------------------
(* Replaying the log of a transaction                                       *)

(* First what induction over the length of the log needs: a set of numbers  *)
(* has a least element, a finite one a greatest.                            *)
LEMMA LeastOf ==
  ASSUME NEW S \in SUBSET Nat, S # {}
  PROVE  \E n \in S : \A m \in S : n <= m
<1>1. PICK n \in S : \A m \in S : ~ (<<m, n>> \in OpToRel(<, Nat))
  BY NatLessThanWellFounded, WFMin, Zenon
<1>2. ASSUME NEW m \in S PROVE n <= m
  <2>1. <<m, n>> \in Nat \X Nat /\ ~ (m < n)
    BY <1>1 DEF OpToRel
  <2> QED
    BY <2>1
<1> QED
  BY <1>2

LEMMA MaxOf ==
  ASSUME NEW n \in Nat, NEW s \in SUBSET (1 .. n), s # {}
  PROVE  Max(s) \in s /\ \A i \in s : i <= Max(s)
<1> DEFINE gaps == {n - i : i \in s}
<1>1. gaps \in SUBSET Nat /\ gaps # {}
  <2>1. \A i \in 1 .. n : n - i \in Nat
    OBVIOUS
  <2> QED
    BY <2>1
<1>2. PICK gap \in gaps : \A other \in gaps : gap <= other
  BY <1>1, LeastOf
<1>3. PICK top \in s : gap = n - top
  OBVIOUS
<1>4. ASSUME NEW i \in s PROVE top >= i
  <2>1. gap <= n - i /\ i \in Nat /\ top \in Nat
    BY <1>2
  <2> QED
    BY <2>1, <1>3
<1>5. \A i \in s : Max(s) >= i /\ Max(s) \in s
  BY <1>3, <1>4 DEF Max
<1> QED
  BY <1>5

(* What FoldLeft computes, set of positions by set of positions.            *)
IsIter(iter, base, log) ==
  iter = [s \in SUBSET (DOMAIN log) |->
            IF s = {} THEN base ELSE Apply(iter[s \ {Max(s)}], log[Max(s)])]

LEMMA FoldIsIter ==
  ASSUME NEW base, NEW log
  PROVE  FoldLeft(Apply, base, log) = (CHOOSE iter : IsIter(iter, base, log))[DOMAIN log]
BY DEF FoldLeft, MapThenFoldSet, IsIter

LEMMA IterFunction ==
  ASSUME NEW iter, NEW base, NEW log, IsIter(iter, base, log)
  PROVE  iter = [s \in SUBSET (DOMAIN log) |-> iter[s]]
<1> DEFINE Value(s) == IF s = {} THEN base ELSE Apply(iter[s \ {Max(s)}], log[Max(s)])
<1>1. iter = [s \in SUBSET (DOMAIN log) |-> Value(s)]
  BY DEF IsIter
<1> HIDE DEF Value
<1> QED
  BY <1>1

(* It is unique, it takes one event more in its stride, and so it exists.   *)
LEMMA IterUnique ==
  ASSUME NEW n \in Nat, NEW base, NEW log, DOMAIN log = 1 .. n,
         NEW f, NEW g, IsIter(f, base, log), IsIter(g, base, log)
  PROVE  f = g
<1> DEFINE Agree(k) == \A s \in SUBSET (1 .. k) : f[s] = g[s]
           differ == {k \in 0 .. n : ~ Agree(k)}
<1>1. \A s \in SUBSET (1 .. n) :
        /\ f[s] = IF s = {} THEN base ELSE Apply(f[s \ {Max(s)}], log[Max(s)])
        /\ g[s] = IF s = {} THEN base ELSE Apply(g[s \ {Max(s)}], log[Max(s)])
  BY DEF IsIter
<1>2. ASSUME NEW k \in 0 .. n, \A j \in 0 .. k - 1 : Agree(j)
      PROVE  Agree(k)
  <2> SUFFICES ASSUME NEW s \in SUBSET (1 .. k) PROVE f[s] = g[s]
    OBVIOUS
  <2>1. s \in SUBSET (1 .. n) /\ k \in Nat
    OBVIOUS
  <2>2. CASE s = {}
    BY <2>1, <2>2, <1>1
  <2>3. CASE s # {}
    <3>1. Max(s) \in s /\ \A i \in s : i <= Max(s)
      BY <2>1, <2>3, MaxOf
    <3>2. PICK top : top = Max(s) /\ top \in 1 .. k
      BY <3>1
    <3>3. top - 1 \in 0 .. k - 1 /\ \A i \in 1 .. k : i <= top /\ i # top => i \in 1 .. top - 1
      BY <3>2
    <3>4. s \ {top} \in SUBSET (1 .. top - 1)
      BY <3>1, <3>2, <3>3
    <3>5. f[s \ {top}] = g[s \ {top}]
      BY <3>3, <3>4, <1>2
    <3> QED
      BY <2>1, <2>3, <3>2, <3>5, <1>1
  <2> QED
    BY <2>2, <2>3
<1> HIDE DEF Agree
<1>3. Agree(n)
  <2>1. differ \in SUBSET Nat /\ \A k \in 0 .. n : k \in differ <=> ~ Agree(k)
    OBVIOUS
  <2>2. ASSUME differ # {} PROVE FALSE
    <3>1. PICK k \in differ : \A other \in differ : k <= other
      BY <2>1, <2>2, LeastOf
    <3>2. k \in 0 .. n /\ ~ Agree(k)
      OBVIOUS
    <3>3. ASSUME NEW j \in 0 .. k - 1 PROVE Agree(j)
      <4>1. j \in 0 .. n /\ ~ (k <= j)
        BY <3>2
      <4> QED
        BY <3>1, <4>1
    <3> QED
      BY <3>2, <3>3, <1>2
  <2> QED
    BY <2>1, <2>2
<1>4. /\ f = [s \in SUBSET (1 .. n) |-> f[s]]
      /\ g = [s \in SUBSET (1 .. n) |-> g[s]]
  BY IterFunction
<1> QED
  BY <1>3, <1>4 DEF Agree

LEMMA IterOneMore ==
  ASSUME NEW n \in Nat, NEW base, NEW log, DOMAIN log = 1 .. n,
         NEW longer, DOMAIN longer = 1 .. n + 1, \A i \in 1 .. n : longer[i] = log[i],
         NEW f, IsIter(f, base, log)
  PROVE  \E g : IsIter(g, base, longer) /\ g[1 .. n + 1] = Apply(f[1 .. n], longer[n + 1])
<1> DEFINE g == [s \in SUBSET (1 .. n + 1) |->
                   IF n + 1 \in s THEN Apply(f[s \ {n + 1}], longer[n + 1]) ELSE f[s]]
<1>1. \A s \in SUBSET (1 .. n) :
        f[s] = IF s = {} THEN base ELSE Apply(f[s \ {Max(s)}], log[Max(s)])
  BY DEF IsIter
<1>2. ASSUME NEW s \in SUBSET (1 .. n + 1)
      PROVE  g[s] = IF s = {} THEN base ELSE Apply(g[s \ {Max(s)}], longer[Max(s)])
  <2>1. CASE n + 1 \in s
    <3>1. Max(s) \in 1 .. n + 1 /\ n + 1 <= Max(s)
      <4>1. n + 1 \in Nat /\ s # {}
        BY <2>1
      <4> QED
        BY <2>1, <4>1, MaxOf
    <3>2. Max(s) = n + 1
      BY <3>1
    <3>3. s \ {n + 1} \in SUBSET (1 .. n + 1) /\ n + 1 \notin s \ {n + 1}
      OBVIOUS
    <3> QED
      BY <2>1, <3>2, <3>3
  <2>2. CASE n + 1 \notin s /\ s # {}
    <3>1. s \in SUBSET (1 .. n)
      BY <2>2
    <3>2. Max(s) \in 1 .. n
      BY <2>2, <3>1, MaxOf
    <3>3. s \ {Max(s)} \in SUBSET (1 .. n + 1) /\ n + 1 \notin s \ {Max(s)}
      BY <2>2
    <3> QED
      BY <2>2, <3>1, <3>2, <3>3, <1>1
  <2>3. CASE s = {}
    BY <2>3, <1>1
  <2> QED
    BY <2>1, <2>2, <2>3
<1>3. IsIter(g, base, longer)
  <2>1. g = [s \in SUBSET (1 .. n + 1) |-> g[s]]
    OBVIOUS
  <2> HIDE DEF g
  <2>2. [s \in SUBSET (1 .. n + 1) |-> g[s]]
          = [s \in SUBSET (1 .. n + 1) |-> IF s = {} THEN base ELSE Apply(g[s \ {Max(s)}], longer[Max(s)])]
    BY <1>2
  <2> QED
    BY <2>1, <2>2 DEF IsIter
<1>4. (1 .. n + 1) \ {n + 1} = 1 .. n /\ n + 1 \in 1 .. n + 1
  OBVIOUS
<1>5. g[1 .. n + 1] = Apply(f[1 .. n], longer[n + 1])
  BY <1>4
<1> HIDE DEF g
<1> QED
  BY <1>3, <1>5

LEMMA IterExists ==
  ASSUME NEW n \in Nat, NEW base, NEW log, log = [i \in 1 .. n |-> log[i]]
  PROVE  \E f : IsIter(f, base, log)
<1> DEFINE Start(k) == [i \in 1 .. k |-> log[i]]
           Known(k) == \E f : IsIter(f, base, Start(k))
           unknown == {k \in 0 .. n : ~ Known(k)}
<1>1. Known(0)
  <2>1. IsIter([s \in {{}} |-> base], base, Start(0))
    BY DEF IsIter
  <2> QED
    BY <2>1
<1>2. ASSUME NEW k \in 1 .. n, Known(k - 1) PROVE Known(k)
  <2>1. PICK f : IsIter(f, base, Start(k - 1))
    BY <1>2
  <2>2. /\ DOMAIN Start(k - 1) = 1 .. k - 1 /\ DOMAIN Start(k) = 1 .. (k - 1) + 1
        /\ k - 1 \in Nat /\ \A i \in 1 .. k - 1 : Start(k)[i] = Start(k - 1)[i]
    OBVIOUS
  <2> HIDE DEF Start
  <2> QED
    BY <2>1, <2>2, IterOneMore
<1>3. Start(n) = log
  OBVIOUS
<1> HIDE DEF Known
<1>4. unknown \in SUBSET Nat /\ \A k \in 0 .. n : k \in unknown <=> ~ Known(k)
  OBVIOUS
<1> HIDE DEF unknown
<1>5. ASSUME unknown # {} PROVE FALSE
  <2>1. PICK k \in unknown : \A other \in unknown : k <= other
    BY <1>4, <1>5, LeastOf
  <2>2. k \in 0 .. n /\ k # 0
    BY <1>1, <1>4 DEF unknown
  <2>3. k \in 1 .. n /\ k - 1 \in 0 .. n /\ ~ (k <= k - 1)
    BY <2>2
  <2>4. k - 1 \notin unknown
    BY <2>1, <2>3
  <2> QED
    BY <2>3, <2>4, <1>2, <1>4
<1>6. Known(n)
  BY <1>4, <1>5
<1> QED
  BY <1>3, <1>6 DEF Known

LEMMA Folds ==
  ASSUME NEW n \in Nat, NEW base, NEW log, DOMAIN log = 1 .. n,
         NEW f, IsIter(f, base, log)
  PROVE  FoldLeft(Apply, base, log) = f[1 .. n]
<1> DEFINE g == CHOOSE iter : IsIter(iter, base, log)
<1>1. IsIter(g, base, log)
  OBVIOUS
<1>2. FoldLeft(Apply, base, log) = g[1 .. n]
  BY FoldIsIter
<1> HIDE DEF g
<1> QED
  BY <1>1, <1>2, IterUnique

(* Replaying depends on the chain's id alone, which no message changes.      *)
LEMMA IterKept ==
  ASSUME NEW CONSTANT iter, NEW CONSTANT base, NEW CONSTANT log,
         IsIter(iter, base, log), chainId' = chainId
  PROVE  IsIter(iter, base, log)'
<1>1. DomainSeparatorV4' = DomainSeparatorV4
  BY DEF DomainSeparatorV4, CachedDomainSeparator, BuildDomainSeparator
<1>2. \A s, e : Move(s, e)' = Move(s, e) /\ Publication(s, e)' = Publication(s, e)
  BY <1>1 DEF Move, Publication, Eip712HashSeriesFingerprint, HashTypedDataV4
<1>3. \A s, e : Apply(s, e)' = Apply(s, e)
  BY <1>2 DEF Apply
<1> QED
  BY <1>3 DEF IsIter
------------------------------------------------------------------------------
(* Storages that differ in their logs only.                                 *)
IsStorage(s) ==
  s = [contractOwner |-> s.contractOwner, seriesPublications |-> s.seriesPublications,
       tokenOwners |-> s.tokenOwners, holderTokens |-> s.holderTokens,
       tokenApprovals |-> s.tokenApprovals, operatorApprovals |-> s.operatorApprovals,
       logs |-> s.logs]

SameStorage(s, t) ==
  /\ IsStorage(s) /\ IsStorage(t)
  /\ s.contractOwner = t.contractOwner
  /\ s.seriesPublications = t.seriesPublications
  /\ s.tokenOwners = t.tokenOwners
  /\ s.holderTokens = t.holderTokens
  /\ s.tokenApprovals = t.tokenApprovals
  /\ s.operatorApprovals = t.operatorApprovals

LEMMA SameWithoutLogs ==
  ASSUME NEW s, NEW t, SameStorage(s, t)
  PROVE  WithoutLogs(s) = WithoutLogs(t)
BY DEF SameStorage, IsStorage, WithoutLogs

LEMMA SameTransitive ==
  ASSUME NEW r, NEW s, NEW t, SameStorage(r, s), SameStorage(s, t)
  PROVE  SameStorage(r, t)
BY DEF SameStorage

LEMMA StorageIsStorage == IsStorage(Storage) /\ IsStorage(Storage')
BY DEF IsStorage, Storage

EventKinds == {"Transfer", "Publish", "Mint", "Approval", "ApprovalForAll", "OwnershipTransferred"}

LEMMA ApplySame ==
  ASSUME NEW s, NEW t, SameStorage(s, t), NEW e, e.event \in EventKinds
  PROVE  SameStorage(Apply(s, e), Apply(t, e))
<1>1. CASE e.event = "Transfer"
  BY <1>1 DEF Apply, Move, SameStorage, IsStorage
<1>2. CASE e.event = "Publish"
  BY <1>2 DEF Apply, Publication, SameStorage, IsStorage
<1>3. CASE e.event = "Mint"
  BY <1>3 DEF Apply
<1>4. CASE e.event = "Approval"
  BY <1>4 DEF Apply, SameStorage, IsStorage
<1>5. CASE e.event = "ApprovalForAll"
  BY <1>5 DEF Apply, SameStorage, IsStorage
<1>6. CASE e.event = "OwnershipTransferred"
  BY <1>6 DEF Apply, SameStorage, IsStorage
<1> QED
  BY <1>1, <1>2, <1>3, <1>4, <1>5, <1>6 DEF EventKinds

(* A log tells how s came about when replaying it over base gives s.        *)
IsLog(log) == \E S : log \in Seq(S)

Tells(base, log, s) ==
  \E iter : IsIter(iter, base, log) /\ SameStorage(iter[DOMAIN log], s)

LEMMA TellsNothing ==
  ASSUME NEW s, IsStorage(s)
  PROVE  IsLog(<<>>) /\ Tells(s, <<>>, s)
<1>1. DOMAIN <<>> = 1 .. 0 /\ <<>> = [i \in 1 .. 0 |-> <<>>[i]] /\ <<>> \in Seq({})
  OBVIOUS
<1>2. PICK iter : IsIter(iter, s, <<>>)
  BY <1>1, IterExists
<1>3. iter[DOMAIN <<>>] = s
  BY <1>1, <1>2 DEF IsIter
<1>4. SameStorage(s, s)
  BY DEF SameStorage
<1> QED
  BY <1>1, <1>2, <1>3, <1>4 DEF Tells, IsLog

LEMMA TellsSame ==
  ASSUME NEW base, NEW log, NEW s, NEW t, Tells(base, log, s), SameStorage(s, t)
  PROVE  Tells(base, log, t)
BY SameTransitive DEF Tells

LEMMA TellsOneMore ==
  ASSUME NEW base, NEW log, IsLog(log), NEW s, Tells(base, log, s), NEW e, e.event \in EventKinds
  PROVE  IsLog(log \o <<e>>) /\ Tells(base, log \o <<e>>, Apply(s, e))
<1>1. PICK S : log \in Seq(S)
  BY DEF IsLog
<1> DEFINE T == S \cup {e}
           longer == Append(log, e)
<1>2. log \in Seq(T) /\ e \in T
  BY <1>1, SeqMonotonic
<1> HIDE DEF T
<1>3. longer = log \o <<e>>
  BY <1>2, AppendIsConcat
<1>4. /\ DOMAIN log = 1 .. Len(log) /\ Len(log) \in Nat
      /\ longer \in Seq(T)
      /\ DOMAIN longer = 1 .. Len(log) + 1
      /\ \A i \in 1 .. Len(log) : longer[i] = log[i]
      /\ longer[Len(log) + 1] = e
  <2>1. /\ longer \in Seq(T) /\ Len(longer) = Len(log) + 1
        /\ \A i \in 1 .. Len(log) : longer[i] = log[i]
        /\ longer[Len(log) + 1] = e
    BY <1>2, AppendProperties
  <2> QED
    BY <1>2, <2>1, LenProperties
<1> HIDE DEF longer
<1>5. PICK iter : IsIter(iter, base, log) /\ SameStorage(iter[DOMAIN log], s)
  BY DEF Tells
<1>6. PICK n \in Nat : n = Len(log)
  BY <1>4
<1>7. \E g : IsIter(g, base, longer) /\ g[1 .. n + 1] = Apply(iter[1 .. n], longer[n + 1])
  BY <1>4, <1>5, <1>6, IterOneMore
<1>8. PICK g : IsIter(g, base, longer) /\ g[DOMAIN longer] = Apply(iter[DOMAIN log], e)
  BY <1>4, <1>6, <1>7
<1>9. SameStorage(g[DOMAIN longer], Apply(s, e))
  BY <1>5, <1>8, ApplySame
<1>10. IsLog(longer) /\ Tells(base, longer, Apply(s, e))
  BY <1>4, <1>8, <1>9 DEF IsLog, Tells
<1> QED
  BY <1>3, <1>10

LEMMA OneAndOne ==
  ASSUME NEW a, NEW b
  PROVE  <<a>> \o <<b>> = <<a, b>>
<1> DEFINE s == <<a>>
           t == <<b>>
           u == <<a, b>>
<1>1. Len(s) = 1 /\ Len(t) = 1
  OBVIOUS
<1>2. s[1] = a /\ t[1] = b /\ u[1] = a /\ u[2] = b
  OBVIOUS
<1>3. s \o t = [i \in 1 .. 2 |-> IF i <= 1 THEN s[i] ELSE t[i - 1]]
  BY <1>1
<1>4. u = [i \in 1 .. 2 |-> u[i]]
  OBVIOUS
<1> HIDE DEF s, t, u
<1>5. \A i \in 1 .. 2 : (IF i <= 1 THEN s[i] ELSE t[i - 1]) = u[i]
  <2>1. 1 .. 2 = {1, 2}
    OBVIOUS
  <2> QED
    BY <2>1, <1>2
<1>6. s \o t = u
  BY <1>3, <1>4, <1>5
<1> QED
  BY <1>6 DEF s, t, u

LEMMA LogTwoMore ==
  ASSUME NEW log, IsLog(log), NEW a, NEW b
  PROVE  log \o <<a, b>> = (log \o <<a>>) \o <<b>>
<1>1. PICK S : log \in Seq(S)
  BY DEF IsLog
<1> DEFINE T == S \cup {a, b}
<1>2. log \in Seq(T)
  BY <1>1, SeqMonotonic
<1>3. <<a>> \in Seq(T) /\ <<b>> \in Seq(T)
  OBVIOUS
<1> HIDE DEF T
<1>4. (log \o <<a>>) \o <<b>> = log \o (<<a>> \o <<b>>)
  BY <1>2, <1>3, ConcatAssociative
<1> QED
  BY <1>4, OneAndOne

LEMMA LogThreeMore ==
  ASSUME NEW log, IsLog(log), NEW a, NEW b, NEW c
  PROVE  log \o <<a, b, c>> = ((log \o <<a>>) \o <<b>>) \o <<c>>
<1>1. PICK S : log \in Seq(S)
  BY DEF IsLog
<1> DEFINE T == S \cup {a, b, c}
<1>2. log \in Seq(T)
  BY <1>1, SeqMonotonic
<1>3. <<a, b>> \in Seq(T) /\ <<c>> \in Seq(T)
  OBVIOUS
<1> HIDE DEF T
<1>4. (log \o <<a, b>>) \o <<c>> = log \o (<<a, b>> \o <<c>>)
  BY <1>2, <1>3, ConcatAssociative
<1>5. (log \o <<a, b>>) \o <<c>> = log \o <<a, b, c>>
  BY <1>4, TwoAndOne
<1>6. log \o <<a, b>> = (log \o <<a>>) \o <<b>>
  BY LogTwoMore
<1> QED
  BY <1>5, <1>6

LEMMA Replays ==
  ASSUME NEW base, NEW log, IsLog(log), NEW s, Tells(base, log, s)
  PROVE  WithoutLogs(FoldLeft(Apply, base, log)) = WithoutLogs(s)
<1>1. PICK S : log \in Seq(S)
  BY DEF IsLog
<1>2. PICK n \in Nat : DOMAIN log = 1 .. n
  BY <1>1, LenProperties
<1>3. PICK iter : IsIter(iter, base, log) /\ SameStorage(iter[DOMAIN log], s)
  BY DEF Tells
<1>4. FoldLeft(Apply, base, log) = iter[DOMAIN log]
  BY <1>2, <1>3, Folds
<1> QED
  BY <1>3, <1>4, SameWithoutLogs

LEMMA TellsKept ==
  ASSUME NEW CONSTANT base, NEW CONSTANT log, NEW CONSTANT s, Tells(base, log, s), chainId' = chainId
  PROVE  Tells(base, log, s)'
<1>1. PICK iter : IsIter(iter, base, log) /\ SameStorage(iter[DOMAIN log], s)
  BY DEF Tells
<1>2. IsIter(iter, base, log)'
  BY <1>1, IterKept
<1> QED
  BY <1>1, <1>2 DEF Tells

(* What is told before a message, and what it adds.                         *)
ToldSoFar == IsLog(TransactionLogs) /\ Tells(Committed, TransactionLogs, Storage)

ToldAfter == IsLog(logs') /\ Tells(Committed, logs', Storage')

LEMMA ToldOne ==
  ASSUME ToldSoFar, NEW e, e.event \in EventKinds, Emit(<<e>>),
         SameStorage(Apply(Storage, e), Storage')
  PROVE  ToldAfter
<1>1. IsLog(logs') /\ Tells(Committed, logs', Apply(Storage, e))
  BY TellsOneMore DEF ToldSoFar, Emit
<1> QED
  BY <1>1, TellsSame DEF ToldAfter

LEMMA ToldTwo ==
  ASSUME ToldSoFar, NEW a, NEW b, a.event \in EventKinds, b.event \in EventKinds, Emit(<<a, b>>),
         SameStorage(Apply(Apply(Storage, a), b), Storage')
  PROVE  ToldAfter
<1>1. IsLog(TransactionLogs \o <<a>>) /\ Tells(Committed, TransactionLogs \o <<a>>, Apply(Storage, a))
  BY TellsOneMore DEF ToldSoFar
<1>2. logs' = (TransactionLogs \o <<a>>) \o <<b>>
  <2>1. logs' = TransactionLogs \o <<a, b>> /\ IsLog(TransactionLogs)
    BY DEF ToldSoFar, Emit
  <2> QED
    BY <2>1, LogTwoMore
<1>3. IsLog(logs') /\ Tells(Committed, logs', Apply(Apply(Storage, a), b))
  BY <1>1, <1>2, TellsOneMore
<1> QED
  BY <1>3, TellsSame DEF ToldAfter

LEMMA ToldThree ==
  ASSUME ToldSoFar, NEW a, NEW b, NEW c,
         a.event \in EventKinds, b.event \in EventKinds, c.event \in EventKinds, Emit(<<a, b, c>>),
         SameStorage(Apply(Apply(Apply(Storage, a), b), c), Storage')
  PROVE  ToldAfter
<1> DEFINE log == TransactionLogs \o <<a>>
<1>1. IsLog(log) /\ Tells(Committed, log, Apply(Storage, a))
  BY TellsOneMore DEF ToldSoFar
<1>2. logs' = (log \o <<b>>) \o <<c>>
  <2>1. logs' = TransactionLogs \o <<a, b, c>> /\ IsLog(TransactionLogs)
    BY DEF ToldSoFar, Emit
  <2> QED
    BY <2>1, LogThreeMore
<1> HIDE DEF log
<1>3. IsLog(log \o <<b>>) /\ Tells(Committed, log \o <<b>>, Apply(Apply(Storage, a), b))
  BY <1>1, TellsOneMore
<1>4. IsLog(logs') /\ Tells(Committed, logs', Apply(Apply(Apply(Storage, a), b), c))
  BY <1>2, <1>3, TellsOneMore
<1> QED
  BY <1>4, TellsSame DEF ToldAfter
------------------------------------------------------------------------------
(* The events of each message give the storage it leaves.                   *)
LEMMA OwnershipTold ==
  ASSUME ToldSoFar, NEW sender, OwnershipMessage(sender)
  PROVE  ToldAfter
<1>1. PICK newOwner : /\ contractOwner' = newOwner
                      /\ Emit(<<OwnershipTransferred(contractOwner, newOwner)>>)
  BY DEF OwnershipMessage, RenounceOwnership, TransferOwnership
<1>2. UNCHANGED <<seriesPublications, erc721Vars>>
  BY DEF OwnershipMessage
<1> DEFINE e == OwnershipTransferred(contractOwner, newOwner)
<1>3. e.event = "OwnershipTransferred" /\ e.newOwner = newOwner
  BY DEF OwnershipTransferred
<1>4. Emit(<<e>>)
  BY <1>1
<1> HIDE DEF e
<1>5. SameStorage(Apply(Storage, e), Storage')
  BY <1>1, <1>2, <1>3 DEF Apply, SameStorage, IsStorage, Storage, erc721Vars
<1> QED
  BY <1>3, <1>4, <1>5, ToldOne DEF EventKinds

LEMMA ApprovalTold ==
  ASSUME ToldSoFar, NEW sender, ApprovalMessage(sender)
  PROVE  ToldAfter
<1>1. UNCHANGED <<contractOwner, seriesPublications>>
  BY DEF ApprovalMessage
<1>2. ASSUME NEW token, NEW to, Approve(sender, to, token)
      PROVE  ToldAfter
  <2> DEFINE e == ApprovalEvent(tokenOwners[token], to, token)
  <2>1. e.event = "Approval" /\ e.approved = to /\ e.tokenId = token
    BY DEF ApprovalEvent
  <2>2. /\ Emit(<<e>>)
        /\ tokenApprovals' = [tokenApprovals EXCEPT ![token] = to]
        /\ UNCHANGED <<tokenOwners, holderTokens, operatorApprovals>>
    BY <1>2 DEF Approve
  <2> HIDE DEF e
  <2>3. SameStorage(Apply(Storage, e), Storage')
    BY <1>1, <2>1, <2>2 DEF Apply, SameStorage, IsStorage, Storage
  <2> QED
    BY <2>1, <2>2, <2>3, ToldOne DEF EventKinds
<1>3. ASSUME NEW operator, NEW approved \in BOOLEAN, SetApprovalForAll(sender, operator, approved)
      PROVE  ToldAfter
  <2> DEFINE e == ApprovalForAllEvent(sender, operator, approved)
  <2>1. /\ e.event = "ApprovalForAll" /\ e.approved = approved
        /\ e.owner = sender /\ e.operator = operator
    BY DEF ApprovalForAllEvent
  <2>2. /\ Emit(<<e>>)
        /\ operatorApprovals' = IF approved THEN operatorApprovals \cup {<<sender, operator>>}
                                            ELSE operatorApprovals \ {<<sender, operator>>}
        /\ UNCHANGED <<tokenOwners, holderTokens, tokenApprovals>>
    BY <1>3 DEF SetApprovalForAll
  <2> HIDE DEF e
  <2>3. SameStorage(Apply(Storage, e), Storage')
    BY <1>1, <2>1, <2>2 DEF Apply, SameStorage, IsStorage, Storage
  <2> QED
    BY <2>1, <2>2, <2>3, ToldOne DEF EventKinds
<1> QED
  BY <1>2, <1>3 DEF ApprovalMessage

LEMMA Moved ==
  ASSUME NEW s, IsStorage(s), NEW e
  PROVE  /\ IsStorage(Move(s, e))
         /\ Move(s, e).tokenOwners =
              [t \in DOMAIN s.tokenOwners \cup {e.tokenId} |->
                 IF t = e.tokenId THEN e.to ELSE s.tokenOwners[t]]
         /\ Move(s, e).holderTokens =
              [a \in Address |-> (s.holderTokens[a] \ {e.tokenId})
                                  \cup (IF a = e.to THEN {e.tokenId} ELSE {})]
         /\ Move(s, e).contractOwner = s.contractOwner
         /\ Move(s, e).seriesPublications = s.seriesPublications
         /\ Move(s, e).tokenApprovals = s.tokenApprovals
         /\ Move(s, e).operatorApprovals = s.operatorApprovals
<1> DEFINE owners == [t \in DOMAIN s.tokenOwners \cup {e.tokenId} |->
                        IF t = e.tokenId THEN e.to ELSE s.tokenOwners[t]]
           holders == [a \in Address |-> (s.holderTokens[a] \ {e.tokenId})
                                          \cup (IF a = e.to THEN {e.tokenId} ELSE {})]
<1>1. Move(s, e) = [s EXCEPT !.tokenOwners = owners, !.holderTokens = holders]
  BY DEF Move
<1> HIDE DEF owners, holders
<1>2. /\ IsStorage(Move(s, e))
      /\ Move(s, e).tokenOwners = owners
      /\ Move(s, e).holderTokens = holders
      /\ Move(s, e).contractOwner = s.contractOwner
      /\ Move(s, e).seriesPublications = s.seriesPublications
      /\ Move(s, e).tokenApprovals = s.tokenApprovals
      /\ Move(s, e).operatorApprovals = s.operatorApprovals
  BY <1>1 DEF IsStorage
<1> QED
  BY <1>2 DEF owners, holders

(* The records of the holders change as the event says.                     *)
MovesToken(e) ==
  /\ tokenOwners' = [t \in DOMAIN tokenOwners' |-> tokenOwners'[t]]
  /\ DOMAIN tokenOwners' = DOMAIN tokenOwners \cup {e.tokenId}
  /\ \A t \in DOMAIN tokenOwners' :
       tokenOwners'[t] = IF t = e.tokenId THEN e.to ELSE tokenOwners[t]
  /\ holderTokens' = [a \in Address |-> holderTokens'[a]]
  /\ \A a \in Address :
       holderTokens'[a] = (holderTokens[a] \ {e.tokenId}) \cup (IF a = e.to THEN {e.tokenId} ELSE {})

LEMMA MovedTo ==
  ASSUME NEW s, IsStorage(s), NEW e, MovesToken(e),
         s.tokenOwners = tokenOwners, s.holderTokens = holderTokens
  PROVE  /\ IsStorage(Move(s, e))
         /\ Move(s, e).tokenOwners = tokenOwners'
         /\ Move(s, e).holderTokens = holderTokens'
         /\ Move(s, e).contractOwner = s.contractOwner
         /\ Move(s, e).seriesPublications = s.seriesPublications
         /\ Move(s, e).tokenApprovals = s.tokenApprovals
         /\ Move(s, e).operatorApprovals = s.operatorApprovals
<1>1. /\ Move(s, e).tokenOwners =
           [t \in DOMAIN s.tokenOwners \cup {e.tokenId} |->
              IF t = e.tokenId THEN e.to ELSE s.tokenOwners[t]]
      /\ Move(s, e).holderTokens =
           [a \in Address |-> (s.holderTokens[a] \ {e.tokenId})
                               \cup (IF a = e.to THEN {e.tokenId} ELSE {})]
  BY Moved
<1>2. Move(s, e).tokenOwners = tokenOwners'
  BY <1>1 DEF MovesToken
<1>3. Move(s, e).holderTokens = holderTokens'
  BY <1>1 DEF MovesToken
<1> QED
  BY <1>2, <1>3, Moved

(* A transfer tells that the approval ends and where the token goes: only   *)
(* its holder has it, so that taking it from everybody takes it from him.   *)
LEMMA TransferTold ==
  ASSUME ToldSoFar, ConsistentAll, UNCHANGED <<contractOwner, seriesPublications>>,
         NEW sender, NEW from \in Address, NEW to \in Address, NEW token \in TokenIds,
         TransferFrom(sender, from, to, token)
  PROVE  ToldAfter
<1> DEFINE a == ApprovalEvent(from, ZERO, token)
           b == TransferEvent(from, to, token)
<1>1. /\ a.event = "Approval" /\ a.approved = ZERO /\ a.tokenId = token
      /\ b.event = "Transfer" /\ b.to = to /\ b.tokenId = token
  BY DEF ApprovalEvent, TransferEvent
<1>2. /\ Emit(<<a, b>>)
      /\ tokenOwners[token] = from
      /\ tokenApprovals' = [tokenApprovals EXCEPT ![token] = ZERO]
      /\ holderTokens' =
           [[holderTokens EXCEPT ![from] = @ \ {token}] EXCEPT ![to] = @ \cup {token}]
      /\ tokenOwners' = [t \in DOMAIN tokenOwners \cup {token} |->
                            IF t = token THEN to ELSE tokenOwners[t]]
      /\ operatorApprovals' = operatorApprovals
  BY DEF TransferFrom, MoveToken, ClearApproval, MoveHolding, SetTokenOwner
<1> HIDE DEF a, b
<1>3. MovesToken(b)
  <2>1. /\ holderTokens \in [Address -> SUBSET ZapIds]
        /\ \A x \in Address : holderTokens[x] = {id \in DOMAIN tokenOwners : tokenOwners[id] = x}
    BY DEF ConsistentAll, Consistent, StorageTypeOK, HoldersAgreeIn, Storage
  <2>2. \A x \in Address : x # from => token \notin holderTokens[x]
    BY <1>2, <2>1
  <2>3. \A x \in Address :
          holderTokens'[x] = (holderTokens[x] \ {token}) \cup (IF x = to THEN {token} ELSE {})
    BY <1>2, <2>1, <2>2
  <2>4. holderTokens' = [x \in Address |-> holderTokens'[x]]
    BY <1>2, <2>1
  <2>5. /\ tokenOwners' = [t \in DOMAIN tokenOwners' |-> tokenOwners'[t]]
        /\ DOMAIN tokenOwners' = DOMAIN tokenOwners \cup {token}
        /\ \A t \in DOMAIN tokenOwners' : tokenOwners'[t] = IF t = token THEN to ELSE tokenOwners[t]
    BY <1>2
  <2> QED
    BY <1>1, <2>3, <2>4, <2>5 DEF MovesToken
<1>4. SameStorage(Apply(Apply(Storage, a), b), Storage')
  <2>1. Apply(Storage, a) = [Storage EXCEPT !.tokenApprovals[token] = ZERO]
    BY <1>1 DEF Apply
  <2> DEFINE middle == Apply(Storage, a)
  <2>2. /\ IsStorage(middle)
        /\ middle.contractOwner = contractOwner
        /\ middle.seriesPublications = seriesPublications
        /\ middle.tokenOwners = tokenOwners
        /\ middle.holderTokens = holderTokens
        /\ middle.tokenApprovals = tokenApprovals'
        /\ middle.operatorApprovals = operatorApprovals
    BY <1>2, <2>1 DEF IsStorage, Storage
  <2> HIDE DEF middle
  <2>3. Apply(middle, b) = Move(middle, b)
    BY <1>1 DEF Apply
  <2>4. /\ IsStorage(Move(middle, b))
        /\ Move(middle, b).contractOwner = contractOwner
        /\ Move(middle, b).seriesPublications = seriesPublications
        /\ Move(middle, b).tokenOwners = tokenOwners'
        /\ Move(middle, b).holderTokens = holderTokens'
        /\ Move(middle, b).tokenApprovals = tokenApprovals'
        /\ Move(middle, b).operatorApprovals = operatorApprovals
    BY <1>3, <2>2, MovedTo
  <2> QED
    BY <1>2, <2>3, <2>4, StorageIsStorage DEF SameStorage, Storage, middle
<1> QED
  BY <1>1, <1>2, <1>4, ToldTwo DEF EventKinds

(* A mint tells the publication it makes, if it makes one, and the token    *)
(* nobody had before.                                                       *)
LEMMA MintTold ==
  ASSUME ToldSoFar, ConsistentAll, UNCHANGED contractOwner,
         NEW publication \in Publications, NEW serialNumber \in Bytes4, Mint(publication, serialNumber)
  PROVE  ToldAfter
<1> DEFINE fingerprint == Eip712HashSeriesFingerprint(publication.ipfsHash, publication.zapper)
           token == Eip712HashZapData(publication, serialNumber)
           to == publication.zapper
           p == PublishEvent(publication)
           e == TransferEvent(ZERO, to, token)
           m == MintEvent(publication, serialNumber)
<1>1. /\ p.event = "Publish" /\ p.publication = publication
      /\ e.event = "Transfer" /\ e.to = to /\ e.tokenId = token
      /\ m.event = "Mint"
  BY DEF PublishEvent, TransferEvent, MintEvent
<1>2. /\ PublishOrMatch(fingerprint, publication)
      /\ Emit((IF Published(fingerprint) THEN <<>> ELSE <<p>>) \o <<e, m>>)
      /\ ~Exists(token)
      /\ holderTokens' = [holderTokens EXCEPT ![to] = @ \cup {token}]
      /\ tokenOwners' = [t \in DOMAIN tokenOwners \cup {token} |->
                            IF t = token THEN to ELSE tokenOwners[t]]
      /\ UNCHANGED <<tokenApprovals, operatorApprovals>>
  BY DEF Mint, MintToken, AddToken, SetTokenOwner
<1>3. to \in Address
  BY DEF Publications
<1>4. Eip712HashSeriesFingerprint(p.publication.ipfsHash, p.publication.zapper) = fingerprint
  BY <1>1
<1> HIDE DEF fingerprint, token, to, p, e, m
<1>5. MovesToken(e)
  <2>1. /\ holderTokens \in [Address -> SUBSET ZapIds]
        /\ \A x \in Address : holderTokens[x] = {id \in DOMAIN tokenOwners : tokenOwners[id] = x}
    BY DEF ConsistentAll, Consistent, StorageTypeOK, HoldersAgreeIn, Storage
  <2>2. \A x \in Address : token \notin holderTokens[x]
    BY <1>2, <2>1 DEF Exists
  <2>3. \A x \in Address :
          holderTokens'[x] = (holderTokens[x] \ {token}) \cup (IF x = to THEN {token} ELSE {})
    BY <1>2, <1>3, <2>1, <2>2
  <2>4. holderTokens' = [x \in Address |-> holderTokens'[x]]
    BY <1>2, <2>1
  <2>5. /\ tokenOwners' = [t \in DOMAIN tokenOwners' |-> tokenOwners'[t]]
        /\ DOMAIN tokenOwners' = DOMAIN tokenOwners \cup {token}
        /\ \A t \in DOMAIN tokenOwners' : tokenOwners'[t] = IF t = token THEN to ELSE tokenOwners[t]
    BY <1>2
  <2> QED
    BY <1>1, <2>3, <2>4, <2>5 DEF MovesToken
<1>6. ASSUME NEW s, /\ IsStorage(s)
                    /\ s.contractOwner = contractOwner
                    /\ s.seriesPublications = seriesPublications'
                    /\ s.tokenOwners = tokenOwners
                    /\ s.holderTokens = holderTokens
                    /\ s.tokenApprovals = tokenApprovals
                    /\ s.operatorApprovals = operatorApprovals
      PROVE  SameStorage(Apply(Apply(s, e), m), Storage')
  <2>1. Apply(s, e) = Move(s, e) /\ Apply(Move(s, e), m) = Move(s, e)
    BY <1>1 DEF Apply
  <2>2. /\ IsStorage(Move(s, e))
        /\ Move(s, e).tokenOwners = tokenOwners'
        /\ Move(s, e).holderTokens = holderTokens'
        /\ Move(s, e).contractOwner = s.contractOwner
        /\ Move(s, e).seriesPublications = s.seriesPublications
        /\ Move(s, e).tokenApprovals = s.tokenApprovals
        /\ Move(s, e).operatorApprovals = s.operatorApprovals
    BY <1>1, <1>2, <1>5, <1>6, MovedTo
  <2> QED
    BY <1>2, <1>6, <2>1, <2>2, StorageIsStorage DEF SameStorage, Storage
<1>7. CASE Published(fingerprint)
  <2>1. UNCHANGED seriesPublications
    BY <1>2, <1>7 DEF PublishOrMatch
  <2>2. SameStorage(Apply(Apply(Storage, e), m), Storage')
    BY <1>6, <2>1, StorageIsStorage DEF Storage
  <2>3. Emit(<<e, m>>)
    <3>1. <<>> \o <<e, m>> = <<e, m>>
      <4>1. <<e, m>> \in Seq({e, m})
        OBVIOUS
      <4> QED
        BY <4>1, ConcatEmptySeq
    <3> QED
      BY <1>2, <1>7, <3>1
  <2> QED
    BY <1>1, <2>2, <2>3, ToldTwo DEF EventKinds
<1>8. CASE ~Published(fingerprint)
  <2>1. seriesPublications' = [seriesPublications EXCEPT ![fingerprint] = publication]
    BY <1>2, <1>8 DEF PublishOrMatch
  <2>2. Apply(Storage, p) = [Storage EXCEPT !.seriesPublications =
                               [@ EXCEPT ![fingerprint] = publication]]
    BY <1>1, <1>4 DEF Apply, Publication
  <2>3. Apply(Storage, p) = [Storage EXCEPT !.seriesPublications = seriesPublications']
    BY <2>1, <2>2 DEF Storage
  <2>4. SameStorage(Apply(Apply(Apply(Storage, p), e), m), Storage')
    <3> DEFINE s == Apply(Storage, p)
    <3>1. /\ IsStorage(s)
          /\ s.contractOwner = contractOwner
          /\ s.seriesPublications = seriesPublications'
          /\ s.tokenOwners = tokenOwners
          /\ s.holderTokens = holderTokens
          /\ s.tokenApprovals = tokenApprovals
          /\ s.operatorApprovals = operatorApprovals
      BY <2>3 DEF IsStorage, Storage
    <3> HIDE DEF s
    <3>2. SameStorage(Apply(Apply(s, e), m), Storage')
      BY <1>6, <3>1
    <3> QED
      BY <3>2 DEF s
  <2>5. Emit(<<p, e, m>>)
    BY <1>2, <1>8, OneAndTwo
  <2> QED
    BY <1>1, <2>4, <2>5, ToldThree DEF EventKinds
<1> QED
  BY <1>7, <1>8
------------------------------------------------------------------------------
(* While messages wait, the log tells what became of the committed state,   *)
(* up to now and up to each of the states a revert may restore.             *)
Remembered(log, s) == (log = logs /\ s = Storage) \/ (s \in Saved /\ log = s.logs)

ToldOK ==
  callStack # <<>> =>
    \A base, log, s :
      base = callStack[1] /\ Remembered(log, s) => IsStorage(s) /\ IsLog(log) /\ Tells(base, log, s)

LEMMA StorageTold == ASSUME ToldOK PROVE ToldSoFar
<1>1. CASE callStack = <<>>
  BY <1>1, TellsNothing, StorageIsStorage DEF ToldSoFar, Committed, TransactionLogs
<1>2. CASE callStack # <<>>
  BY <1>2 DEF ToldOK, Remembered, ToldSoFar, Committed, TransactionLogs
<1> QED
  BY <1>1, <1>2

(* What a step does to the chain's id and the stack, and that its events    *)
(* tell what it does to the storage.                                        *)
LEMMA MessagesTold ==
  ASSUME ConsistentAll, ToldSoFar, NEW sender \in Accounts,
         \/ OwnershipMessage(sender)
         \/ ApprovalMessage(sender)
         \/ TransferMessage(sender)
         \/ SafeTransferMessage(sender)
         \/ MintMessage(sender)
  PROVE  /\ ToldAfter
         /\ UNCHANGED chainId
         /\ UNCHANGED callStack \/ callStack' = Append(callStack, Storage)
<1>1. CASE OwnershipMessage(sender)
  BY <1>1, OwnershipTold DEF OwnershipMessage
<1>2. CASE ApprovalMessage(sender)
  BY <1>2, ApprovalTold DEF ApprovalMessage
<1>3. CASE TransferMessage(sender)
  BY <1>3, TransferTold DEF TransferMessage
<1>4. CASE SafeTransferMessage(sender)
  BY <1>4, TransferTold DEF SafeTransferMessage, CallReceiver
<1>5. CASE MintMessage(sender)
  <2>1. UNCHANGED <<contractOwner, callStack, chainId>>
    BY <1>5 DEF MintMessage
  <2> QED
    BY <1>5, <2>1, MintMessageMints, MintTold
<1> QED
  BY <1>1, <1>2, <1>3, <1>4, <1>5

LEMMA RejectTold ==
  ASSUME ConsistentAll, ToldOK, ReceiverRejects
  PROVE  ToldAfter
<1>1. PICK saved : saved = callStack[Len(callStack)]
  OBVIOUS
<1>2. callStack # <<>> /\ saved \in Saved /\ Restore(saved)
  BY <1>1, StackIndices DEF ReceiverRejects
<1>3. IsStorage(saved) /\ IsLog(saved.logs) /\ Tells(callStack[1], saved.logs, saved)
  BY <1>2 DEF ToldOK, Remembered
<1>4. logs' = saved.logs /\ Committed = callStack[1]
  BY <1>2 DEF Restore, Committed
<1>5. SameStorage(saved, Storage')
  BY <1>2, <1>3, StorageIsStorage DEF Restore, SameStorage, Storage
<1> QED
  BY <1>3, <1>4, <1>5, TellsSame DEF ToldAfter

(* The committed state lies at the bottom of the stack.                     *)
LEMMA BaseOfPushed ==
  ASSUME ConsistentAll, callStack' = Append(callStack, Storage)
  PROVE  callStack'[1] = Committed
<1>1. CASE callStack = <<>>
  <2>1. Len(callStack) = 0
    BY <1>1
  <2> QED
    BY <1>1, <2>1, PushElements DEF Committed
<1>2. CASE callStack # <<>>
  <2>1. 1 \in DOMAIN callStack
    BY <1>2, StackIndices
  <2> QED
    BY <1>2, <2>1, PushElements DEF Committed
<1> QED
  BY <1>1, <1>2

LEMMA BaseOfPopped ==
  ASSUME ConsistentAll, callStack # <<>>, callStack' # <<>>,
         callStack' = SubSeq(callStack, 1, Len(callStack) - 1)
  PROVE  callStack'[1] = callStack[1]
<1>1. Len(callStack) \in Nat /\ Len(callStack) > 0 /\ Len(callStack) # 1
  BY StackIndices, PopElements
<1>2. 1 \in DOMAIN callStack'
  BY <1>1, PopElements
<1> QED
  BY <1>2, PopElements

(* The steps that are neither: they change nothing the log is about.        *)
LEMMA OtherSteps ==
  ASSUME ReceiverAccepts \/ SignMintIntent \/ Fork \/ UNCHANGED vars
  PROVE  UNCHANGED <<contractVars, logs>>
BY DEF ReceiverAccepts, SignMintIntent, Fork, vars, evmVars

LEMMA InitTold == Init => ToldOK
BY DEF Init, ToldOK

LEMMA StepToldOK == ConsistentAll /\ ToldOK /\ [Next]_vars => ToldOK'
<1> SUFFICES ASSUME ConsistentAll, ToldOK, [Next]_vars, callStack' # <<>>,
                    NEW CONSTANT base, NEW CONSTANT log, NEW CONSTANT s,
                    base = callStack'[1], Remembered(log, s)'
             PROVE  IsStorage(s) /\ IsLog(log) /\ Tells(base, log, s)'
  BY DEF ToldOK
<1>1. ToldSoFar
  BY StorageTold
<1>2. ASSUME log = logs', s = Storage'
      PROVE  IsStorage(s) /\ IsLog(log) /\ Tells(base, log, s) /\ UNCHANGED chainId
  <2>1. IsStorage(s)
    BY <1>2, StorageIsStorage
  <2>2. ASSUME NEW sender \in Accounts,
               \/ OwnershipMessage(sender)
               \/ ApprovalMessage(sender)
               \/ TransferMessage(sender)
               \/ SafeTransferMessage(sender)
               \/ MintMessage(sender)
        PROVE  IsLog(log) /\ Tells(base, log, s) /\ UNCHANGED chainId
    <3>1. /\ ToldAfter
          /\ UNCHANGED chainId
          /\ UNCHANGED callStack \/ callStack' = Append(callStack, Storage)
      BY <1>1, <2>2, MessagesTold
    <3>2. base = Committed
      <4>1. CASE UNCHANGED callStack
        BY <4>1 DEF Committed
      <4>2. CASE callStack' = Append(callStack, Storage)
        BY <4>2, BaseOfPushed
      <4> QED
        BY <3>1, <4>1, <4>2
    <3> QED
      BY <1>2, <3>1, <3>2 DEF ToldAfter
  <2>3. CASE ReceiverAccepts
    <3>1. callStack # <<>> /\ base = callStack[1] /\ UNCHANGED chainId
      BY <2>3, BaseOfPopped DEF ReceiverAccepts
    <3>2. Remembered(log, s)
      BY <1>2, <2>3, <3>1 DEF ReceiverAccepts, Remembered, Storage, TransactionLogs, contractVars, erc721Vars
    <3> QED
      BY <3>1, <3>2 DEF ToldOK
  <2>4. CASE ReceiverRejects
    <3>1. callStack # <<>> /\ base = callStack[1] /\ UNCHANGED chainId
      BY <2>4, BaseOfPopped DEF ReceiverRejects
    <3>2. ToldAfter
      BY <2>4, RejectTold
    <3> QED
      BY <1>2, <2>1, <3>1, <3>2 DEF ToldAfter, Committed
  <2>5. CASE SignMintIntent \/ Fork \/ UNCHANGED vars
    <3>1. UNCHANGED <<contractVars, logs, callStack, chainId>>
      BY <2>5 DEF SignMintIntent, Fork, vars, evmVars
    <3>2. Remembered(log, s)
      BY <1>2, <3>1 DEF Remembered, Storage, TransactionLogs, contractVars, erc721Vars
    <3> QED
      BY <3>1, <3>2 DEF ToldOK
  <2> QED
    BY <2>1, <2>2, <2>3, <2>4, <2>5 DEF Next
<1>3. ASSUME s \in Saved', log = s.logs
      PROVE  IsStorage(s) /\ IsLog(log) /\ Tells(base, log, s) /\ UNCHANGED chainId
  <2>1. \/ UNCHANGED callStack
        \/ callStack' = Append(callStack, Storage)
        \/ /\ callStack # <<>>
           /\ callStack' = SubSeq(callStack, 1, Len(callStack) - 1)
    BY StepKinds
  <2>2. UNCHANGED chainId
    <3>1. ~Fork
      BY DEF Fork, evmVars
    <3> QED
      BY <3>1 DEF Next, OwnershipMessage, ApprovalMessage, TransferMessage, SafeTransferMessage,
           MintMessage, ReceiverAccepts, ReceiverRejects, SignMintIntent, vars
  <2>3. CASE UNCHANGED callStack
    <3>1. s \in Saved /\ callStack # <<>> /\ base = callStack[1]
      BY <1>3, <2>3 DEF Saved
    <3> QED
      BY <1>3, <2>2, <3>1 DEF ToldOK, Remembered
  <2>4. CASE callStack' = Append(callStack, Storage)
    <3>1. base = Committed /\ s \in Saved \cup {Storage}
      BY <1>3, <2>4, BaseOfPushed, Push DEF ConsistentAll
    <3>2. CASE s \in Saved
      <4>1. callStack # <<>>
        BY <3>2 DEF Saved
      <4> QED
        BY <1>3, <2>2, <3>1, <3>2, <4>1 DEF ToldOK, Remembered, Committed
    <3>3. CASE s = Storage
      <4>1. log = TransactionLogs
        BY <1>3, <3>3 DEF Storage
      <4> QED
        BY <1>1, <2>2, <3>1, <3>3, <4>1, StorageIsStorage DEF ToldSoFar
    <3> QED
      BY <3>1, <3>2, <3>3
  <2>5. CASE callStack # <<>> /\ callStack' = SubSeq(callStack, 1, Len(callStack) - 1)
    <3>1. s \in Saved /\ base = callStack[1]
      BY <1>3, <2>5, BaseOfPopped, Pop DEF ConsistentAll
    <3> QED
      BY <1>3, <2>2, <2>5, <3>1 DEF ToldOK, Remembered
  <2> QED
    BY <2>1, <2>3, <2>4, <2>5
<1>4. (log = logs' /\ s = Storage') \/ (s \in Saved' /\ log = s.logs)
  BY DEF Remembered
<1> QED
  BY <1>2, <1>3, <1>4, TellsKept
------------------------------------------------------------------------------
LEMMA StepTellsAll ==
  ASSUME ConsistentAll, ToldOK, [Next]_vars
  PROVE  [WithoutLogs(FoldLeft(Apply, Committed, logs')) = WithoutLogs(Storage')]_<<contractVars, logs>>
<1>1. ASSUME ToldAfter
      PROVE  WithoutLogs(FoldLeft(Apply, Committed, logs')) = WithoutLogs(Storage')
  <2>1. PICK log, s : log = logs' /\ s = Storage'
    OBVIOUS
  <2>2. IsLog(log) /\ Tells(Committed, log, s)
    BY <1>1, <2>1 DEF ToldAfter
  <2>3. WithoutLogs(FoldLeft(Apply, Committed, log)) = WithoutLogs(s)
    BY <2>2, Replays
  <2> QED
    BY <2>1, <2>3
<1>2. ASSUME NEW sender \in Accounts,
             \/ OwnershipMessage(sender)
             \/ ApprovalMessage(sender)
             \/ TransferMessage(sender)
             \/ SafeTransferMessage(sender)
             \/ MintMessage(sender)
      PROVE  ToldAfter
  BY <1>2, StorageTold, MessagesTold
<1> QED
  BY <1>1, <1>2, RejectTold, OtherSteps DEF Next

ToldInv == ConsistentAll /\ ToldOK

(* Replaying the events of a transaction gives the state of the contract.   *)
THEOREM EventsAlwaysTellAll == Spec => EventsTellAll
<1>1. Init => ToldInv
  BY InitConsistent, InitTold DEF ToldInv
<1>2. ToldInv /\ [Next]_vars => ToldInv'
  BY StepConsistent, StepToldOK DEF ToldInv
<1>3. ToldInv /\ [Next]_vars =>
        [WithoutLogs(FoldLeft(Apply, Committed, logs')) = WithoutLogs(Storage')]_<<contractVars, logs>>
  BY StepTellsAll DEF ToldInv
<1> QED
  BY <1>1, <1>2, <1>3, PTL DEF Spec, EventsTellAll
------------------------------------------------------------------------------
(* Who may be approved for what after a message, by what it did.            *)
ApprovalKept(id) == Held(id) /\ tokenApprovals'[id] = tokenApprovals[id]

ApprovalGiven(id) ==
  /\ Held(id)
  /\ msgSender' = tokenOwners[id] \/ IsApprovedForAll(tokenOwners[id], msgSender')

LapsesFor(id) ==
  tokenApprovals'[id] # ZERO =>
    /\ Held(id)
    /\ tokenApprovals'[id] # tokenOwners[id]
    /\ \/ tokenApprovals'[id] = tokenApprovals[id]
       \/ msgSender' = tokenOwners[id]
       \/ IsApprovedForAll(tokenOwners[id], msgSender')

(* The new approval is not the holder's, since the next storage is          *)
(* consistent: only who gave it, and for which token, is left to show.      *)
LEMMA LapsesByKind ==
  ASSUME ConsistentAll', NEW id \in TokenIds,
         tokenApprovals'[id] # ZERO => ApprovalKept(id) \/ ApprovalGiven(id)
  PROVE  LapsesFor(id)
BY DEF ConsistentAll, Consistent, OthersApprovedIn, Storage, LapsesFor, ApprovalKept, ApprovalGiven, Held

(* The events of a message follow those of its transaction.                 *)
LEMMA NotMoved ==
  ASSUME IsLog(TransactionLogs), NEW E, NEW events \in Seq(E), logs' = TransactionLogs \o events,
         NEW id, \A e \in E : e.event = "Transfer" => e.tokenId # id
  PROVE  ~HasMoved(id)
<1>1. PICK S : TransactionLogs \in Seq(S)
  BY DEF IsLog
<1> DEFINE T == S \cup E
           before == TransactionLogs
           n == Len(before)
<1>2. before \in Seq(T) /\ events \in Seq(T)
  BY <1>1, SeqMonotonic
<1>3. n \in Nat /\ Len(events) \in Nat /\ DOMAIN events = 1 .. Len(events)
  BY <1>2, LenProperties
<1>4. \A k \in 1 .. Len(events) : events[k] \in E
  BY ElementOfSeq
<1>5. logs' = before \o events
  OBVIOUS
<1> HIDE DEF T, before
<1>6. /\ Len(logs') = n + Len(events)
      /\ \A i \in 1 .. n + Len(events) :
           logs'[i] = IF i <= n THEN before[i] ELSE events[i - n]
  BY <1>2, <1>5, ConcatProperties
<1>7. \A i \in n + 1 .. Len(logs') : logs'[i] \in E
  <2> SUFFICES ASSUME NEW i \in n + 1 .. Len(logs') PROVE logs'[i] \in E
    OBVIOUS
  <2>1. i \in 1 .. n + Len(events) /\ ~(i <= n) /\ i - n \in 1 .. Len(events)
    BY <1>3, <1>6
  <2> QED
    BY <1>4, <1>6, <2>1
<1> QED
  BY <1>7 DEF HasMoved, before

LEMMA OneNotMoved ==
  ASSUME IsLog(TransactionLogs), NEW e, Emit(<<e>>), NEW id, e.event # "Transfer"
  PROVE  ~HasMoved(id)
<1> DEFINE events == <<e>>
           E == {e}
<1>1. events \in Seq(E) /\ \A d \in E : d.event = "Transfer" => d.tokenId # id
  OBVIOUS
<1>2. logs' = TransactionLogs \o events
  BY DEF Emit
<1> HIDE DEF events, E
<1> QED
  BY <1>1, <1>2, NotMoved

(* A message that moves no token leaves approvals alone or gives one.       *)
LEMMA MintLapses ==
  ASSUME ConsistentAll, ConsistentAll', IsLog(TransactionLogs), NEW id \in TokenIds,
         NEW publication \in Publications, NEW serialNumber \in Bytes4,
         Mint(publication, serialNumber)
  PROVE  LapsesFor(id)
<1> SUFFICES ASSUME tokenApprovals'[id] # ZERO PROVE ApprovalKept(id)
  BY LapsesByKind
<1> DEFINE tokenId == Eip712HashZapData(publication, serialNumber)
           fingerprint == Eip712HashSeriesFingerprint(publication.ipfsHash, publication.zapper)
           a == TransferEvent(ZERO, publication.zapper, tokenId)
           b == MintEvent(publication, serialNumber)
           c == PublishEvent(publication)
           events == (IF Published(fingerprint) THEN <<>> ELSE <<c>>) \o <<a, b>>
<1>1. MintToken(publication.zapper, tokenId) /\ Emit(events)
  BY DEF Mint
<1>2. a.tokenId = tokenId /\ b.event = "Mint" /\ c.event = "Publish"
  BY DEF TransferEvent, MintEvent, PublishEvent
<1> HIDE DEF tokenId, fingerprint, a, b, c
<1>3. /\ UNCHANGED tokenApprovals
      /\ id \in DOMAIN tokenOwners /\ id # tokenId
      /\ id \in DOMAIN tokenOwners' /\ tokenOwners'[id] = tokenOwners[id]
  BY <1>1 DEF MintToken, AddToken, SetTokenOwner, Exists, ConsistentAll, Consistent, OthersApprovedIn, Storage
<1> DEFINE E == {a, b, c}
<1>4. events \in Seq(E)
  <2>1. <<a, b>> \in Seq(E) /\ <<>> \in Seq(E) /\ <<c>> \in Seq(E)
    OBVIOUS
  <2> HIDE DEF E
  <2> QED
    BY <2>1, ConcatProperties
<1>5. \A e \in E : e.event = "Transfer" => e.tokenId # id
  BY <1>2, <1>3
<1>6. logs' = TransactionLogs \o events
  BY <1>1 DEF Emit
<1> HIDE DEF events, E
<1>7. ~HasMoved(id)
  BY <1>4, <1>5, <1>6, NotMoved
<1> QED
  BY <1>3, <1>7 DEF ApprovalKept, Held

LEMMA TransferLapses ==
  ASSUME ConsistentAll, ConsistentAll', IsLog(TransactionLogs), NEW id \in TokenIds, NEW sender,
         NEW token, NEW from, NEW to, TransferFrom(sender, from, to, token)
  PROVE  LapsesFor(id)
<1> SUFFICES ASSUME tokenApprovals'[id] # ZERO PROVE ApprovalKept(id)
  BY LapsesByKind
<1> DEFINE a == ApprovalEvent(from, ZERO, token)
           b == TransferEvent(from, to, token)
<1>1. a.event = "Approval" /\ b.tokenId = token
  BY DEF ApprovalEvent, TransferEvent
<1>2. /\ ClearApproval(token) /\ MoveToken(from, to, token)
      /\ logs' = TransactionLogs \o <<a, b>>
  BY DEF TransferFrom, Emit
<1> HIDE DEF a, b
<1>3. tokenApprovals \in [TokenIds -> Address]
  BY DEF ConsistentAll, Consistent, StorageTypeOK, Storage
<1>4. id # token /\ tokenApprovals'[id] = tokenApprovals[id]
  BY <1>2, <1>3 DEF ClearApproval
<1>5. id \in DOMAIN tokenOwners
  BY <1>4 DEF ConsistentAll, Consistent, OthersApprovedIn, Storage
<1>6. id \in DOMAIN tokenOwners' /\ tokenOwners'[id] = tokenOwners[id]
  BY <1>2, <1>4, <1>5 DEF MoveToken, SetTokenOwner
<1> DEFINE E == {a, b}
           events == <<a, b>>
<1>7. events \in Seq(E) /\ \A e \in E : e.event = "Transfer" => e.tokenId # id
  BY <1>1, <1>4
<1>8. ~HasMoved(id)
  <2>1. logs' = TransactionLogs \o events
    BY <1>2
  <2> HIDE DEF E, events
  <2> QED
    BY <1>7, <2>1, NotMoved
<1> QED
  BY <1>4, <1>5, <1>6, <1>8 DEF ApprovalKept, Held

LEMMA ApprovalLapses ==
  ASSUME ConsistentAll, ConsistentAll', IsLog(TransactionLogs), NEW id \in TokenIds,
         NEW sender, ApprovalMessage(sender)
  PROVE  LapsesFor(id)
<1> SUFFICES ASSUME tokenApprovals'[id] # ZERO PROVE ApprovalKept(id) \/ ApprovalGiven(id)
  BY LapsesByKind
<1>1. ASSUME NEW token, NEW to, Approve(sender, to, token)
      PROVE  ~HasMoved(id)
  <2> DEFINE e == ApprovalEvent(tokenOwners[token], to, token)
  <2>1. Emit(<<e>>) /\ e.event # "Transfer"
    BY <1>1 DEF Approve, ApprovalEvent
  <2> HIDE DEF e
  <2> QED
    BY <2>1, OneNotMoved
<1>2. ASSUME NEW operator, NEW approved, SetApprovalForAll(sender, operator, approved)
      PROVE  ~HasMoved(id)
  <2> DEFINE e == ApprovalForAllEvent(sender, operator, approved)
  <2>1. Emit(<<e>>) /\ e.event # "Transfer"
    BY <1>2 DEF SetApprovalForAll, ApprovalForAllEvent
  <2> HIDE DEF e
  <2> QED
    BY <2>1, OneNotMoved
<1>3. ~HasMoved(id)
  BY <1>1, <1>2 DEF ApprovalMessage
<1>4. tokenApprovals \in [TokenIds -> Address] /\ UNCHANGED tokenOwners
  BY DEF ConsistentAll, Consistent, StorageTypeOK, Storage, ApprovalMessage, Approve, SetApprovalForAll
<1>5. CASE tokenApprovals'[id] = tokenApprovals[id]
  <2>1. id \in DOMAIN tokenOwners
    BY <1>5 DEF ConsistentAll, Consistent, OthersApprovedIn, Storage
  <2> QED
    BY <1>3, <1>4, <1>5, <2>1 DEF ApprovalKept, Held
<1>6. CASE tokenApprovals'[id] # tokenApprovals[id]
  <2>1. PICK token \in TokenIds, to \in Address : Approve(sender, to, token)
    BY <1>6 DEF ApprovalMessage, SetApprovalForAll
  <2>2. id = token
    BY <1>4, <1>6, <2>1 DEF Approve
  <2>3. id \in DOMAIN tokenOwners /\ msgSender' = sender
    BY <2>1, <2>2 DEF Approve, Exists, Message
  <2> QED
    BY <1>3, <1>4, <2>1, <2>2, <2>3 DEF ApprovalGiven, Held, Approve
<1> QED
  BY <1>5, <1>6

LEMMA OwnershipLapses ==
  ASSUME ConsistentAll, ConsistentAll', IsLog(TransactionLogs), NEW id \in TokenIds,
         NEW sender, OwnershipMessage(sender)
  PROVE  LapsesFor(id)
<1> SUFFICES ASSUME tokenApprovals'[id] # ZERO PROVE ApprovalKept(id)
  BY LapsesByKind
<1>1. ASSUME NEW newOwner, Emit(<<OwnershipTransferred(contractOwner, newOwner)>>)
      PROVE  ~HasMoved(id)
  <2> DEFINE e == OwnershipTransferred(contractOwner, newOwner)
  <2>1. Emit(<<e>>) /\ e.event # "Transfer"
    BY <1>1 DEF OwnershipTransferred
  <2> HIDE DEF e
  <2> QED
    BY <2>1, OneNotMoved
<1>2. \E newOwner : Emit(<<OwnershipTransferred(contractOwner, newOwner)>>)
  BY DEF OwnershipMessage, RenounceOwnership, TransferOwnership
<1>3. ~HasMoved(id)
  BY <1>1, <1>2
<1>4. UNCHANGED <<tokenApprovals, tokenOwners>>
  BY DEF OwnershipMessage, erc721Vars
<1>5. id \in DOMAIN tokenOwners
  BY <1>4 DEF ConsistentAll, Consistent, OthersApprovedIn, Storage
<1> QED
  BY <1>3, <1>4, <1>5 DEF ApprovalKept, Held

LEMMA StepLapses ==
  ASSUME ConsistentAll, ConsistentAll', ToldOK, [Next]_vars
  PROVE  [IF Len(callStack') < Len(callStack)
          THEN LET saved == callStack[Len(callStack)]
               IN  tokenOwners' = saved.tokenOwners /\ tokenApprovals' = saved.tokenApprovals
          ELSE \A id \in TokenIds : LapsesFor(id)]_<<contractVars, logs>>
<1> DEFINE P == IF Len(callStack') < Len(callStack)
                THEN LET saved == callStack[Len(callStack)]
                     IN  tokenOwners' = saved.tokenOwners /\ tokenApprovals' = saved.tokenApprovals
                ELSE \A id \in TokenIds : LapsesFor(id)
<1>1. ASSUME NEW sender \in Accounts,
             \/ OwnershipMessage(sender)
             \/ ApprovalMessage(sender)
             \/ TransferMessage(sender)
             \/ SafeTransferMessage(sender)
             \/ MintMessage(sender)
      PROVE  P
  <2>1. ToldSoFar /\ IsLog(TransactionLogs)
    BY StorageTold DEF ToldSoFar
  <2>2. UNCHANGED callStack \/ callStack' = Append(callStack, Storage)
    BY <1>1, <2>1, MessagesTold
  <2>3. Len(callStack) \in Nat /\ ~(Len(callStack') < Len(callStack))
    BY <2>2, StackIndices, PushElements
  <2>4. ASSUME NEW id \in TokenIds PROVE LapsesFor(id)
    <3>1. CASE OwnershipMessage(sender)
      BY <2>1, <3>1, OwnershipLapses
    <3>2. CASE ApprovalMessage(sender)
      BY <2>1, <3>2, ApprovalLapses
    <3>3. CASE TransferMessage(sender) \/ SafeTransferMessage(sender)
      <4>1. PICK token, from, to : TransferFrom(sender, from, to, token)
        BY <3>3 DEF TransferMessage, SafeTransferMessage
      <4> QED
        BY <2>1, <4>1, TransferLapses
    <3>4. CASE MintMessage(sender)
      BY <2>1, <3>4, MintMessageMints, MintLapses
    <3> QED
      BY <1>1, <3>1, <3>2, <3>3, <3>4
  <2> QED
    BY <2>3, <2>4
<1>2. ASSUME ReceiverRejects PROVE P
  BY <1>2, StackShrinks DEF ReceiverRejects, Restore
<1> HIDE DEF P
<1>3. ASSUME ReceiverAccepts \/ SignMintIntent \/ Fork \/ UNCHANGED vars
      PROVE  UNCHANGED <<contractVars, logs>>
  BY <1>3, OtherSteps
<1>4. P \/ UNCHANGED <<contractVars, logs>>
  <2>1. CASE \E sender \in Accounts :
               \/ OwnershipMessage(sender)
               \/ ApprovalMessage(sender)
               \/ TransferMessage(sender)
               \/ SafeTransferMessage(sender)
               \/ MintMessage(sender)
    BY <1>1, <2>1
  <2> QED
    BY <1>2, <1>3, <2>1 DEF Next
<1> QED
  BY <1>4 DEF P

(* No approval outlives the holding of the token it was given for.          *)
THEOREM ApprovalsAlwaysLapse == Spec => ApprovalsLapse
<1>1. Init => ToldInv
  BY InitConsistent, InitTold DEF ToldInv
<1>2. ToldInv /\ [Next]_vars => ToldInv'
  BY StepConsistent, StepToldOK DEF ToldInv
<1>3. ToldInv /\ ToldInv' /\ [Next]_vars =>
        [IF Len(callStack') < Len(callStack)
         THEN LET saved == callStack[Len(callStack)]
              IN  tokenOwners' = saved.tokenOwners /\ tokenApprovals' = saved.tokenApprovals
         ELSE \A id \in TokenIds : tokenApprovals'[id] # ZERO =>
                /\ Held(id)
                /\ tokenApprovals'[id] # tokenOwners[id]
                /\ \/ tokenApprovals'[id] = tokenApprovals[id]
                   \/ msgSender' = tokenOwners[id]
                   \/ IsApprovedForAll(tokenOwners[id], msgSender')]_<<contractVars, logs>>
  BY StepLapses DEF ToldInv, LapsesFor
<1> QED
  BY <1>1, <1>2, <1>3, PTL DEF Spec, ApprovalsLapse
==============================================================================
