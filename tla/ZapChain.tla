------------------------------- MODULE ZapChain ------------------------------
(***************************************************************************)
(* The deployed contract at work: accounts sign mint intents off chain and *)
(* send messages in any order, a signature can be used by anybody and any  *)
(* number of times, the receiver of a safe transfer calls back into the    *)
(* contract and may still reject the token, and the chain may fork and     *)
(* continue under another chain id.                                        *)
(***************************************************************************)
EXTENDS OptimismZap, FiniteSets

CONSTANTS
  Deployer,         \* the account that deploys the contract
  SigningDomains,   \* the domains accounts are asked to sign for
  SignableIntents   \* the Zaps they are asked to sign a mint intent for

ASSUME DeployerAssumption == Deployer \in Accounts
ASSUME IntentAssumption == SignableIntents \subseteq Zaps

VARIABLE signed     \* the signatures made so far

contractVars == <<contractOwner, seriesPublications, erc721Vars>>
vars == <<contractVars, evmVars, chainId, signed>>

(* What a revert restores: the storage of the contract and the log. *)
Storage ==
  [contractOwner |-> contractOwner, seriesPublications |-> seriesPublications,
   tokenOwners |-> tokenOwners, holderTokens |-> holderTokens,
   tokenApprovals |-> tokenApprovals, operatorApprovals |-> operatorApprovals,
   logs |-> TransactionLogs]

Restore(saved) ==
  /\ contractOwner' = saved.contractOwner
  /\ seriesPublications' = saved.seriesPublications
  /\ tokenOwners' = saved.tokenOwners
  /\ holderTokens' = saved.holderTokens
  /\ tokenApprovals' = saved.tokenApprovals
  /\ operatorApprovals' = saved.operatorApprovals
  /\ logs' = saved.logs

Init ==
  /\ OwnableInit(Deployer)
  /\ ERC721Init
  /\ seriesPublications = [f \in FingerprintHashes |-> NoPublication]
  /\ chainId = DeployChainId
  /\ msgSender = Deployer
  /\ logs = <<OwnershipTransferred(ZERO, Deployer)>>
  /\ callStack = <<>>
  /\ signed = {}
------------------------------------------------------------------------------
OwnershipMessage(sender) ==
  /\ \/ RenounceOwnership(sender)
     \/ \E newOwner \in Address : TransferOwnership(sender, newOwner)
  /\ UNCHANGED <<seriesPublications, erc721Vars, callStack, chainId, signed>>

ApprovalMessage(sender) ==
  /\ \/ \E token \in TokenIds, to \in Address : Approve(sender, to, token)
     \/ \E operator \in Address, approved \in BOOLEAN :
          SetApprovalForAll(sender, operator, approved)
  /\ UNCHANGED <<contractOwner, seriesPublications, callStack, chainId, signed>>

TransferMessage(sender) ==
  /\ \E token \in TokenIds, from, to \in Address : TransferFrom(sender, from, to, token)
  /\ UNCHANGED <<contractOwner, seriesPublications, callStack, chainId, signed>>

(* _checkOnERC721Received: a receiver with code is called, and the message  *)
(* waits for its answer; without room for the call it reverts.              *)
CallReceiver(to) ==
  IF to \in Contracts
  THEN /\ Len(callStack) < MaxCallDepth
       /\ callStack' = Append(callStack, Storage)
  ELSE UNCHANGED callStack

SafeTransferMessage(sender) ==
  /\ \E token \in TokenIds, from, to \in Address :
       TransferFrom(sender, from, to, token) /\ CallReceiver(to)
  /\ UNCHANGED <<contractOwner, seriesPublications, chainId, signed>>

(* The receiver answers with the magic value: the transfer stands. *)
ReceiverAccepts ==
  /\ callStack # <<>>
  /\ callStack' = SubSeq(callStack, 1, Len(callStack) - 1)
  /\ UNCHANGED <<contractVars, msgSender, logs, chainId, signed>>

(* It does not implement the callback, reverts, or answers anything else:   *)
(* the message reverts, and with it all that happened during the call.      *)
ReceiverRejects ==
  /\ callStack # <<>>
  /\ Restore(callStack[Len(callStack)])
  /\ callStack' = SubSeq(callStack, 1, Len(callStack) - 1)
  /\ UNCHANGED <<msgSender, chainId, signed>>

(* The signatures that can be made, and those a message can carry. *)
Signatures ==
  {Signature(signer, TypedDataHash(domain, "ZapMintIntent", intent)) :
     signer \in Accounts \ Contracts, domain \in SigningDomains, intent \in SignableIntents}

SignatureData == signed \cup {GARBAGE}

MintMessage(sender) ==
  /\ \/ \E ipfsHash \in IpfsHashes, seriesTotal, serialNumber \in Bytes4 :
          MintByOwnerForOwner(sender, ipfsHash, seriesTotal, serialNumber)
     \/ \E signature \in SignatureData, publication \in Publications, serialNumber \in Bytes4 :
          MintByOwner(sender, publication, serialNumber, signature)
     \/ \E signature \in SignatureData, ipfsHash \in IpfsHashes, seriesTotal, serialNumber \in Bytes4 :
          MintByZapper(sender, ipfsHash, seriesTotal, serialNumber, signature)
     \/ \E zapperSignature, ownerSignature \in SignatureData,
           publication \in Publications, serialNumber \in Bytes4 :
          MintBySignatures(sender, publication, serialNumber, zapperSignature, ownerSignature)
  /\ UNCHANGED <<contractOwner, callStack, chainId, signed>>

(* An account with a key signs the typed data of a mint intent. *)
SignMintIntent ==
  /\ \E signature \in Signatures : signed' = signed \cup {signature}
  /\ UNCHANGED <<contractVars, evmVars, chainId>>

(* The chain continues under another id; the storage stays as it is. *)
Fork ==
  /\ callStack = <<>>
  /\ chainId' \in ChainIds \ {chainId}
  /\ UNCHANGED <<contractVars, evmVars, signed>>

Next ==
  \/ \E sender \in Accounts :
       \/ OwnershipMessage(sender)
       \/ ApprovalMessage(sender)
       \/ TransferMessage(sender)
       \/ SafeTransferMessage(sender)
       \/ MintMessage(sender)
  \/ ReceiverAccepts
  \/ ReceiverRejects
  \/ SignMintIntent
  \/ Fork

Spec == Init /\ [][Next]_vars
------------------------------------------------------------------------------
StorageTypeOK(s) ==
  /\ s.contractOwner \in Address
  /\ s.seriesPublications \in [FingerprintHashes -> Publications]
  /\ DOMAIN s.tokenOwners \subseteq ZapIds
  /\ s.tokenOwners \in [DOMAIN s.tokenOwners -> Address]
  /\ s.holderTokens \in [Address -> SUBSET ZapIds]
  /\ s.tokenApprovals \in [TokenIds -> Address]
  /\ s.operatorApprovals \in SUBSET (Address \X Address)

(* The states a revert may restore. *)
Saved == {callStack[i] : i \in DOMAIN callStack}

(* Type correctness, of the state and of every state a revert may restore:  *)
(* in particular every token id is the hash of a Zap.                       *)
TypeOK ==
  /\ StorageTypeOK(Storage)
  /\ callStack \in Seq(Saved)
  /\ \A saved \in Saved : StorageTypeOK(saved)
  /\ Len(callStack) <= MaxCallDepth
  /\ chainId \in ChainIds
  /\ msgSender \in Accounts
  /\ signed \subseteq Signatures
------------------------------------------------------------------------------
(* The series a Zap belongs to, as the key of its publication. *)
SeriesOf(id) ==
  TypedDataHash(id.domain, "SeriesFingerprint",
    [ipfsHash |-> id.data.publication.ipfsHash, zapper |-> id.data.publication.zapper])

ZapsOfSeries(s, fingerprint) == {id \in DOMAIN s.tokenOwners : SeriesOf(id) = fingerprint}

ZapsMatchSeriesIn(s) ==
  \A id \in DOMAIN s.tokenOwners :
    /\ s.seriesPublications[SeriesOf(id)] = id.data.publication
    /\ id.data.serialNumber < id.data.publication.seriesTotal

(* Every Zap was minted under the publication its series has now, with a    *)
(* serial number below the published total, whoever minted the first Zap of *)
(* the series and whatever total other signed intents for it name.          *)
ZapsMatchSeries == ZapsMatchSeriesIn(Storage)

(* A series is a limited edition: there are never more Zaps of it than its  *)
(* published total.                                                         *)
SupplyLimited ==
  \A fingerprint \in FingerprintHashes :
    Cardinality(ZapsOfSeries(Storage, fingerprint)) <= seriesPublications[fingerprint].seriesTotal

NoEmptySeriesIn(s) ==
  \A fingerprint \in FingerprintHashes :
    s.seriesPublications[fingerprint].seriesTotal # 0 => ZapsOfSeries(s, fingerprint) # {}

(* No series is published without a Zap of it: _mint writes the publication *)
(* before its last checks, so a mint that fails, or is undone by a receiver *)
(* that rejects a token, must take the publication back with it.            *)
NoEmptySeries == NoEmptySeriesIn(Storage)

HoldersAgreeIn(s) ==
  /\ \A id \in DOMAIN s.tokenOwners : s.tokenOwners[id] # ZERO
  /\ \A a \in Address :
       s.holderTokens[a] = {id \in DOMAIN s.tokenOwners : s.tokenOwners[id] = a}

(* The two records of who holds what agree after any sequence of mints,     *)
(* transfers (to oneself too), callbacks and reverts, and no token is held  *)
(* by the zero address: balanceOf, ownerOf and the enumeration never differ.*)
HoldersAgree == HoldersAgreeIn(Storage)

(* The series total is cemented for a SeriesFingerprint as the contract's   *)
(* comments define it, the pair of an IPFS hash and a zapper, whatever      *)
(* chain the publication was made on.                                       *)
FingerprintPublishedOnce ==
  \A f, g \in FingerprintHashes :
    f.data = g.data /\ Published(f) /\ Published(g) =>
      seriesPublications[f].seriesTotal = seriesPublications[g].seriesTotal
------------------------------------------------------------------------------
(* The state no revert can undo any more. *)
Committed == IF callStack = <<>> THEN Storage ELSE callStack[1]

(* What is published and minted in s is published and minted in t. *)
Extends(s, t) ==
  /\ \A fingerprint \in FingerprintHashes :
       s.seriesPublications[fingerprint].seriesTotal # 0 =>
         t.seriesPublications[fingerprint] = s.seriesPublications[fingerprint]
  /\ DOMAIN s.tokenOwners \subseteq DOMAIN t.tokenOwners

(* A SeriesFingerprint, hashed for the chain, is published once, cementing  *)
(* its total, and Zaps are never destroyed.                                 *)
SeriesCemented == [][Extends(Committed, Committed')]_vars

Consents(account, id) ==
  \/ msgSender' = account
  \/ Signature(account, TypedDataHash(id.domain, "ZapMintIntent", id.data)) \in signed

(* A Zap is only ever minted to its zapper, for the chain the contract runs *)
(* on, with the consent of the zapper and of whoever owns the contract at   *)
(* that moment: signatures of former owners, for other Zaps, other chains   *)
(* or other contracts count for nothing.                                    *)
MintNeedsConsent ==
  [][\A id \in DOMAIN tokenOwners' \ DOMAIN tokenOwners :
       /\ id.domain = BuildDomainSeparator(chainId)
       /\ tokenOwners'[id] = id.data.publication.zapper
       /\ Consents(contractOwner, id)
       /\ Consents(id.data.publication.zapper, id)]_vars

(* A minted token changes hands only through its holder, an address the     *)
(* holder approved, or an operator of the holder; or because the message    *)
(* that moved it reverts.  In particular a mint signature replayed after    *)
(* the Zap was passed on does not bring it back.                            *)
TransferNeedsConsent ==
  [][\A id \in DOMAIN tokenOwners :
       Len(callStack') < Len(callStack) \/
         /\ id \in DOMAIN tokenOwners'
         /\ \/ tokenOwners'[id] = tokenOwners[id]
            \/ msgSender' \in {tokenOwners[id], tokenApprovals[id]}
            \/ <<tokenOwners[id], msgSender'>> \in operatorApprovals]_vars

(* The step moves the token and says so in its log, if to its holder again. *)
HasMoved(id) ==
  \E i \in Len(TransactionLogs) + 1 .. Len(logs') :
    logs'[i].event = "Transfer" /\ logs'[i].tokenId = id

Held(id) ==
  /\ id \in DOMAIN tokenOwners
  /\ id \in DOMAIN tokenOwners'
  /\ tokenOwners'[id] = tokenOwners[id]
  /\ ~HasMoved(id)

(* An approval ends with the holding it was given for.  After any message   *)
(* the approvals in force are those of tokens that were not moved, not even *)
(* to their holder, nor minted by it; they name somebody else than the      *)
(* holder, and are those there were or given by the holder or an operator   *)
(* of it.  A revert brings approvals back only with the holdings they       *)
(* belong to.                                                               *)
ApprovalsLapse ==
  [][IF Len(callStack') < Len(callStack)
     THEN LET saved == callStack[Len(callStack)]
          IN  tokenOwners' = saved.tokenOwners /\ tokenApprovals' = saved.tokenApprovals
     ELSE \A id \in TokenIds : tokenApprovals'[id] # ZERO =>
            /\ Held(id)
            /\ tokenApprovals'[id] # tokenOwners[id]
            /\ \/ tokenApprovals'[id] = tokenApprovals[id]
               \/ msgSender' = tokenOwners[id]
               \/ IsApprovedForAll(tokenOwners[id], msgSender')]_<<contractVars, logs>>

(* Once renounced, the contract has no owner and mints nothing, for ever,   *)
(* even though ecrecover answers the zero address to invalid signatures.    *)
RenouncedForever ==
  [][contractOwner = ZERO /\ Len(callStack') >= Len(callStack) =>
       contractOwner' = ZERO /\ DOMAIN tokenOwners' = DOMAIN tokenOwners]_vars
==============================================================================
