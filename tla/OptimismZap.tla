----------------------------- MODULE OptimismZap -----------------------------
(***************************************************************************)
(* The contract: an ERC721 token ledger whose tokens, the Zaps, are minted *)
(* in limited series.  The first mint of a series publishes it, and fixes  *)
(* its total; every mint needs the consent of the contract's owner and of  *)
(* the zapper, each given by sending the message or by a signature.        *)
(***************************************************************************)
EXTENDS ERC721, EIP712, Ownable

CONSTANTS
  IpfsHashes,  \* bytes32
  ZERO_HASH,   \* bytes32(0)
  MaxBytes4    \* the largest bytes4: seriesTotal and serialNumber are compared as numbers

ASSUME HashAssumption == ZERO_HASH \in IpfsHashes
ASSUME Bytes4Assumption == MaxBytes4 \in Nat

VARIABLE seriesPublications

Bytes4 == 0 .. MaxBytes4

SeriesPublication(ipfsHash, zapper, seriesTotal) ==
  [ipfsHash |-> ipfsHash, zapper |-> zapper, seriesTotal |-> seriesTotal]

Publications == [ipfsHash: IpfsHashes, zapper: Address, seriesTotal: Bytes4]

(* What reading a mapping gives for a key never written. *)
NoPublication == SeriesPublication(ZERO_HASH, ZERO, 0)

(* The data of ZapData and, the intent statement being a constant, of       *)
(* ZapMintIntent.                                                           *)
Zap(publication, serialNumber) ==
  [publication |-> publication, serialNumber |-> serialNumber]

Zaps == [publication: Publications, serialNumber: Bytes4]

(* The keys of seriesPublications. *)
FingerprintHashes ==
  [domain: Domains, type: {"SeriesFingerprint"}, data: [ipfsHash: IpfsHashes, zapper: Address]]

ZapIds == [domain: Domains, type: {"ZapData"}, data: Zaps]

ASSUME TokenIdAssumption == ZapIds \subseteq TokenIds

Eip712HashZapMintIntent(publication, serialNumber) ==
  HashTypedDataV4("ZapMintIntent", Zap(publication, serialNumber))

Eip712HashZapData(publication, serialNumber) ==
  HashTypedDataV4("ZapData", Zap(publication, serialNumber))

Eip712HashSeriesFingerprint(ipfsHash, zapper) ==
  HashTypedDataV4("SeriesFingerprint", [ipfsHash |-> ipfsHash, zapper |-> zapper])

PublishEvent(publication) == [event |-> "Publish", publication |-> publication]

MintEvent(publication, serialNumber) ==
  [event |-> "Mint", publication |-> publication, serialNumber |-> serialNumber]

(* A struct in a mapping exists when its seriesTotal is not zero. *)
Published(fingerprint) == seriesPublications[fingerprint].seriesTotal # 0

(* Mutant: a published series takes Zaps of any total. *)
PublishWithoutMatch(fingerprint, publication) ==
  IF Published(fingerprint)
  THEN UNCHANGED seriesPublications
  ELSE seriesPublications' = [seriesPublications EXCEPT ![fingerprint] = publication]

(* Mutant: every mint publishes. *)
PublishAgain(fingerprint, publication) ==
  seriesPublications' = [seriesPublications EXCEPT ![fingerprint] = publication]

(* The first mint of a series publishes it, a later one must match it. *)
PublishOrMatch(fingerprint, publication) ==
  IF Published(fingerprint)
  THEN /\ seriesPublications[fingerprint].seriesTotal = publication.seriesTotal
       /\ UNCHANGED seriesPublications
  ELSE seriesPublications' = [seriesPublications EXCEPT ![fingerprint] = publication]

(* Mutant: serial numbers counted from one. *)
SerialNumberUpToTotal(publication, serialNumber) == serialNumber <= publication.seriesTotal

SerialNumberInSeries(publication, serialNumber) == serialNumber < publication.seriesTotal

(* Mutant: a serial number out of range ends the mint without reverting it. *)
MintOrReturn(publication, serialNumber) ==
  LET fingerprint == Eip712HashSeriesFingerprint(publication.ipfsHash, publication.zapper)
  IN  /\ PublishOrMatch(fingerprint, publication)
      /\ Emit(<<>>)
      /\ IF SerialNumberInSeries(publication, serialNumber)
         THEN MintToken(publication.zapper, Eip712HashZapData(publication, serialNumber))
         ELSE UNCHANGED erc721Vars

(* _mint: nothing of it is kept unless all of it succeeds. *)
Mint(publication, serialNumber) ==
  LET fingerprint == Eip712HashSeriesFingerprint(publication.ipfsHash, publication.zapper)
      tokenId == Eip712HashZapData(publication, serialNumber)
  IN  /\ PublishOrMatch(fingerprint, publication)
      /\ SerialNumberInSeries(publication, serialNumber)
      /\ MintToken(publication.zapper, tokenId)
      /\ Emit((IF Published(fingerprint) THEN <<>> ELSE <<PublishEvent(publication)>>)
                \o <<TransferEvent(ZERO, publication.zapper, tokenId),
                     MintEvent(publication, serialNumber)>>)

MintByOwnerForOwner(sender, ipfsHash, seriesTotal, serialNumber) ==
  /\ Message(sender)
  /\ OnlyOwner(sender)
  /\ Mint(SeriesPublication(ipfsHash, contractOwner, seriesTotal), serialNumber)

MintByOwner(sender, publication, serialNumber, zapperSignature) ==
  /\ Message(sender)
  /\ OnlyOwner(sender)
  /\ Recovers(Eip712HashZapMintIntent(publication, serialNumber), zapperSignature, publication.zapper)
  /\ Mint(publication, serialNumber)

MintByZapper(sender, ipfsHash, seriesTotal, serialNumber, ownerSignature) ==
  LET publication == SeriesPublication(ipfsHash, sender, seriesTotal)
  IN  /\ Message(sender)
      /\ Recovers(Eip712HashZapMintIntent(publication, serialNumber), ownerSignature, contractOwner)
      /\ Mint(publication, serialNumber)

MintBySignatures(sender, publication, serialNumber, zapperSignature, ownerSignature) ==
  LET digest == Eip712HashZapMintIntent(publication, serialNumber)
  IN  /\ Message(sender)
      /\ Recovers(digest, zapperSignature, publication.zapper)
      /\ Recovers(digest, ownerSignature, contractOwner)
      /\ Mint(publication, serialNumber)
==============================================================================
