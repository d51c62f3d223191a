------------------------------ MODULE HashUtils ------------------------------
(***************************************************************************)
(* The bytes behind the digests. The client hashes typed data field by     *)
(* field, as lists of fields tell it to; the contract hashes what          *)
(* abi.encode makes of a struct and a constant. Module EIP712 takes a      *)
(* digest to be the record of what was hashed; here it is computed, by     *)
(* both sides. Only keccak256 itself is taken to be injective.             *)
(***************************************************************************)
EXTENDS ZapChain

CONSTANT ByteValues  \* the number of values a byte has

ASSUME ByteAssumption ==
  ByteValues \in Nat \ {0, 1} /\ MaxBytes4 < ByteValues * ByteValues * ByteValues * ByteValues

(* A domain has the four fields that the client gives it.                   *)
ASSUME DomainAssumption ==
  \A domain \in SigningDomains :
    domain = [name |-> domain.name, version |-> domain.version,
              chainId |-> domain.chainId, verifyingContract |-> domain.verifyingContract]

Keccak256(preimage) == [keccak256 |-> preimage]
------------------------------------------------------------------------------
(* Numbers as bytes4                                                        *)

(* Mutant: padded behind, as strings are. *)
PadBehind(n) ==
  LET digits == CHOOSE k \in 1 .. 4 : n < ByteValues ^ k /\ \A j \in 1 .. k - 1 : n >= ByteValues ^ j
  IN  [i \in 1 .. 4 |-> IF i <= digits THEN (n \div ByteValues ^ (digits - i)) % ByteValues ELSE 0]

(* bytes4ify: hexlify takes one byte of the number after the other, the     *)
(* lowest first, and puts each before the last; hexZeroPad fills up to four *)
(* in front, and throws rather than give more.                              *)
HigherBytes(n) == n \div ByteValues

Bytes4ify(n) ==
  LET h == HigherBytes(n)
      hh == HigherBytes(h)
  IN  <<HigherBytes(hh) % ByteValues, hh % ByteValues, h % ByteValues, n % ByteValues>>

(* How the contract compares two bytes4: by the first byte that differs.    *)
Bytes4Less(x, y) == \E i \in 1 .. 4 : x[i] < y[i] /\ \A j \in 1 .. i - 1 : x[j] = y[j]
------------------------------------------------------------------------------
(* Words: numbers and addresses fill the end of one, bytes4 its beginning.  *)
Zeros == <<0, 0, 0, 0>>
PadLeft(value) == <<Zeros, value>>
PadRight(bytes) == <<bytes, Zeros>>
------------------------------------------------------------------------------
(* The client                                                               *)
Field(type, name) == [type |-> type, name |-> name]

EIP712Domain ==
  <<Field("string", "name"), Field("string", "version"),
    Field("uint256", "chainId"), Field("address", "verifyingContract")>>

SeriesFingerprintFields == <<Field("bytes32", "ipfsHash"), Field("address", "zapper")>>

SeriesPublicationFields == Append(SeriesFingerprintFields, Field("bytes4", "seriesTotal"))

ZapDataFields == Append(SeriesPublicationFields, Field("bytes4", "serialNumber"))

(* Mutant: the zapper comes first. *)
ZapperFirstFields ==
  <<Field("string", "mintIntent"), Field("address", "zapper"), Field("bytes32", "ipfsHash"),
    Field("bytes4", "seriesTotal"), Field("bytes4", "serialNumber")>>

ZapMintIntentFields == <<Field("string", "mintIntent")>> \o ZapDataFields

MINT_INTENT_STATEMENT == "I intend to mint this Zap NFT."

(* What a digest is a digest of, as the message the client fills in.        *)
SeriesMessage(publication) ==
  [ipfsHash |-> publication.ipfsHash, zapper |-> publication.zapper,
   seriesTotal |-> Bytes4ify(publication.seriesTotal)]

ZapMessage(zap) ==
  [mintIntent |-> MINT_INTENT_STATEMENT,
   ipfsHash |-> zap.publication.ipfsHash, zapper |-> zap.publication.zapper,
   seriesTotal |-> Bytes4ify(zap.publication.seriesTotal),
   serialNumber |-> Bytes4ify(zap.serialNumber)]

(* TypedDataUtils of eth-sig-util                                           *)
FieldWord(type, value) ==
  CASE type = "string" -> Keccak256(value)
    [] type = "bytes32" -> value
    [] type = "bytes4" -> PadRight(value)
    [] type \in {"address", "uint256"} -> PadLeft(value)

HashStruct(name, fields, message) ==
  Keccak256(<<Keccak256(<<name, fields>>)>>
              \o [i \in DOMAIN fields |-> FieldWord(fields[i].type, message[fields[i].name])])

SignTypedData(domain, name, fields, message) ==
  Keccak256(<<HashStruct("EIP712Domain", EIP712Domain, domain), HashStruct(name, fields, message)>>)

(* eip712HashZapMintIntent and its sisters.                                 *)
ClientHash(digest) ==
  CASE digest.type = "ZapMintIntent" ->
         SignTypedData(digest.domain, "ZapMintIntent", ZapMintIntentFields, ZapMessage(digest.data))
    [] digest.type = "ZapData" ->
         SignTypedData(digest.domain, "ZapData", ZapDataFields, ZapMessage(digest.data))
    [] digest.type = "SeriesPublication" ->
         SignTypedData(digest.domain, "SeriesPublication", SeriesPublicationFields, SeriesMessage(digest.data))
    [] digest.type = "SeriesFingerprint" ->
         SignTypedData(digest.domain, "SeriesFingerprint", SeriesFingerprintFields, digest.data)
------------------------------------------------------------------------------
(* The contract                                                             *)
ZAP_MINT_INTENT_TYPE ==
  <<"ZapMintIntent",
    <<Field("string", "mintIntent"), Field("bytes32", "ipfsHash"), Field("address", "zapper"),
      Field("bytes4", "seriesTotal"), Field("bytes4", "serialNumber")>> >>

ZAP_DATA_TYPE ==
  <<"ZapData",
    <<Field("bytes32", "ipfsHash"), Field("address", "zapper"),
      Field("bytes4", "seriesTotal"), Field("bytes4", "serialNumber")>> >>

SERIES_PUBLICATION_TYPE ==
  <<"SeriesPublication",
    <<Field("bytes32", "ipfsHash"), Field("address", "zapper"), Field("bytes4", "seriesTotal")>> >>

SERIES_FINGERPRINT_TYPE ==
  <<"SeriesFingerprint", <<Field("bytes32", "ipfsHash"), Field("address", "zapper")>> >>

DOMAIN_TYPE ==
  <<"EIP712Domain",
    <<Field("string", "name"), Field("string", "version"),
      Field("uint256", "chainId"), Field("address", "verifyingContract")>> >>

(* abi.encode of structs without dynamic members: one word for each. *)
AbiFingerprint(fingerprint) == <<fingerprint.ipfsHash, PadLeft(fingerprint.zapper)>>

AbiPublication(publication) ==
  AbiFingerprint(publication) \o <<PadRight(Bytes4ify(publication.seriesTotal))>>

AbiSerialNumber(zap) == <<PadRight(Bytes4ify(zap.serialNumber))>>

AbiDomain(domain) ==
  <<Keccak256(DOMAIN_TYPE), Keccak256(domain.name), Keccak256(domain.version),
    PadLeft(domain.chainId), PadLeft(domain.verifyingContract)>>

(* What the four hash functions of the contract encode. *)
AbiStruct(digest) ==
  CASE digest.type = "ZapMintIntent" ->
         <<Keccak256(ZAP_MINT_INTENT_TYPE), Keccak256(MINT_INTENT_STATEMENT)>>
           \o AbiPublication(digest.data.publication) \o AbiSerialNumber(digest.data)
    [] digest.type = "ZapData" ->
         <<Keccak256(ZAP_DATA_TYPE)>>
           \o AbiPublication(digest.data.publication) \o AbiSerialNumber(digest.data)
    [] digest.type = "SeriesPublication" ->
         <<Keccak256(SERIES_PUBLICATION_TYPE)>> \o AbiPublication(digest.data)
    [] digest.type = "SeriesFingerprint" ->
         <<Keccak256(SERIES_FINGERPRINT_TYPE)>> \o AbiFingerprint(digest.data)

ContractHash(digest) ==
  Keccak256(<<Keccak256(AbiDomain(digest.domain)), Keccak256(AbiStruct(digest))>>)
------------------------------------------------------------------------------
(* All digests that can be asked for, so that TLC computes each of their    *)
(* hashes once.                                                             *)
Digests ==
  UNION {{signature.digest : signature \in Signatures}, ZapIds, FingerprintHashes,
         {TypedDataHash(domain, "SeriesPublication", publication) :
            domain \in Domains, publication \in Publications}}

SameOnBothSides == {digest \in Digests : ClientHash(digest) = ContractHash(digest)}

Ambiguous ==
  {pair[1] : pair \in {p \in Digests \X Digests : p[1] # p[2] /\ ContractHash(p[1]) = ContractHash(p[2])}}

OrderedAsNumbers ==
  {total \in Bytes4 : \A n \in Bytes4 : Bytes4Less(Bytes4ify(n), Bytes4ify(total)) <=> n < total}

(* The digests of all that was signed, minted and published, the contract's *)
(* own hash of a publication included.                                      *)
DigestsInUse ==
  {signature.digest : signature \in signed} \cup DOMAIN tokenOwners
    \cup UNION {{fingerprint, HashTypedDataV4("SeriesPublication", seriesPublications[fingerprint])} :
                  fingerprint \in {f \in FingerprintHashes : Published(f)}}

(* What the client computes off chain is what the contract computes: a      *)
(* signature collected with it is recovered, and the ids of Zaps and series *)
(* it predicts are the ones minted and published, for every domain. And it  *)
(* is the hash of nothing else, of another type, for another chain or with  *)
(* another number, as long as keccak256 has no collisions.                  *)
ClientComputesContractHashes == DigestsInUse \subseteq SameOnBothSides \ Ambiguous

(* The contract compares bytes and the client pads numbers: a serial number *)
(* passes the check against the published total exactly when, as a number,  *)
(* it is smaller.                                                           *)
BytesCompareAsNumbers ==
  \A fingerprint \in FingerprintHashes :
    Published(fingerprint) => seriesPublications[fingerprint].seriesTotal \in OrderedAsNumbers
==============================================================================
