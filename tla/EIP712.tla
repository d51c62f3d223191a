-------------------------------- MODULE EIP712 -------------------------------
(***************************************************************************)
(* Hashing and signing of typed data, as the OpenZeppelin EIP712 and ECDSA *)
(* contracts do it.  keccak256 is taken to be injective: a hash is the     *)
(* record of what was hashed.  A digest commits to the domain, hence to    *)
(* the chain the contract runs on at the moment, which a fork changes.     *)
(***************************************************************************)
EXTENDS Evm

CONSTANTS
  Version,        \* the version string given to the constructor
  This,           \* the address of the contract
  ChainIds,       \* the chain ids the contract's chain may have
  DeployChainId,  \* the one at deployment (_CACHED_CHAIN_ID)
  GARBAGE,        \* a well-formed signature from which ecrecover recovers nothing
  NOBODY          \* stands for the addresses whose key nobody has

ASSUME ChainAssumption == DeployChainId \in ChainIds
ASSUME NobodyAssumption == NOBODY \notin Address

VARIABLE chainId  \* the id of the chain at the moment

BuildDomainSeparator(chain) ==
  [name |-> "Zap", version |-> Version, chainId |-> chain, verifyingContract |-> This]

(* Every domain separator the contract can ever compute. *)
Domains == {BuildDomainSeparator(chain) : chain \in ChainIds}

CachedDomainSeparator == BuildDomainSeparator(DeployChainId)

(* Mutant: the separator cached at deployment is used for ever. *)
AlwaysCachedSeparator == CachedDomainSeparator

DomainSeparatorV4 ==
  IF chainId = DeployChainId THEN CachedDomainSeparator ELSE BuildDomainSeparator(chainId)

TypedDataHash(domain, type, data) == [domain |-> domain, type |-> type, data |-> data]

HashTypedDataV4(type, data) == TypedDataHash(DomainSeparatorV4, type, data)

(* A signature names its signer and the digest it was made for.  For any    *)
(* other digest ecrecover returns an address whose key nobody has.          *)
Signature(signer, digest) == [signer |-> signer, digest |-> digest]

Ecrecover(digest, signature) ==
  IF signature = GARBAGE THEN ZERO
  ELSE IF signature.digest = digest THEN signature.signer ELSE NOBODY

(* Mutant: recover accepts the zero address. *)
RecoversZeroToo(digest, signature, account) == Ecrecover(digest, signature) = account

(* require(digest.recover(signature) == account): recover itself reverts    *)
(* when ecrecover gives the zero address.                                   *)
Recovers(digest, signature, account) ==
  LET signer == Ecrecover(digest, signature)
  IN  signer # ZERO /\ signer = account
==============================================================================
