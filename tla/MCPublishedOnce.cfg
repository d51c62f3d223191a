CONSTANTS
  owner = owner
  zapper = zapper
  ZERO = ZERO
  GARBAGE = GARBAGE
  NOBODY = NOBODY
  zap = zap
  other = other
  h0 = h0
  Accounts = {owner, zapper}
  Contracts = {}
  MaxCallDepth = 0
  Version = "0.1.0"
  This = zap
  OtherContract = other
  ChainIds = {10, 69}
  DeployChainId = 10
  IpfsHashes = {h0}
  ZERO_HASH = h0
  ByteValues = 2
  MaxBytes4 = 2
  Deployer = owner
  Zapper = zapper
  MaxZaps = 2
  MaxSigned = 0
  MaxApprovals = 0
  MaxEvents = 5
  TokenIds <- MCTokenIds
  SigningDomains <- MCSigningDomains
  SignableIntents <- MCIntents
SPECIFICATION Spec
CONSTRAINT Bounded
VIEW SilentFuture
INVARIANTS
  FingerprintPublishedOnce
