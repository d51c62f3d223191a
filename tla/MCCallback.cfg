CONSTANTS
  owner = owner
  vault = vault
  ZERO = ZERO
  GARBAGE = GARBAGE
  NOBODY = NOBODY
  zap = zap
  other = other
  h0 = h0
  Accounts = {owner, vault}
  Contracts = {vault}
  MaxCallDepth = 2
  Version = "0.1.0"
  This = zap
  OtherContract = other
  ChainIds = {10}
  DeployChainId = 10
  IpfsHashes = {h0}
  ZERO_HASH = h0
  ByteValues = 2
  MaxBytes4 = 1
  Deployer = owner
  Zapper = vault
  MaxZaps = 2
  MaxSigned = 0
  MaxApprovals = 1
  MaxEvents = 5
  TokenIds <- MCTokenIds
  SigningDomains <- MCSigningDomains
  SignableIntents <- MCIntents
SPECIFICATION Spec
CONSTRAINTS Bounded BriefTransactions
VIEW Future
INVARIANTS
  HoldersAgree
  NoEmptySeries
PROPERTIES
  ApprovalsLapse
  TransferNeedsConsent
  EventsTellAll
