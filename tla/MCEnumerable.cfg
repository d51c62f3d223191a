CONSTANTS
  owner = owner
  zapper = zapper
  ZERO = ZERO
  Accounts = {owner, zapper}
  TokenIds = {1, 2, 3, 4}
SPECIFICATION EnumerableSpec
INVARIANTS
  HoldersEnumerable
  TokensEnumerable
PROPERTIES
  TokenPlacesFixed
  ImplementsLedger
