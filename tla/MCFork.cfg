CONSTANTS
  Accounts = {"contract", "wallet"}
  GenesisAccounts = {"wallet"}
  GenesisBalance = 5
  Slots = {"slot"}
  NoCode = "none"
  Empty = 0
  Unset = Unset
  Nothing = Nothing
  ForkBlockNumber = 1
  RemoteAccounts <- MCRemoteAccounts
  RemoteTxs <- MCRemoteTxs
  Txs = {"deploy", "later"}
  Written = {"contract"}
  Balances = {6}
  Codes = {"token2"}
  Values = {0}
  MaxWrites = 1
  MaxBlockNumber = 3
  MaxSnapshots = 1
  MaxRoots = 4
SPECIFICATION Spec
INVARIANTS
  IndexesAgree
  AllLogsFound
PROPERTIES
  ImplementsHistory
