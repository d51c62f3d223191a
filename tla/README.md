# OptimismZap: TLA+ models of the Zap contract and of the node it is developed on

A Zap is an ERC721 token of a limited series. The repository holds one Solidity
contract, `src/contracts/OptimismZap.sol`, a small TypeScript client that builds
the typed data wallets sign (`src/package-main`), deploy scripts and tests. It
also holds its own build of Hardhat (`src/.yalc/hardhat`), sources included,
linked with yalc: the compiler front end, and the in-process Ethereum node the
tests run against. By size that is most of the repository, and by behaviour too:
it has the concurrency, the crashes and the undoing that the contract has not.
The rest is generated (`artifacts-ovm`, `cache-ovm`, `lib`, the `.js` files of
Hardhat).

So there are two families of modules: the contract with its client, and
Hardhat. They share nothing but the repository.

The contract inherits from OpenZeppelin 3.x. Those sources are not in the
repository as files, but the compiler input stored in
`src/artifacts-ovm/build-info/bcb1101eb73a5133f99bcb6308bb3a57.json` holds the
exact text that was compiled with the current contract, one file to a line, and
that text is what the library modules are translated from:

| line | file |
|---|---|
| 13 | `access/Ownable.sol` |
| 16 | `cryptography/ECDSA.sol` |
| 19 | `token/ERC721/ERC721.sol` |
| 22 | `drafts/EIP712.sol` |
| 46 | `utils/Address.sol` |
| 49 | `utils/EnumerableSet.sol` |
| 52 | `utils/EnumerableMap.sol` |

`sed -n 19p FILE | sed 's/^ *"content": //' | jq -r .` prints one of them.

## Inventory

### The contract and its client

| component | state | operations |
|---|---|---|
| Zap contract | `seriesPublications`, keyed by the EIP-712 digest of a fingerprint (IPFS hash, zapper) | `mintByOwnerForOwner`, `mintByOwner`, `mintByZapper`, `mintBySignatures`, all ending in `_mint` |
| token ledger (ERC721) | `_holderTokens`, `_tokenOwners`, `_tokenApprovals`, `_operatorApprovals` | `transferFrom`, `safeTransferFrom` (calls the receiver), `approve`, `setApprovalForAll`; `_mint` for the contract |
| Ownable | `_owner` | `transferOwnership`, `renounceOwnership`, `onlyOwner` |
| EIP712, ECDSA | cached domain separator and chain id | digest of typed data, `recover` |
| EnumerableSet, EnumerableMap | an array and an index mapping each | `add`, `remove`, `set`, `at` |
| client: `HashUtils`, `OptimismZapContractActions` | none | digests off chain, typed data to sign, `bytes4ify`, connecting a wallet |
| deploy scripts, tests, configuration, generated code | | not modelled |

How they interact. Every message goes to the one contract and runs to its end,
with one exception: `safeTransferFrom` calls a receiver that has code, in the
middle of the message, and the receiver can send messages of its own before it
answers. A message that fails reverts everything it did, and everything done in
calls it made. Off chain, accounts sign mint intents; a signature can reach
the contract through anybody, at any time, any number of times.

What is hard here: what a signature authorises once the owner, the chain or the
holder has changed; who fixes the total of a series when several signed intents
name different ones; a publication that is written before the checks that may
fail; zero standing for "unpublished", for "no owner" and for "invalid
signature"; callbacks in the middle of a transfer and the revert of all that
they did; holders recorded twice. `PROJECT.json` lists each of these with the
line where it bites and the properties that cover it.

### Hardhat

Sources are relative to `src/.yalc/hardhat/src`, those of the node to
`internal/hardhat-network/provider` there.

| component | state | operations |
|---|---|---|
| transaction pool: `TxPool.ts`, `PoolState.ts`, `TxPriorityHeap.ts`, `utils/reorganizeTransactionsLists.ts` | pending and queued transactions of each sender, an index by hash, the block gas limit, snapshots | add, update after a block, set the gas limit, snapshot, revert |
| node: `node.ts`, `modules/evm.ts` | chain, state, clock offset, next timestamp, snapshots, automine | send, mine, ask about the pending block, `evm_snapshot`, `evm_revert`, `evm_increaseTime`, `evm_setNextBlockTimestamp`, ... |
| filters and subscriptions: `node.ts`, `modules/eth.ts`, `provider.ts`, `../jsonrpc/handler.ts` | filters with results and deadlines; what each websocket subscribed to | make, poll, uninstall, subscribe, close a socket; being told while the node mines and sends |
| forked chain: `fork/ForkStateManager.ts`, `fork/ForkBlockchain.ts`, `BlockchainData.ts` | a local overlay, stored state roots, checkpoints, the block whose remote state is read; six maps of blocks, transactions and receipts | reads and writes of the virtual machine, roots, block contexts; fetch, add, delete blocks; logs |
| provider: `provider.ts`, `MiningTimer.ts`, `../vendor/await-semaphore` | a mutex and its line, a timer, the node made at the first request | request, interval mining, `hardhat_reset` |
| compilation: `builtin-tasks/compile.ts`, `internal/artifacts.ts`, `internal/solidity/*` | the cache, artifacts, debug files and build infos on disk | compile, clean |
| JSON-RPC modules, client and server; network provider wrappers; stack traces; tasks, command line, configuration | | not modelled |

How they interact. A request waits in line at the mutex and is then served by
the node to its end; the timer of interval mining asks like a client. Mining
takes transactions from the pool, saves a block, tells the filters, and updates
the pool; sending with automining and questions about the pending block mine for
real and undo it with a snapshot when they fail or are done. A forked node
does the same over a state manager and a blockchain that read what is missing
from a remote chain. Compilation shares only files with the rest.

What is hard here: undoing, over five pieces of state, what several blocks
did; a pool that is reorganised by every block; rounding when a clock goes
back; one state manager that is pointed at other blocks and back; maps that are
filled by fetching and must be emptied by reverts; a mutex released by a
callback; a timer stopped while its own request waits; a process that dies
between two files; a cache that remembers each file and not what it was
compiled with.

## Modules

### The contract and its client

| module | models |
|---|---|
| `Addresses` | accounts and the zero address (external to the repository) |
| `Evm` | the sender of a message, the log, the stack of pending calls (external to the repository) |
| `Ownable` | the owner of the contract |
| `EIP712` | domain separators, digests, signatures, `recover` |
| `TokenLedger` | the two records of who holds what: a partial function and sets |
| `ERC721` | the token contract: that ledger, approvals, operators |
| `OptimismZap` | the contract: publications, the four mint functions and `_mint` |
| `ZapChain` | the contract deployed: messages of all accounts, signing, callbacks, reverts, forks; the specification and most of its properties |
| `ZapIndexer` | a consumer that replays the events of each transaction |
| `HashUtils` | the typed data as the client hashes it and as the contract does, word for word |
| `MCZap` | the constants and bounds of the small instances |
| `EnumerableSet`, `EnumerableMap` | the arrays and indexes the two records are stored in |
| `EnumerableLedger` | the ledger over them: a detailed specification that implements `TokenLedger` |
| `ZapChainProofs` | theorems: invariants of `ZapChain`, limited supply, its action properties, typed data, and that the events tell all |
| `EnumerableProofs` | theorems: the stored ledger, and that it implements `TokenLedger` |

`Addresses` to `OptimismZap` follow the inheritance of the contract and keep its
names. An
operation is an action with the sender and the arguments as parameters; it is
enabled exactly when no `require` in it fails, because a message that reverts
changes nothing. `Mint` is the whole of `_mint`: publish or match, check the
serial number, mint the token, emit the events.

`callStack` holds, for each call of a receiver that is under way, the storage and
the log before the message that made it. `SafeTransferMessage` pushes,
`ReceiverAccepts` pops, `ReceiverRejects` pops and restores. While a call is
pending only accounts with code can send messages. A call that an account with
code makes and reverts itself leaves no trace and is a stuttering step.

Abstractions:

- keccak256 is injective: a digest is the record of what was hashed, domain
  included. Fingerprint keys and token ids are such digests.
- A signature is a signer and a digest; for another digest `ecrecover` gives an
  address nobody has the key of (`NOBODY`). `GARBAGE` is a signature for which it
  gives the zero address. Signatures of a wrong length or with a high `s` revert
  in `recover` and are left out: nothing can be done with them.
- Accounts with a key and accounts with code are disjoint; only the former sign.
  (On the OVM an account with a key can be a contract too; what such an account
  can do is the union, and the receiver of a safe transfer is then called.)
- `bytes4` values are numbers up to `MaxBytes4`; `HashUtils` pads them to bytes,
  and shows that comparing those compares the numbers. There a word is a pair of
  halves, the type of a struct its list of fields, and the hashes of all digests
  are computed once.
- In `ZapChain` the records of the holders are a partial function and sets;
  `EnumerableLedger` shows that the arrays underneath implement them. Views that
  count through the arrays change no state, so nothing in `ZapChain` depends on
  the order.
- A message that is not sent from within a callback is a transaction of its own.

### Hardhat

| module | models |
|---|---|
| `TxPool` | the pool on its own: the abstract specification of what the node does with it |
| `HardhatNode` | the node: mining step by step, sending, undoing, snapshots, clock |
| `NodeFilters` | filters, subscriptions and websocket connections, told by the steps of `HardhatNode` |
| `History` | abstract: a list of blocks with their states, and answers about them |
| `ForkStateManager`, `ForkBlockchain` | the two data structures of a forked node, as operators and actions on their state |
| `ForkedNode` | the requests of a forked node over both; implements `History` |
| `HardhatProvider` | the mutex, the timer, making and replacing the node |
| `Compile` | the compile and clean tasks, the disk, edits and crashes |
| `MCTxPool`, `MCNode`, `MCFilters`, `MCFork`, `MCProvider`, `MCCompile` | constants and bounds of the small instances |
| `TxPoolProofs`, `HardhatNodeProofs` | theorems: the pool; the node with the pool in it, its blocks and what a send leaves |
| `NodeFiltersProofs` | theorems: what followers of the node are told |
| `ForkedNodeProofs` | theorems: the forked chain, and that it implements `History` |
| `HardhatProviderProofs` | theorems: the mutex |
| `CompileProofs` | theorems: what holds when compile succeeds |

`HardhatNode` keeps one `request` in progress. A request of several steps leaves
its name there (`include`: mine until the transaction is in; `drain`: mine until
nothing is pending; `query`), and the `building` block is filled by
`ExecuteTransaction` and `SkipSender` until `FinishBlock` or `FailBlock`. Nothing
else runs meanwhile but the clock; `HardhatProvider` shows why that is so.
`ForkedNode` has the same shape, with the reads and writes of the virtual
machine as steps.

Abstractions:

- The lists of the pool are sets: their order is that of nonces in the one case
  and follows from the order ids in the other. `GasUsed` of a transaction is
  `MinTxFee`. A send that is refused while transactions are pending loses a
  snapshot number, and nothing else of it is kept.
- The clock counts ticks, `TicksPerSecond` to a second. `evm_increaseTime` takes
  any integer, negative ones too (fractions of a second are left out), as long
  as the clock of the node does not go behind 1970 (`TimeBound`, a bound). What
  it took off since the latest block is kept in `putBack`, a history variable.
- In `NodeFilters` results are sets; each transaction logs once; addresses and
  topics are left out. What was given of filters that are gone is forgotten.
- `History` has no operations of its own: what a step may do follows from whether
  a request to mine is under way (`mining`) and from the snapshots that are left.
- In the forked chain a state root is a number (the code draws random ones),
  a block is its own hash, nonce and balance are one field, each transaction logs
  once, a read fails only outside nested messages, and the remote chain does not
  change up to the fork block. The cache and the retries of the JSON-RPC client
  are not modelled: any read may fail.
- In `HardhatProvider` what a request does in the node is one step, and time is
  not modelled: a timeout that is set will fire. Making a node may fail, also
  the second one that a reset makes when it finds none.
- In `Compile` a task reads all sources at one instant; the compiler is a function
  of its input; two tasks at the same time are not modelled.

## Properties and runs

### The contract and its client

| property | says |
|---|---|
| `ZapsMatchSeries` | every Zap was minted under the publication its series has now, with a serial number below the total |
| `SupplyLimited` | a series never has more Zaps than its total |
| `NoEmptySeries` | no series is published without a Zap of it, whatever failed or was undone |
| `HoldersAgree` | the two records of the holders are the same, and nobody is the zero address |
| `ApprovalsLapse` | an approval ends with the holding it was given for: none is in force for a token a message moved, to its holder too, or minted; new ones are given by the holder or an operator; a revert brings approvals back only with their holdings |
| `SeriesCemented` | among the states no revert can undo, a publication never changes and a Zap never disappears |
| `MintNeedsConsent` | a Zap is minted to its zapper, for the current chain, with the consent of the zapper and of the present owner |
| `TransferNeedsConsent` | a Zap changes hands only through its holder, an approved address or an operator, or because a message reverts |
| `RenouncedForever` | a contract without owner mints nothing |
| `EventsTellAll` | the events of a transaction, replayed over the state before it, give the state after it |
| `ClientComputesContractHashes` | what was signed, minted or published has the same hash on both sides, and no other digest has it |
| `BytesCompareAsNumbers` | the contract's comparison of bytes is the client's comparison of numbers |
| `HoldersEnumerable` | counting with `tokenOfOwnerByIndex` up to the balance gives each token of a holder exactly once |
| `TokensEnumerable` | counting with `tokenByIndex` up to the total supply gives each token exactly once |
| `TokenPlacesFixed` | a token keeps its place in `tokenByIndex`, whoever it is sent to |
| `ImplementsLedger` | every step of the stored ledger is an addition or a move of `TokenLedger` |
| `FingerprintPublishedOnce` | the comment at `OptimismZap.sol:31`, for fingerprints as the comment defines them; violated after a fork |

| run | bounds | asks |
|---|---|---|
| `mint` | two accounts with keys, totals up to 2, one Zap followed further, two signatures, two chain ids, no approvals; bytes of two values, four to a `bytes4` | mints through all entry points, conflicting totals, replays, changes of owner and of chain, signatures for another contract; the hashes of both sides |
| `callback` | one account with code, two levels of calls, two Zaps, one approval, five events to a pending transaction | the ledger and the event log under callbacks and reverts, publications undone included |
| `enumerable` | four tokens, two accounts | the arrays and indexes, in every order of mints and transfers |
| `published_once` | two chain ids | the first finding below |

The step that would mint one Zap more, or use one more signature, is still taken
and checked; only its successors are cut. So with one Zap followed further a
second mint of the same series, of a conflicting one, or on the other chain is
tried from every state, and that is where each conflict shows. The views
leave out the last sender and (but for the run on events) the log, on which no
later step depends; action properties are evaluated on every step, before states
are identified. No fairness is assumed of the contract and no liveness is
stated: nothing happens unless somebody sends a message, and nobody has to. It
never deadlocks, since accounts can always set approvals. Four tokens make the
array of a holder long enough for a removal at its start, middle and end;
transfers to the holder itself, of the last token too, are included, and nothing
is cut.

### Hardhat

| property | says |
|---|---|
| `PendingWithoutGaps` | the pending transactions of a sender have consecutive nonces |
| `QueuedWaitForOthers` | a queued transaction waits for one that has not come |
| `FoundByHashIsPooled` | the index by hash holds nothing that is not in the pool |
| `NothingViableLost` | only reverts take transactions away that could still be executed |
| `PendingExecutable` | the comment at `TxPriorityHeap.ts:76`; violated |
| `StateOfLatestBlock` | whatever was undone, the state is that of the latest block |
| `NoncesUsedInOrder` | the chain has the transactions of a sender once each, in order, and none of them is pending |
| `QueriesLeaveNoTrace` | mining for a question about the pending block is undone in chain, pool, accounts, snapshots and next timestamp, and the clock shows what it showed, or the one second more that rounding makes |
| `SendIsAllOrNothing` | a send with automining, while others are in the pool, mines its transaction and all that were pending, or leaves all of the above as it was |
| `RequestsAnswered` | the loops that mine come to an end |
| `ImplementsTxPool` | the node changes the pool only by the operations of `TxPool` |
| `TimestampsIncrease` | a new block is later than the one before it, or older by no more than `evm_increaseTime` took off the clock since that one; reverts and fractions of a second take off nothing |
| `SnapshotsUsable` | every snapshot that is left is of a block in the chain, with the state of that block |
| `ChainTold` | what a filter of blocks or logs was given, with what there was when it was made, covers the chain, whatever was undone meanwhile |
| `TransactionsTold` | the same of pending transactions and the pool |
| `SocketsNotified` | a connection gets the blocks it subscribed to; violated |
| `ImplementsHistory` | every answer of a forked node is that of the abstract history, and that history changes only when a request to mine adds a block, or when a snapshot is gone back to, which leaves the blocks of that time |
| `IndexesAgree` | the six maps hold the same blocks, the receipts of all local transactions included, and nothing that was reverted or lies in the remote future |
| `AllLogsFound` | logs of a range are those of the blocks in it, fetched or not |
| `MutexOK` | the mutex is held by at most one, a free one is given to whoever waits, and every request without an answer is in line exactly once |
| `EveryRequestAnswered` | every request of a client is answered |
| `IntervalMiningFollows` | while interval mining is asked for, the current timer gets its block from a node again and again; once it is no more asked for, or the node was replaced, all loops end |
| `FreshUnlessDoubtful` | after a successful compile the artifacts are those of the sources, made by a compiler the configuration has for the file, but for files a failed or killed task, or a library not imported meanwhile, left in doubt |
| `CompleteAfterSuccess` | after a successful compile there is an artifact for each contract and none for another, a deleted file's included; only a library that is there and not imported keeps its own |
| `DebugFilesName` | a debug file names the compiler run its artifact comes from |
| `AllArtifactsBuilt` | the same as `FreshUnlessDoubtful` without the exception, as `compile.ts:1381` has it; violated |

| run | bounds | asks |
|---|---|---|
| `node` | two senders, five transactions, two block gas limits, balances up to 2, three additions, one block mined before the last request, one snapshot gone back to | the pool and the node, with and without automining |
| `filters` | one sender with two transactions, who can pay one or both; half seconds from 1 s to 2 s, a second put on or taken off, one block before the last request, three snapshots, two once time was taken off; one filter or subscription of each kind in turn, one socket, filters expire at the next tick, and while there are any the clock only ticks and two snapshots are taken | the clock forward and back, timestamps and snapshots, what questions and failed sends leave of them; what filters are given |
| `sockets` | the same | the fourth finding |
| `fork` | three remote blocks, fork at the second, two accounts, one write to a run, blocks up to number 3, one snapshot | mining, reverting, questions at any block, failing reads |
| `provider` | two clients, two requests that change timers, two calls due in a tick | the line at the mutex, interval mining, resets with and without a node |
| `compile` | four files in five trees, two configurations, two changes by the user, one crash | every order of edits, compiles, cleans and a crash |
| `pending_executable` | one sender, nonces up to 3, two gas limits | the second finding |
| `stale_artifacts` | as `compile` | the third finding |

Bounds are constraints: the step that goes past a bound is taken and checked, and
a request of the node that was accepted is served to its end. Three additions
are enough for a gap in the middle of a list, for a queue that moves, and for a
send that has to mine others first; five transactions have one that takes more
gas than the smaller limit and one that cannot be paid once the one before it is
mined. A tick of half a second is enough for rounding to matter, and two of
them for the wrong rounding to show. `filters` starts at 1 s, so that a second can
be taken off, and has three snapshots, so that one can be gone back to past
another that is left. `node` leaves the clock to it. In `node` the second sender
starts with nothing or with enough, and snapshots are not followed while the smaller
gas limit holds: a snapshot of the pool keeps its limit, and that is proved for every
pool (`PoolInvariant`). Filters only watch the node and expire by the time that
passes, not by the clock that is put forward; so in `filters` the clock is put
forward and back only before there are any. Not followed either are the time after
the last filter is gone and connections closed before they subscribed to anything.
With a fork at the second of three
remote blocks there is one before, one at and one after the fork.

Fairness. `FairNodeSpec` has weak fairness of `ServeRequest`: once a request was
accepted its continuations are run by the event loop. `FairProviderSpec` has weak
fairness of the ticks, continuations and loops for the same reason, and strong
fairness of the timeouts, which the event loop serves between ticks when they are
due. Nobody is assumed to ask. `CHECK_DEADLOCK FALSE` in `provider`: a request
with params that are not an array is refused with the mutex taken
(`provider.ts:88`), and then nothing moves any more. The two liveness properties
of that run say so (`refused`).

### Findings

1. `published_once`. The keys of `seriesPublications` are digests for the chain
   id at the time of the call. After a fork the same fingerprint has another
   key and is published again, with any total, although line 31 of the contract
   says that a fingerprint is published once, cementing the total. Per chain id
   the promise holds (`SeriesCemented`).
2. `pending_executable`. When the next transaction of a sender is dropped from
   the pool, those behind it stay pending (`TxPool.ts:226`), against what the heap
   assumes (`TxPriorityHeap.ts:76-78`). The sender is then stuck.
3. `stale_artifacts`. The cache compares each file with its own last compilation,
   not with the one its importer was compiled with (`compile.ts:1436`): an
   artifact made from an old import can be left by a successful compile.
4. `sockets`. The provider emits `notifications` (`provider.ts:336`), a websocket
   connection listens to `notification` (`handler.ts:81`): nothing subscribed to
   over a socket is ever sent.
Noticed while modelling, without a run of their own:

- `handler.ts:63` skips the subscriptions a connection has, where its comment
  speaks of those it has not; `handler.ts:102` remembers `result.id` of a result
  that is a string, so nothing is unsubscribed when the socket closes.
- A subscription expires after five minutes though nobody polls it
  (`node.ts:1345`), and an end of range in the future is cut to the latest block
  when a filter is made (`node.ts:1630`).
- Filters are told of blocks mined for a question about the pending block.
- The "unknown reason" of `node.ts:965` is reached: a transaction whose funds were
  spent by an earlier one is dropped from the pool before it is mined.
- `node.ts:1028` says that a failing block leaves no modification; not so when
  updating the pool fails after it was built.
- `artifacts.ts:439` removes a build info that other debug files may name.
- A cache file written in part fails every compile until `clean`.
- Setting the interval again while the loop of the timer waits for its block leaves
  that loop running beside the new one (`MiningTimer.ts:76`, `93-105`): from then on
  there are two blocks per interval. Both loops end when the timer is stopped
  (`IntervalMiningFollows`).
- A negative `evm_increaseTime` is accepted (`evm.ts:99-104`) and the next block can
  be older than its parent: only an equal timestamp is put off. `TimestampsIncrease`
  says by how much.
- Fetching a remote block by the hash of a side block overwrites the entry of its
  number; `deleteAccount` drops the result of an immutable map
  (`ForkStateManager.ts:357`); a remote transaction is always read as a legacy one
  (`ForkBlockchain.ts:342`); a copied state manager forgets its initial root and
  context.
- A total shorter than four bytes, given to the client as bytes, is padded behind
  when it is signed and in front by `bytes4ify`.
- `HttpProvider` retries seven times where its constant says six; two sends at
  the same time through `LocalAccountsProvider` get the same nonce.

## Proofs

The assumptions of all theorems are those the modules state of their constants:
`ZERO` is no account, contracts are accounts, a balance can be spent in part, and
the like. `Compile` assumes that a project has the files that are imported, that
the compilers of a configuration differ in their versions and that a torn file
is no output. Of the remote chain `ForkedNode` assumes that it has all blocks up
to the fork, each with all accounts, that a transaction is in one block only, and
that `Nothing` is no number and no block.

The SMT translation of tlapm 1.4.5 takes two `CASE` expressions for equal when their
first arms and their `OTHER` are.
No proof depends on it: with every `CASE` of the modules written as a chain of `IF`,
all of them are proved as well.

### The contract

Every property of `ZapChain`, `ZapIndexer`, `HashUtils` and `EnumerableLedger`
that a passing run checks is proved.

`ZapChainProofs` proves `TypeOK`, `ZapsMatchSeries`, `NoEmptySeries`,
`HoldersAgree` and, step by step, `ApprovalsLapse`. None of the invariants is
inductive alone. A revert
brings back an older storage, so the invariant `ConsistentAll` asks of every
storage in the call stack what it asks of the current one. And `ZapsMatchSeries`
needs `NoEmptySeries`: a mint into a published series compares only the total,
and that the IPFS hash and the zapper match as well follows from a Zap of the
series that already exists. Each message has a lemma that it keeps the storage
consistent; the step lemma adds the stack.

The second half builds on it. `SupplyLimited` follows from `ConsistentAll`: the
ids of the Zaps of a series differ only in the serial number, all below the
total, so they are no more than the total. `SeriesCemented` is about what a
revert can not undo, the bottom of the call stack, and needs a second
invariant, `Ordered`: each saved storage extends the ones saved before it, and
the current storage extends them all. `MintNeedsConsent`, `TransferNeedsConsent`
and `RenouncedForever` go through the kinds of steps: only mint messages create
tokens, only transfers move them, and a signature that `recover` attributes to
an account other than zero was made by it for that digest.

The third part is about `HashUtils`. `BytesCompareAsNumbers` is lexicographic order:
a number is its last byte and the number of the higher ones (`LastByte`), and
`BytesOrder` compares two numbers by these, four times. For
`ClientComputesContractHashes` the lists of fields of the client are written out
to the words they become (`DomainHash`, `StructHash`), and so is what the contract
encodes (`AbiWords`). That a hash belongs to one digest goes back from the words:
the first word tells the type (`TypeDistinct`), the domain has a word for each
of its fields, and four bytes give the number away.

The end is `EventsTellAll`. The replay folds over a log of any length, and the
induction it needs is done on the data: `FoldLeft` is a function on the sets of
positions of the log (`FoldIsIter`), which is unique, exists, and grows by one
`Apply` with each event (`IterUnique`, `IterExists`, `IterOneMore`), since a set of
numbers has a least element. What each message emits, applied to the storage
before it, gives the storage after it; a transfer takes the token from everybody
in the replay and from its holder in the contract, the same by `HoldersAgree`.
Since a receiver may reject, `ToldOK` asks that the log tells the current storage
and each saved one from the committed state on; the chain's id, on which the keys
of the publications depend, changes only between transactions.

`EnumerableProofs` shows that adding to, removing from and setting in
well-formed sets and maps keeps them well-formed (an index and its array invert
each other) and does what the names say. The invariant adds that a token is in
the set of a holder exactly when the map names that holder. From it follow the
two counting properties, `TokenPlacesFixed`, and `ImplementsLedger`: a mint maps
to `AddToken`, a transfer to `MoveToken`.

### Hardhat

`TxPoolProofs`. What matters is first proved of the two lists of one sender:
`ListsOK` says that the pending nonces are an interval, that it starts no lower
than the account's nonce, and that the queue has each nonce once and none that
is executable. `AddPendingLists`, `AddQueuedLists` and `UpdatedLists` keep it;
the last is the hard one: what is dropped cuts the interval in two, and the
part behind moves to the queue, where its nonces must be new. `PoolInv` asks it
of the pool and of every snapshot, since a revert brings one back. Five
theorems follow, and the type of the pool, which no run checks.

`HardhatNodeProofs`. `NodeInv` adds to `PoolInv` what a request under way relies on:
`ChainOK` (the latest block is no later than the clock of the node was before
`putBack` was taken off it, and earlier than a timestamp that was asked for),
`SnapshotsOK` (each snapshot is of a block of the chain, its state, pool
snapshot and clock are of that time, and they are in order), `BuildingOK` and
`RequestOK`: the snapshot a send or a query took is the last one, and going back to
it gives what there was before the request (`WayBackOK`). The step that needs most
is the revert: that going back takes nothing off the clock, and adds a second at
most, rests on `CeilBounds`, `CeilMonotone`, `CeilOfSum` and `CeilOfSumAtMost` on
rounding. `PoolStep` maps each step of the node to one of `TxPool` or to none,
which gives `NodeImplementsTxPool`, and with it the four properties of the pool hold in
the node. `TimestampsAlwaysIncrease` follows from `BuildingOK`, and
`QueriesNeverLeaveTrace` from `RequestOK` and that lemma on the clock (`Undone`).

Its second half is about the blocks. `NoncesUsedInOrder` counts over the whole chain, so the invariant
`ChainInv` goes block by block: the transactions a block has of a sender
lead from one nonce of the account to the next (`BlockNoncesOK`, also for the
block under way), and what they use of all blocks is the interval below the
nonce of the account (`NoncesOK`). Blocks are added at the end and dropped from
the end, and both keep it. `SendIsAllOrNothing` looks back over a request of many
steps: `SendOK` says that its transaction is in a block once the request only
drains the pool, and `WayBackOK` keeps what there was before the first step, so
that both ends follow from the last step alone.

`NodeFiltersProofs`. `FollowedNodeIsNode` comes first: who follows the node only
watches, so `NodeInv` and `ChainInv` hold of it. `FilterInv` then has three parts:
`OrdersOK` (order ids in the pool and its snapshots are of the past, so that a
transaction that is new to the pool is new to its followers), `FiltersOK` (of each
filter and subscription: it is known who asked, since when, and about which
blocks) and `ToldOK` (what was handed out, what is waiting in the filter, and
what the block under way will still add, make up what was to be told). A
revert drops blocks without telling anybody, which is where the record of what
was asked on which chain is needed.

`ForkedNodeProofs`. The node goes back and forth between states by their roots,
so the invariant is about roots. `StoreOK` and `KeepsRoots`: a root stands for the same
state ever after, also when `setBlockContext` overwrites the entry of a root of the
remote chain, because it writes the same value again. `DataOK`: the six maps
agree; fetching, adding and deleting keep it (`AddingKeeps`, `LaterDeleted`),
and fetching changes no block that was there (`Fetched`). `RootsOK` and
`SnapshotsOK` tie the two together: every block and every snapshot has a root
that is kept, for the state of its block. With that as `BaseOK`, a request is
`Rests`, `Mines`, `Queries` or `Calls`, and each of them says where the
way back leads: the first checkpoint of a block is of the state of
the latest block, the root a query saved as well, and a query of the pending block
owns the last snapshot. `IndexesAgree` and `AllLogsFound` follow from `DataOK`.

For `ImplementsHistory` every step is shown to keep `VisibleBlock` and, up to it, the
transactions and states of all blocks (`HistoryKept`), except the end of a request to
mine, which may add one, and `RevertToSnapshot`, which leaves those of the snapshot it
goes back to. What is left is that the
answers are right: an account is read in the state and at the remote
block of the query (`AccountRead`; in the past the overlay is empty, and
`NothingChanged` says that this is the remote chain), and a transaction is looked
up in maps that may have been filled by other questions before, but leads to its
one block (`BlockOfFound`, `ReceiptFound`).

`HardhatProviderProofs`. `MutexOK` is about how often a request is in line; the
lemmas count its places when requests are added to the line and taken from it.
The invariant is `MutexOK` with the types and the timers that are not made yet; an
answer may change the timers as long as it leaves the loops that wait for a block
(`Follow`).

`CompileProofs`. What an artifact depends on is the `Closure` of its file along the
imports; that it is the same under two sets of contents which agree on it
(`ClosureAgrees`) lets the cache, the sources and the input of the compiler be
compared file by file. `StoredOK` says what a cache that can be read is good for: as
long as a file is not in doubt, each artifact it lists is gone, torn, or made from
what the cache remembers of the whole closure, and its debug file names that run.
`JobsCover` is the decision what to compile, with or without the optimizer: a file
is in a job, or its closure is as the cache remembers it. So the task starts with every file of
the graph waiting for a job or done, and `CompileTaskOK` keeps that to the end:
a job moves its files to what is left to write (`MadeOf`), each write makes one
artifact fresh (`IsMade`), and what is removed is in no entry of the cache. A crash
tears only what was being written, which is in doubt from then on, or the
cache, which then can not be read. Beside it `TaskConfigured` says that a file which
waits for no job was made by a compiler the configuration of the task has for it,
that jobs are for such compilers, and that every file the cache lists is there. The three properties follow when no job and
nothing to write is left.

### Left to TLC

The liveness properties, and the four violations.

## Not modelled

- Views and metadata of the contract change no state. Deploy scripts send one
  transaction. `requestWalletAccess` of the client awaits the wallet and ethers,
  and what can change in between is up to them; their sources are not here.
- The node: base fees and access lists, `eth_call` outside the fork, gas estimates,
  impersonation, the direct writes of `hardhat_set...`, traces and logging.
- The JSON-RPC modules convert parameters and results; client and server pass
  them on, with a cache and retries whose effect is that a remote read answers
  or fails.
- The wrappers of `internal/core/providers` around a remote node: planned.
- Downloading compilers, resolving imports to files, flattening.
- Stack traces are a heuristic over a finished execution; the reference for their
  result is the wording of messages.
- The command line, tasks, plugins, configuration and error texts set up a run
  once, in sequence.
- Generated code (`lib`, `artifacts-ovm`, the `.js` files of Hardhat) and tests.

## Plan

Done, in this order: the contract and its callbacks; forks of the chain; the
stored ledger and its refinement; the proofs of all three; the encodings of both
sides; the pool and its proofs; the node over it and its proofs; compilation; the
forked chain and its proofs; the provider and its proof; filters and their proofs.

Next:

1. The provider wrappers: a nonce read, signed and sent by two callers; retries
   of a request that was already served; gas prices that are kept.
2. The cache of the JSON-RPC client, on disk and in memory, with a crash while it
   is written.
3. Direct writes (`hardhat_setBalance` and the like) in `ForkedNode`, which make a
   state that no block has.
