------------------------- MODULE NodeFiltersProofs -------------------------
(***************************************************************************)
(* What the followers of the node know, for any clients, filters, ranges   *)
(* and transactions: whatever is mined, undone and gone back to, they were *)
(* told the blocks and logs of the chain and the transactions of the pool. *)
(***************************************************************************)
EXTENDS NodeFilters, HardhatNodeProofs

(* All that the pool holds, or will hold after a revert.                    *)
Entries(p) == UNION {p.pending[s] \cup p.queued[s] : s \in Senders}
Pools == {pool} \cup {poolSnapshots[i].pool : i \in DOMAIN poolSnapshots}
Held == UNION {Entries(p) : p \in Pools}

OrdersOK == \A otx \in Held : otx.orderId \in 0 .. nextOrderId - 1

Ranges == [fromBlock : Nat \cup {LATEST_BLOCK}, toBlock : Nat \cup {LATEST_BLOCK}]

FilterOK(id) ==
  /\ DOMAIN filters[id] = {"type", "subscription", "criteria", "deadline", "results"}
  /\ filters[id].type \in {"blocks", "logs", "transactions"}
  /\ filters[id].subscription \in BOOLEAN
  /\ filters[id].criteria.fromBlock \in Nat
  /\ filters[id].criteria.toBlock \in Nat \cup {LATEST_BLOCK}
  /\ asked[id].client \in Clients
  /\ asked[id].orderId \in Nat
  /\ (asked[id].range.toBlock = LATEST_BLOCK) <=> (filters[id].criteria.toBlock = LATEST_BLOCK)

FiltersOK ==
  /\ DOMAIN asked = DOMAIN filters
  /\ DOMAIN received = Clients
  /\ \A id \in DOMAIN filters : FilterOK(id)

(* The last block whose logs a filter is for.                               *)
LastWanted(id) == IF asked[id].range.toBlock = LATEST_BLOCK THEN LatestNumber ELSE filters[id].criteria.toBlock
Wants(id, n) == n \in 0 .. LatestNumber /\ filters[id].criteria.fromBlock <= n /\ n <= LastWanted(id)

BlocksToldTo(id) ==
  filters[id].type = "blocks" => HashesOf(chain) \subseteq HashesOf(asked[id].chain) \cup Got(id)

LogsToldTo(id) ==
  filters[id].type = "logs" =>
    \A n \in 0 .. LatestNumber : \A log \in Logs(n) :
      Wants(id, n) => log \in Got(id) \/ (filters[id].subscription /\ log.block \in HashesOf(asked[id].chain))

TransactionsToldTo(id) ==
  filters[id].type = "transactions" =>
    \A otx \in Held : otx.orderId >= asked[id].orderId => otx.data \in Got(id)

ToldOK == \A id \in Followed : BlocksToldTo(id) /\ LogsToldTo(id) /\ TransactionsToldTo(id)

FilterInv == OrdersOK /\ FiltersOK /\ ToldOK
------------------------------------------------------------------------------
(* The node goes on as without followers.                                   *)
LEMMA StepOfNode ==
  ASSUME [FilterNext]_allVars
  PROVE  [NodeNext]_nodeVars
<1>1. CASE NodeStep
  BY <1>1 DEF NodeStep, NodeNext, ServeRequest, AcceptRequest
<1>2. CASE FilterStep
  BY <1>2 DEF FilterStep, NewFilter, NewBlockFilter, NewPendingTransactionFilter, AddFilter,
              GetFilterChanges, GetFilterLogs, UninstallFilter, CloseSocket
<1>3. CASE UNCHANGED allVars
  BY <1>3 DEF allVars
<1> QED
  BY <1>1, <1>2, <1>3 DEF FilterNext

(* Filters change nothing of the node, so what is proved of the node holds  *)
(* of the node that is followed.                                            *)
THEOREM FollowedNodeIsNode == FilterSpec => NodeSpec
<1>1. FilterInit => NodeInit
  BY DEF FilterInit
<1>2. [FilterNext]_allVars => [NodeNext]_nodeVars
  BY StepOfNode
<1> QED
  BY <1>1, <1>2, PTL DEF FilterSpec, NodeSpec
------------------------------------------------------------------------------
(* What the pool holds                                                      *)
LEMMA HeldBy ==
  ASSUME NEW otx
  PROVE  otx \in Held <=>
           \E s \in Senders :
             \/ otx \in pool.pending[s] \cup pool.queued[s]
             \/ \E i \in DOMAIN poolSnapshots :
                  otx \in poolSnapshots[i].pool.pending[s] \cup poolSnapshots[i].pool.queued[s]
BY DEF Held, Pools, Entries

LEMMA UpdatedEntries ==
  ASSUME NEW p \in PoolState, NEW accts, NEW s \in Senders
  PROVE  LET u == UpdatePendingAndQueued(p, accts)
         IN  u.pending[s] \cup u.queued[s] \subseteq p.pending[s] \cup p.queued[s]
<1>1. Stay(p, s, accts) \cup Wait(p, s, accts) \subseteq p.pending[s] \cup p.queued[s]
  BY DEF Stay, Wait, Requeued
<1>2. /\ UpdatePendingAndQueued(p, accts).pending = [r \in Senders |-> Stay(p, r, accts)]
      /\ UpdatePendingAndQueued(p, accts).queued = [r \in Senders |-> Wait(p, r, accts)]
  BY DEF UpdatePendingAndQueued, PoolState
<1> QED
  BY <1>1, <1>2

LEMMA AddedEntries ==
  ASSUME PoolInv, NEW tx, AddTransaction(tx), NEW s \in Senders,
         NEW otx \in pool'.pending[s] \cup pool'.queued[s]
  PROVE  otx \in pool.pending[s] \cup pool.queued[s] \/ otx = [orderId |-> nextOrderId, data |-> tx]
<1> DEFINE new == [orderId |-> nextOrderId, data |-> tx]
<1>1. pool \in PoolState
  BY DEF PoolInv, PoolOK
<1>2. CASE AddPendingTransaction(tx)
  <2> DEFINE added == pool.pending[tx.from] \cup {new}
             moved == MovableTransactions(added, pool.queued[tx.from])
  <2>1. /\ pool'.pending = [pool.pending EXCEPT ![tx.from] = added \cup moved]
        /\ pool'.queued = [pool.queued EXCEPT ![tx.from] = @ \ moved]
    BY <1>1, <1>2 DEF AddPendingTransaction, PoolState
  <2>2. moved \subseteq pool.queued[tx.from]
    BY DEF MovableTransactions
  <2> HIDE DEF moved
  <2> QED
    BY <1>1, <2>1, <2>2 DEF PoolState
<1>3. CASE AddQueuedTransaction(tx)
  BY <1>1, <1>3 DEF AddQueuedTransaction, PoolState
<1> QED
  BY <1>2, <1>3 DEF AddTransaction

LEMMA HeldSteps ==
  ASSUME PoolInv, [TxPoolNext]_poolVars
  PROVE  \/ Held' \subseteq Held /\ nextOrderId' = nextOrderId
         \/ \E tx \in Txs : AddTransaction(tx)
<1>1. pool \in PoolState
  BY DEF PoolInv, PoolOK
<1>2. CASE \E tx \in Txs : AddTransaction(tx)
  BY <1>2
<1>3. ASSUME NEW limit \in GasLimits, SetBlockGasLimit(limit)
      PROVE  Held' \subseteq Held /\ nextOrderId' = nextOrderId
  <2> DEFINE p == [pool EXCEPT !.blockGasLimit = limit]
  <2>1. p \in PoolState /\ p.pending = pool.pending /\ p.queued = pool.queued
    BY <1>1, TxAssumption DEF PoolState
  <2>2. pool' = UpdatePendingAndQueued(p, accounts) /\ UNCHANGED <<poolSnapshots, nextOrderId>>
    BY <1>3 DEF SetBlockGasLimit
  <2> HIDE DEF p
  <2>3. \A s \in Senders : pool'.pending[s] \cup pool'.queued[s] \subseteq pool.pending[s] \cup pool.queued[s]
    BY <2>1, <2>2, UpdatedEntries
  <2> QED
    BY <2>2, <2>3 DEF Held, Pools, Entries
<1>4. CASE SnapshotPool
  <2>1. pool' = pool /\ nextOrderId' = nextOrderId
    BY <1>4 DEF SnapshotPool
  <2>2. \A i \in DOMAIN poolSnapshots' : poolSnapshots'[i].pool = pool \/
          (i \in DOMAIN poolSnapshots /\ poolSnapshots'[i] = poolSnapshots[i])
    BY <1>4 DEF SnapshotPool
  <2>3. Pools' \subseteq Pools
    BY <2>1, <2>2 DEF Pools
  <2> QED
    BY <2>1, <2>3 DEF Held, Entries
<1>5. ASSUME NEW id \in DOMAIN poolSnapshots, RevertPool(id)
      PROVE  Held' \subseteq Held /\ nextOrderId' = nextOrderId
  <2>1. Pools' \subseteq Pools /\ nextOrderId' = nextOrderId
    BY <1>5 DEF RevertPool, Pools
  <2> QED
    BY <2>1 DEF Held, Entries
<1>6. CASE BlockMined
  <2>1. PICK accts : pool' = UpdatePendingAndQueued(pool, accts)
    BY <1>6 DEF BlockMined
  <2>2. UNCHANGED <<poolSnapshots, nextOrderId>>
    BY <1>6 DEF BlockMined
  <2>3. \A s \in Senders : pool'.pending[s] \cup pool'.queued[s] \subseteq pool.pending[s] \cup pool.queued[s]
    BY <1>1, <2>1, UpdatedEntries
  <2> QED
    BY <2>2, <2>3 DEF Held, Pools, Entries
<1>7. CASE UNCHANGED poolVars
  BY <1>7 DEF poolVars, Held, Pools, Entries
<1> QED
  BY <1>2, <1>3, <1>4, <1>5, <1>6, <1>7 DEF TxPoolNext

LEMMA HeldAfterAdding ==
  ASSUME PoolInv, NEW tx, AddTransaction(tx)
  PROVE  /\ Held' \subseteq Held \cup {[orderId |-> nextOrderId, data |-> tx]}
         /\ nextOrderId' = nextOrderId + 1 /\ nextOrderId \in Nat
<1>1. poolSnapshots' = poolSnapshots /\ nextOrderId' = nextOrderId + 1 /\ nextOrderId \in Nat
  BY DEF AddTransaction, PoolInv
<1>2. \A s \in Senders : \A otx \in pool'.pending[s] \cup pool'.queued[s] :
        otx \in pool.pending[s] \cup pool.queued[s] \/ otx = [orderId |-> nextOrderId, data |-> tx]
  BY AddedEntries
<1> QED
  BY <1>1, <1>2 DEF Held, Pools, Entries

LEMMA OrdersOKStep ==
  ASSUME PoolInv, OrdersOK, [TxPoolNext]_poolVars
  PROVE  OrdersOK'
<1>1. CASE Held' \subseteq Held /\ nextOrderId' = nextOrderId
  BY <1>1 DEF OrdersOK
<1>2. ASSUME NEW tx \in Txs, AddTransaction(tx)
      PROVE  OrdersOK'
  <2>1. /\ Held' \subseteq Held \cup {[orderId |-> nextOrderId, data |-> tx]}
        /\ nextOrderId' = nextOrderId + 1 /\ nextOrderId \in Nat
    BY <1>2, HeldAfterAdding
  <2> QED
    BY <2>1 DEF OrdersOK
<1> QED
  BY <1>1, <1>2, HeldSteps
------------------------------------------------------------------------------
(* The chain, its hashes and its logs                                       *)
LEMMA ChainType ==
  ASSUME NodeInv
  PROVE  /\ chain \in Seq(Block) /\ Len(chain) \in Nat \ {0}
         /\ LatestNumber \in Nat /\ LatestNumber = Len(chain) - 1
BY DEF NodeInv, ChainOK, LatestNumber

LEMMA SamePrefix ==
  ASSUME NEW S, NEW s \in Seq(S), NEW t \in Seq(S), NEW k \in Nat, k <= Len(s), k <= Len(t),
         \A i \in 1 .. k : s[i] = t[i]
  PROVE  SubSeq(s, 1, k) = SubSeq(t, 1, k)
<1>1. SubSeq(s, 1, k) = [i \in 1 .. k |-> s[i]]
  OBVIOUS
<1>2. SubSeq(t, 1, k) = [i \in 1 .. k |-> t[i]]
  OBVIOUS
<1> QED
  BY <1>1, <1>2

(* Up to where the old and the new chain agree, so do their logs.           *)
LEMMA SameLogs ==
  ASSUME NodeInv, NodeInv', NEW n \in Nat, n < Len(chain), n < Len(chain'),
         \A i \in 1 .. n + 1 : chain'[i] = chain[i]
  PROVE  Logs(n)' = Logs(n) /\ HashOf(n)' = HashOf(n)
<1>1. SubSeq(chain', 1, n + 1) = SubSeq(chain, 1, n + 1)
  <2>1. /\ chain \in Seq(Block) /\ chain' \in Seq(Block)
        /\ n + 1 \in Nat /\ n + 1 <= Len(chain) /\ n + 1 <= Len(chain')
    BY ChainType DEF NodeInv, ChainOK
  <2> QED
    BY <2>1, SamePrefix
<1>2. chain'[n + 1] = chain[n + 1]
  OBVIOUS
<1> QED
  BY <1>1, <1>2 DEF Logs, HashOf

ChainShrinks ==
  /\ LatestNumber' <= LatestNumber
  /\ HashesOf(chain)' \subseteq HashesOf(chain)
  /\ \A n \in 0 .. LatestNumber' : Logs(n)' = Logs(n)

ChainGrows ==
  /\ LatestNumber' = LatestNumber + 1
  /\ HashesOf(chain)' \subseteq HashesOf(chain) \cup {chain'}
  /\ \A n \in 0 .. LatestNumber : Logs(n)' = Logs(n)

LEMMA PrefixShrinks ==
  ASSUME NodeInv, NodeInv', ChainKept
  PROVE  ChainShrinks
<1>1. \E height \in 1 .. Len(chain) : Len(chain') = height /\ \A i \in 1 .. height : chain'[i] = chain[i]
  <2>1. chain \in Seq(Block) /\ Len(chain) \in Nat \ {0}
    BY ChainType
  <2>2. CASE chain' = chain
    BY <2>1, <2>2
  <2>3. CASE \E height \in 1 .. Len(chain) : chain' = SubSeq(chain, 1, height)
    BY <2>1, <2>3
  <2> QED
    BY <2>2, <2>3 DEF ChainKept
<1>2. PICK height \in 1 .. Len(chain) : Len(chain') = height /\ \A i \in 1 .. height : chain'[i] = chain[i]
  BY <1>1
<1>3. /\ chain \in Seq(Block) /\ Len(chain) \in Nat /\ chain' \in Seq(Block)
      /\ LatestNumber = Len(chain) - 1 /\ LatestNumber' = Len(chain') - 1
  BY ChainType DEF NodeInv, ChainOK, LatestNumber
<1>4. ASSUME NEW k \in 1 .. height
      PROVE  SubSeq(chain', 1, k) = SubSeq(chain, 1, k)
  <2>1. k \in Nat /\ k <= Len(chain) /\ k <= Len(chain') /\ \A i \in 1 .. k : chain'[i] = chain[i]
    BY <1>2, <1>3
  <2> QED
    BY <1>3, <2>1, SamePrefix
<1>5. HashesOf(chain') \subseteq HashesOf(chain)
  BY <1>2, <1>3, <1>4 DEF HashesOf
<1>6. ASSUME NEW n \in 0 .. LatestNumber'
      PROVE  Logs(n)' = Logs(n)
  <2>1. n \in Nat /\ n < Len(chain) /\ n < Len(chain') /\ \A i \in 1 .. n + 1 : chain'[i] = chain[i]
    BY <1>2, <1>3
  <2> QED
    BY <2>1, SameLogs
<1> QED
  BY <1>2, <1>3, <1>5, <1>6 DEF ChainShrinks

LEMMA PrefixGrows ==
  ASSUME NodeInv, NodeInv', FinishBlock
  PROVE  ChainGrows
<1>1. \E block : chain' = Append(chain, block)
  BY DEF FinishBlock
<1>2. /\ chain \in Seq(Block) /\ Len(chain) \in Nat /\ chain' \in Seq(Block)
      /\ LatestNumber = Len(chain) - 1 /\ LatestNumber' = Len(chain') - 1
  BY ChainType DEF NodeInv, ChainOK, LatestNumber
<1>3. Len(chain') = Len(chain) + 1 /\ \A i \in 1 .. Len(chain) : chain'[i] = chain[i]
  BY <1>1, <1>2
<1>4. ASSUME NEW k \in 1 .. Len(chain')
      PROVE  SubSeq(chain', 1, k) \in HashesOf(chain) \cup {chain'}
  <2>1. CASE k = Len(chain')
    BY <2>1, <1>2
  <2>2. CASE k # Len(chain')
    <3>1. k \in 1 .. Len(chain) /\ k \in Nat /\ k <= Len(chain) /\ k <= Len(chain')
          /\ \A i \in 1 .. k : chain'[i] = chain[i]
      BY <1>2, <1>3, <2>2
    <3>2. SubSeq(chain', 1, k) = SubSeq(chain, 1, k)
      BY <1>2, <3>1, SamePrefix
    <3> QED
      BY <3>1, <3>2 DEF HashesOf
  <2> QED
    BY <2>1, <2>2
<1>5. HashesOf(chain') \subseteq HashesOf(chain) \cup {chain'}
  BY <1>4 DEF HashesOf
<1>6. ASSUME NEW n \in 0 .. LatestNumber
      PROVE  Logs(n)' = Logs(n)
  <2>1. n \in Nat /\ n < Len(chain) /\ n < Len(chain') /\ \A i \in 1 .. n + 1 : chain'[i] = chain[i]
    BY <1>2, <1>3
  <2> QED
    BY <2>1, SameLogs
<1> QED
  BY <1>2, <1>3, <1>5, <1>6 DEF ChainGrows
------------------------------------------------------------------------------
(* What becomes of the filters                                              *)
LEMMA GotBy ==
  ASSUME NEW id, NEW x
  PROVE  x \in Got(id) <=>
           \/ \E r \in received[asked[id].client] : r[1] = id /\ r[2] = x
           \/ ~filters[id].subscription /\ x \in filters[id].results
BY DEF Got

(* A filter there was stays what it is, and nothing it gave is lost.        *)
Kept(id) ==
  /\ id \in DOMAIN filters
  /\ asked'[id] = asked[id]
  /\ DOMAIN filters'[id] = DOMAIN filters[id]
  /\ \A field \in {"type", "subscription", "criteria"} : filters'[id][field] = filters[id][field]
  /\ Got(id) \subseteq Got(id)'

KeepsFilters ==
  /\ DOMAIN asked' = DOMAIN filters' /\ DOMAIN received' = Clients
  /\ \A id \in DOMAIN filters' : Kept(id)

LEMMA Given ==
  ASSUME FiltersOK, NEW results, NEW expired, Give(results, expired)
  PROVE  /\ KeepsFilters
         /\ \A id \in DOMAIN filters' : id \in Followed => results[id] \subseteq Got(id)'
<1> DEFINE left == DOMAIN filters \ expired
           ToHear(client) == {s \in left : filters[s].subscription /\ Hears(client, s)}
<1>1. /\ DOMAIN filters' = left /\ DOMAIN asked' = left /\ DOMAIN received' = Clients
      /\ \A id \in left : /\ asked'[id] = asked[id]
                          /\ filters'[id] = IF filters[id].subscription THEN filters[id]
                                            ELSE [filters[id] EXCEPT !.results = @ \cup results[id]]
      /\ \A client \in Clients :
           received'[client] = ReceivedOf(left, client) \cup UNION {{id} \X results[id] : id \in ToHear(client)}
  BY DEF Give
<1> HIDE DEF left, ToHear
<1>2. ASSUME NEW id \in left
      PROVE  /\ id \in DOMAIN filters /\ asked[id].client \in Clients
             /\ filters[id].subscription \in BOOLEAN
             /\ DOMAIN filters'[id] = DOMAIN filters[id]
             /\ \A field \in {"type", "subscription", "criteria"} : filters'[id][field] = filters[id][field]
             /\ ~filters[id].subscription => filters'[id].results = filters[id].results \cup results[id]
  <2>1. id \in DOMAIN filters
    BY DEF left
  <2>2. FilterOK(id)
    BY <2>1 DEF FiltersOK
  <2> QED
    BY <1>1, <2>1, <2>2 DEF FilterOK
<1>3. ASSUME NEW id \in left, NEW x \in Got(id)
      PROVE  x \in Got(id)'
  <2>1. CASE \E r \in received[asked[id].client] : r[1] = id /\ r[2] = x
    <3>1. PICK r \in received[asked[id].client] : r[1] = id /\ r[2] = x
      BY <2>1
    <3>2. r \in received'[asked[id].client]
      BY <1>1, <1>2, <3>1 DEF ReceivedOf
    <3> QED
      BY <1>1, <3>1, <3>2 DEF Got
  <2>2. CASE ~filters[id].subscription /\ x \in filters[id].results
    BY <1>2, <2>2 DEF Got
  <2> QED
    BY <2>1, <2>2, GotBy
<1>4. ASSUME NEW id \in left, id \in Followed, NEW x \in results[id]
      PROVE  x \in Got(id)'
  <2>1. CASE filters[id].subscription
    <3>1. asked[id].client = InProcess /\ InProcess \in Clients
      BY <1>4, <2>1 DEF Followed, Clients
    <3>2. id \in ToHear(InProcess)
      BY <2>1, <1>2 DEF ToHear, Hears, ProviderEvents
    <3>3. <<id, x>> \in received'[InProcess]
      BY <1>1, <3>1, <3>2
    <3> QED
      BY <1>1, <3>1, <3>3 DEF Got
  <2>2. CASE ~filters[id].subscription
    BY <1>2, <2>2 DEF Got
  <2> QED
    BY <2>1, <2>2
<1> QED
  BY <1>1, <1>2, <1>3, <1>4 DEF KeepsFilters, Kept

LEMMA Removed ==
  ASSUME FiltersOK, NEW ids, Remove(ids)
  PROVE  KeepsFilters
<1> DEFINE left == DOMAIN filters \ ids
<1>1. /\ DOMAIN filters' = left /\ DOMAIN asked' = left /\ DOMAIN received' = Clients
      /\ \A id \in left : asked'[id] = asked[id] /\ filters'[id] = filters[id]
      /\ \A client \in Clients : received'[client] = ReceivedOf(left, client)
  BY DEF Remove
<1>2. \A id \in left : id \in DOMAIN filters /\ asked[id].client \in Clients
  BY DEF FiltersOK, FilterOK
<1> HIDE DEF left
<1>3. ASSUME NEW id \in left, NEW x \in Got(id)
      PROVE  x \in Got(id)'
  <2>1. CASE \E r \in received[asked[id].client] : r[1] = id /\ r[2] = x
    <3>1. PICK r \in received[asked[id].client] : r[1] = id /\ r[2] = x
      BY <2>1
    <3>2. r \in received'[asked[id].client]
      BY <1>1, <1>2, <3>1 DEF ReceivedOf
    <3> QED
      BY <1>1, <3>1, <3>2 DEF Got
  <2>2. CASE ~filters[id].subscription /\ x \in filters[id].results
    BY <1>1, <2>2 DEF Got
  <2> QED
    BY <2>1, <2>2, GotBy
<1> QED
  BY <1>1, <1>2, <1>3 DEF KeepsFilters, Kept

(* What is polled goes from the filter to the client.                       *)
LEMMA Polled ==
  ASSUME FiltersOK, NEW id \in DOMAIN filters, NEW polled, NEW rest, NEW deadline,
         filters[id].results \subseteq polled \cup rest,
         received' = [received EXCEPT ![asked[id].client] = @ \cup {id} \X polled],
         filters' = [filters EXCEPT ![id].results = rest, ![id].deadline = deadline],
         asked' = asked
  PROVE  KeepsFilters
<1>1. /\ DOMAIN asked = DOMAIN filters /\ DOMAIN received = Clients
      /\ asked[id].client \in Clients
      /\ DOMAIN filters[id] = {"type", "subscription", "criteria", "deadline", "results"}
  BY DEF FiltersOK, FilterOK
<1>2. /\ DOMAIN filters' = DOMAIN filters
      /\ DOMAIN filters'[id] = DOMAIN filters[id]
      /\ filters'[id].results = rest
      /\ \A field \in {"type", "subscription", "criteria"} : filters'[id][field] = filters[id][field]
      /\ \A other \in DOMAIN filters : other # id => filters'[other] = filters[other]
  BY <1>1
<1>3. /\ DOMAIN received' = Clients
      /\ \A client \in Clients : received[client] \subseteq received'[client]
      /\ \A x \in polled : <<id, x>> \in received'[asked[id].client]
  BY <1>1
<1>4. ASSUME NEW other \in DOMAIN filters, NEW x \in Got(other)
      PROVE  x \in Got(other)'
  <2>0. asked[other].client \in Clients
    BY DEF FiltersOK, FilterOK
  <2>1. CASE \E r \in received[asked[other].client] : r[1] = other /\ r[2] = x
    <3>1. PICK r \in received[asked[other].client] : r[1] = other /\ r[2] = x
      BY <2>1
    <3>2. r \in received'[asked[other].client]
      BY <1>3, <2>0, <3>1
    <3> QED
      BY <3>1, <3>2 DEF Got
  <2>2. CASE ~filters[other].subscription /\ x \in filters[other].results /\ other # id
    BY <1>2, <2>2 DEF Got
  <2>3. CASE ~filters[id].subscription /\ x \in filters[id].results /\ other = id
    <3>1. CASE x \in polled
      <4>1. <<id, x>> \in received'[asked'[id].client] /\ <<id, x>>[1] = id /\ <<id, x>>[2] = x
        BY <1>3, <3>1
      <4> QED
        BY <2>3, <4>1 DEF Got
    <3>2. CASE x \in rest
      BY <1>2, <2>3, <3>2 DEF Got
    <3> QED
      BY <2>3, <3>1, <3>2
  <2> QED
    BY <2>1, <2>2, <2>3, GotBy
<1> QED
  BY <1>1, <1>2, <1>3, <1>4 DEF KeepsFilters, Kept
------------------------------------------------------------------------------
(* One step                                                                 *)
LEMMA FiltersOKKept ==
  ASSUME FiltersOK, KeepsFilters
  PROVE  FiltersOK'
<1>1. ASSUME NEW id \in DOMAIN filters'
      PROVE  FilterOK(id)'
  <2>1. Kept(id)
    BY DEF KeepsFilters
  <2>2. FilterOK(id)
    BY <2>1 DEF Kept, FiltersOK
  <2>3. /\ filters'[id].type = filters[id].type /\ filters'[id].subscription = filters[id].subscription
        /\ filters'[id].criteria = filters[id].criteria
    BY <2>1 DEF Kept
  <2> QED
    BY <2>1, <2>2, <2>3 DEF Kept, FilterOK, Clients
<1> QED
  BY <1>1 DEF KeepsFilters, FiltersOK, Clients

LEMMA FollowedBefore ==
  ASSUME KeepsFilters, NEW id \in Followed'
  PROVE  /\ id \in DOMAIN filters' /\ id \in DOMAIN filters /\ id \in Followed
         /\ asked'[id] = asked[id] /\ filters'[id].type = filters[id].type
         /\ filters'[id].subscription = filters[id].subscription
         /\ filters'[id].criteria = filters[id].criteria
         /\ Got(id) \subseteq Got(id)'
<1>1. id \in DOMAIN filters' /\ Kept(id)
  BY DEF KeepsFilters, Followed
<1> QED
  BY <1>1 DEF Kept, Followed

(* Nothing is mined or sent.                                                *)
LEMMA ToldOKShrinks ==
  ASSUME NodeInv, FiltersOK, ToldOK, KeepsFilters, ChainShrinks, Held' \subseteq Held
  PROVE  ToldOK'
<1> SUFFICES ASSUME NEW id \in Followed'
             PROVE  BlocksToldTo(id)' /\ LogsToldTo(id)' /\ TransactionsToldTo(id)'
  BY DEF ToldOK
<1>1. /\ id \in DOMAIN filters /\ id \in Followed
      /\ asked'[id] = asked[id] /\ filters'[id].type = filters[id].type
      /\ filters'[id].subscription = filters[id].subscription
      /\ filters'[id].criteria = filters[id].criteria
      /\ Got(id) \subseteq Got(id)'
  BY FollowedBefore
<1>2. BlocksToldTo(id) /\ LogsToldTo(id) /\ TransactionsToldTo(id) /\ FilterOK(id)
  BY <1>1 DEF ToldOK, FiltersOK
<1>3. BlocksToldTo(id)'
  BY <1>1, <1>2 DEF BlocksToldTo, ChainShrinks
<1>4. TransactionsToldTo(id)'
  BY <1>1, <1>2 DEF TransactionsToldTo
<1>5. LogsToldTo(id)'
  <2> SUFFICES ASSUME filters'[id].type = "logs", NEW n \in 0 .. LatestNumber', NEW log \in Logs(n)', Wants(id, n)'
               PROVE  log \in Got(id)' \/ (filters'[id].subscription /\ log.block \in HashesOf(asked'[id].chain))
    BY DEF LogsToldTo
  <2>1. LatestNumber \in Nat /\ LatestNumber' <= LatestNumber /\ LatestNumber' \in Int
    BY ChainType DEF ChainShrinks, LatestNumber
  <2>2. n \in 0 .. LatestNumber /\ log \in Logs(n)
    BY <2>1 DEF ChainShrinks
  <2>3. Wants(id, n)
    BY <1>1, <1>2, <2>1, <2>2 DEF Wants, LastWanted, FilterOK, LATEST_BLOCK
  <2> QED
    BY <1>1, <1>2, <2>2, <2>3 DEF LogsToldTo
<1> QED
  BY <1>3, <1>4, <1>5

LEMMA ToldOKMined ==
  ASSUME NodeInv, NodeInv', FiltersOK, ToldOK, FinishBlock, SaveBlockAsSuccessfullyRun
  PROVE  ToldOK' /\ KeepsFilters
<1> DEFINE number == Len(chain)
           Includes(filter) ==
             filter.criteria.fromBlock <= number /\ (filter.criteria.toBlock = LATEST_BLOCK \/ number <= filter.criteria.toBlock)
           Results(filter) ==
             CASE filter.type = "blocks" -> {chain'}
               [] filter.type = "logs" /\ Includes(filter) -> Logs(LatestNumber)'
               [] OTHER -> {}
           results == [id \in DOMAIN filters |-> Results(filters[id])]
           expired == {id \in DOMAIN filters : filters[id].deadline < now}
<1>1. Give(results, expired)
  BY DEF SaveBlockAsSuccessfullyRun
<1>2. \A id \in DOMAIN filters :
        /\ filters[id].type = "blocks" => results[id] = {chain'}
        /\ filters[id].type = "logs" /\ Includes(filters[id]) => results[id] = Logs(LatestNumber)'
  OBVIOUS
<1> HIDE DEF results, expired
<1>3. KeepsFilters /\ \A id \in DOMAIN filters' : id \in Followed => results[id] \subseteq Got(id)'
  BY <1>1, Given
<1>4. ChainGrows
  BY PrefixGrows
<1>5. Held' \subseteq Held
  <2>1. PoolInv /\ [TxPoolNext]_poolVars /\ NodeNext
    BY PoolStep DEF NodeInv, NodeNext, ServeRequest
  <2>2. nextOrderId' = nextOrderId /\ nextOrderId \in Nat
    BY <2>1 DEF FinishBlock, PoolInv
  <2>3. ~ \E tx \in Txs : AddTransaction(tx)
    BY <2>2 DEF AddTransaction
  <2> QED
    BY <2>1, <2>3, HeldSteps
<1>6. ASSUME NEW id \in Followed'
      PROVE  BlocksToldTo(id)' /\ LogsToldTo(id)' /\ TransactionsToldTo(id)'
  <2>1. /\ id \in DOMAIN filters' /\ id \in DOMAIN filters /\ id \in Followed
        /\ asked'[id] = asked[id] /\ filters'[id].type = filters[id].type
        /\ filters'[id].subscription = filters[id].subscription
        /\ filters'[id].criteria = filters[id].criteria
        /\ Got(id) \subseteq Got(id)'
    BY <1>3, FollowedBefore
  <2>2. BlocksToldTo(id) /\ LogsToldTo(id) /\ TransactionsToldTo(id) /\ FilterOK(id)
    BY <2>1 DEF ToldOK, FiltersOK
  <2>3. results[id] \subseteq Got(id)'
    BY <1>3, <2>1
  <2>4. BlocksToldTo(id)'
    BY <1>2, <1>4, <2>1, <2>2, <2>3 DEF BlocksToldTo, ChainGrows
  <2>5. TransactionsToldTo(id)'
    BY <1>5, <2>1, <2>2 DEF TransactionsToldTo
  <2>6. LogsToldTo(id)'
    <3> SUFFICES ASSUME filters'[id].type = "logs", NEW n \in 0 .. LatestNumber', NEW log \in Logs(n)', Wants(id, n)'
                 PROVE  log \in Got(id)' \/ (filters'[id].subscription /\ log.block \in HashesOf(asked'[id].chain))
      BY DEF LogsToldTo
    <3>1. LatestNumber \in Nat /\ LatestNumber' = LatestNumber + 1 /\ LatestNumber' = number
      BY <1>4, ChainType DEF ChainGrows
    <3>2. CASE n \in 0 .. LatestNumber
      <4>1. log \in Logs(n)
        BY <1>4, <3>2 DEF ChainGrows
      <4>2. Wants(id, n)
        BY <2>1, <2>2, <3>1, <3>2 DEF Wants, LastWanted, FilterOK, LATEST_BLOCK
      <4> QED
        BY <2>1, <2>2, <3>2, <4>1, <4>2 DEF LogsToldTo
    <3>3. CASE n = LatestNumber'
      <4>1. Includes(filters[id])
        BY <2>1, <2>2, <3>1, <3>3 DEF Wants, LastWanted, FilterOK, LATEST_BLOCK
      <4>2. log \in Logs(LatestNumber)'
        BY <3>3 DEF Logs
      <4> QED
        BY <1>2, <2>1, <2>3, <4>1, <4>2
    <3> QED
      BY <3>1, <3>2, <3>3
  <2> QED
    BY <2>4, <2>5, <2>6
<1> QED
  BY <1>3, <1>6 DEF ToldOK

LEMMA ToldOKSent ==
  ASSUME NodeInv, NodeInv', FiltersOK, ToldOK, NEW tx \in Txs, AddTransaction(tx), chain' = chain,
         NotifyPendingTransaction(tx)
  PROVE  ToldOK' /\ KeepsFilters
<1> DEFINE results == [id \in DOMAIN filters |-> IF filters[id].type = "transactions" THEN {tx} ELSE {}]
<1>1. Give(results, {})
  BY DEF NotifyPendingTransaction
<1>2. \A id \in DOMAIN filters : filters[id].type = "transactions" => results[id] = {tx}
  OBVIOUS
<1> HIDE DEF results
<1>3. KeepsFilters /\ \A id \in DOMAIN filters' : id \in Followed => results[id] \subseteq Got(id)'
  BY <1>1, Given
<1>4. Held' \subseteq Held \cup {[orderId |-> nextOrderId, data |-> tx]}
  BY HeldAfterAdding DEF NodeInv
<1>5. ASSUME NEW id \in Followed'
      PROVE  BlocksToldTo(id)' /\ LogsToldTo(id)' /\ TransactionsToldTo(id)'
  <2>1. /\ id \in DOMAIN filters' /\ id \in DOMAIN filters /\ id \in Followed
        /\ asked'[id] = asked[id] /\ filters'[id].type = filters[id].type
        /\ filters'[id].subscription = filters[id].subscription
        /\ filters'[id].criteria = filters[id].criteria
        /\ Got(id) \subseteq Got(id)'
    BY <1>3, FollowedBefore
  <2>2. BlocksToldTo(id) /\ LogsToldTo(id) /\ TransactionsToldTo(id)
    BY <2>1 DEF ToldOK
  <2>3. results[id] \subseteq Got(id)'
    BY <1>3, <2>1
  <2>4. BlocksToldTo(id)'
    BY <2>1, <2>2 DEF BlocksToldTo
  <2>5. LogsToldTo(id)'
    BY <2>1, <2>2 DEF LogsToldTo, Wants, LastWanted, LatestNumber, Logs, HashOf
  <2>6. TransactionsToldTo(id)'
    <3> SUFFICES ASSUME filters'[id].type = "transactions", NEW otx \in Held', otx.orderId >= asked'[id].orderId
                 PROVE  otx.data \in Got(id)'
      BY DEF TransactionsToldTo
    <3>1. CASE otx \in Held
      BY <2>1, <2>2, <3>1 DEF TransactionsToldTo
    <3>2. CASE otx = [orderId |-> nextOrderId, data |-> tx]
      <4>1. otx.data = tx /\ tx \in results[id]
        BY <1>2, <2>1, <3>2
      <4> QED
        BY <2>3, <4>1
    <3> QED
      BY <1>4, <3>1, <3>2
  <2> QED
    BY <2>4, <2>5, <2>6
<1> QED
  BY <1>3, <1>5 DEF ToldOK

(* A filter is made: nothing was sent since, all blocks were there, and the *)
(* logs it asks for are its first results.                                  *)
LEMMA ComputedParams ==
  ASSUME NodeInv, NEW range \in Ranges
  PROVE  LET params == ComputeFilterParams(range, TRUE)
             again == ComputeFilterParams(params, FALSE)
         IN  /\ params.fromBlock \in Nat /\ params.toBlock \in Nat \cup {LATEST_BLOCK}
             /\ (range.toBlock = LATEST_BLOCK) <=> (params.toBlock = LATEST_BLOCK)
             /\ again.fromBlock = params.fromBlock
             /\ again.toBlock = IF range.toBlock = LATEST_BLOCK THEN LatestNumber ELSE params.toBlock
<1> DEFINE Number(block) == IF block = LATEST_BLOCK THEN LatestNumber ELSE Least(block, LatestNumber)
           params == ComputeFilterParams(range, TRUE)
           again == ComputeFilterParams(params, FALSE)
<1>1. LatestNumber \in Nat
  BY ChainType
<1>2. /\ range.fromBlock \in Nat \cup {LATEST_BLOCK} /\ range.toBlock \in Nat \cup {LATEST_BLOCK}
      /\ LATEST_BLOCK = -1
  BY DEF Ranges, LATEST_BLOCK
<1>3. /\ params.fromBlock = Number(range.fromBlock)
      /\ params.toBlock = IF range.toBlock = LATEST_BLOCK THEN LATEST_BLOCK ELSE Number(range.toBlock)
      /\ again.fromBlock = Number(params.fromBlock) /\ again.toBlock = Number(params.toBlock)
  BY DEF ComputeFilterParams
<1>4. \A block \in Nat \cup {LATEST_BLOCK} : Number(block) \in Nat /\ Number(block) <= LatestNumber
  BY <1>1, <1>2 DEF Least
<1>5. \A block \in Nat : block <= LatestNumber => Number(block) = block
  BY <1>1, <1>2 DEF Least
<1> HIDE DEF Number, params, again
<1>6. Number(LATEST_BLOCK) = LatestNumber
  BY DEF Number
<1>7. params.fromBlock \in Nat /\ again.fromBlock = params.fromBlock
  BY <1>2, <1>3, <1>4, <1>5
<1>8. CASE range.toBlock = LATEST_BLOCK
  <2>1. params.toBlock = LATEST_BLOCK /\ again.toBlock = LatestNumber
    BY <1>3, <1>6, <1>8
  <2> QED
    BY <1>7, <1>8, <2>1 DEF params, again
<1>9. CASE range.toBlock # LATEST_BLOCK
  <2>1. params.toBlock \in Nat /\ params.toBlock # LATEST_BLOCK /\ again.toBlock = params.toBlock
    BY <1>2, <1>3, <1>4, <1>5, <1>9
  <2> QED
    BY <1>7, <1>9, <2>1 DEF params, again
<1> QED
  BY <1>8, <1>9

FilterTypes == {"blocks", "logs", "transactions"}

LEMMA Added ==
  ASSUME NodeInv, OrdersOK, FiltersOK, ToldOK,
         NEW client \in Clients, NEW type \in FilterTypes, NEW subscription \in BOOLEAN, NEW range \in Ranges,
         NEW results, AddFilter(client, type, subscription, range, results),
         type = "logs" =>
           \A n \in 0 .. LatestNumber : \A log \in Logs(n) :
             LET params == ComputeFilterParams(range, TRUE)
             IN  /\ params.fromBlock <= n
                 /\ n <= IF range.toBlock = LATEST_BLOCK THEN LatestNumber ELSE params.toBlock
                 => log \in results
  PROVE  FiltersOK' /\ ToldOK'
<1> PICK new : new = lastFilterId + 1
  OBVIOUS
<1> DEFINE params == ComputeFilterParams(range, TRUE)
           filter == [type |-> type, subscription |-> subscription, criteria |-> params,
                      deadline |-> NewDeadline, results |-> results]
           ask == [client |-> client, range |-> range, chain |-> chain, orderId |-> nextOrderId]
<1>1. /\ DOMAIN filters' = DOMAIN filters \cup {new} /\ DOMAIN asked' = DOMAIN asked \cup {new}
      /\ filters'[new] = filter /\ asked'[new] = ask
      /\ \A id \in DOMAIN filters : id # new => filters'[id] = filters[id]
      /\ \A id \in DOMAIN asked : id # new => asked'[id] = asked[id]
      /\ received' = received
      /\ UNCHANGED <<chain, pool, poolSnapshots, nextOrderId>>
  BY DEF AddFilter, With, nodeVars, poolVars
<1>2. /\ DOMAIN filter = {"type", "subscription", "criteria", "deadline", "results"}
      /\ filter.type = type /\ filter.subscription = subscription /\ filter.criteria = params
      /\ filter.results = results
      /\ ask.client = client /\ ask.range = range /\ ask.chain = chain /\ ask.orderId = nextOrderId
  OBVIOUS
<1>3. /\ params.fromBlock \in Nat /\ params.toBlock \in Nat \cup {LATEST_BLOCK}
      /\ (range.toBlock = LATEST_BLOCK) <=> (params.toBlock = LATEST_BLOCK)
  BY ComputedParams
<1>4. /\ type = "logs" =>
           \A n \in 0 .. LatestNumber : \A log \in Logs(n) :
             params.fromBlock <= n /\ n <= (IF range.toBlock = LATEST_BLOCK THEN LatestNumber ELSE params.toBlock)
               => log \in results
  OBVIOUS
<1> HIDE DEF params, filter, ask
<1>5. FiltersOK'
  <2>1. ASSUME NEW id \in DOMAIN filters, id # new
        PROVE  FilterOK(id)'
    <3>1. FilterOK(id) /\ id \in DOMAIN asked
      BY DEF FiltersOK
    <3> QED
      BY <1>1, <2>1, <3>1 DEF FilterOK, Clients
  <2>2. FilterOK(new)'
    <3>1. nextOrderId \in Nat
      BY DEF NodeInv, PoolInv
    <3> QED
      BY <1>1, <1>2, <1>3, <3>1 DEF FilterOK, FilterTypes, Clients
  <2> QED
    BY <1>1, <2>1, <2>2 DEF FiltersOK, Clients
<1>6. UNCHANGED <<Held, LatestNumber>> /\ \A n : Logs(n)' = Logs(n)
  BY <1>1 DEF Held, Pools, Entries, LatestNumber, Logs, HashOf
<1>7. ASSUME NEW id \in Followed', id # new
      PROVE  BlocksToldTo(id)' /\ LogsToldTo(id)' /\ TransactionsToldTo(id)'
  <2>1. /\ id \in DOMAIN filters /\ id \in DOMAIN asked /\ filters'[id] = filters[id]
        /\ asked'[id] = asked[id]
    BY <1>1, <1>7 DEF Followed, FiltersOK
  <2>2. id \in Followed /\ Got(id)' = Got(id)
    BY <1>1, <2>1 DEF Followed, Got
  <2>3. BlocksToldTo(id) /\ LogsToldTo(id) /\ TransactionsToldTo(id)
    BY <2>2 DEF ToldOK
  <2>4. BlocksToldTo(id)'
    BY <1>1, <2>1, <2>2, <2>3 DEF BlocksToldTo
  <2>5. LogsToldTo(id)'
    BY <1>6, <2>1, <2>2, <2>3 DEF LogsToldTo, Wants, LastWanted
  <2>6. TransactionsToldTo(id)'
    BY <1>6, <2>1, <2>2, <2>3 DEF TransactionsToldTo
  <2> QED
    BY <2>4, <2>5, <2>6
<1>8. BlocksToldTo(new)'
  BY <1>1, <1>2 DEF BlocksToldTo
<1>9. TransactionsToldTo(new)'
  <2>1. nextOrderId \in Nat
    BY DEF NodeInv, PoolInv
  <2> QED
    BY <1>1, <1>2, <1>6, <2>1 DEF TransactionsToldTo, OrdersOK
<1>10. LogsToldTo(new)'
  <2> SUFFICES ASSUME filters'[new].type = "logs", NEW n \in 0 .. LatestNumber', NEW log \in Logs(n)', Wants(new, n)'
               PROVE  log \in Got(new)' \/ (filters'[new].subscription /\ log.block \in HashesOf(asked'[new].chain))
    BY DEF LogsToldTo
  <2>1. n \in 0 .. LatestNumber /\ log \in Logs(n)
    BY <1>6
  <2>2. CASE subscription
    <3>1. log.block = SubSeq(chain, 1, n + 1) /\ n + 1 \in 1 .. Len(chain)
      BY <2>1, ChainType DEF Logs, HashOf
    <3> QED
      BY <1>1, <1>2, <2>2, <3>1 DEF HashesOf
  <2>3. CASE ~subscription
    <3>1. /\ params.fromBlock <= n
          /\ n <= IF range.toBlock = LATEST_BLOCK THEN LatestNumber ELSE params.toBlock
      BY <1>1, <1>2, <1>6 DEF Wants, LastWanted
    <3>2. log \in results
      BY <1>1, <1>2, <1>4, <2>1, <3>1
    <3> QED
      BY <1>1, <1>2, <2>3, <3>2 DEF Got
  <2> QED
    BY <2>2, <2>3
<1> QED
  BY <1>5, <1>7, <1>8, <1>9, <1>10 DEF ToldOK

LEMMA FilterInvStep ==
  ASSUME NodeInv, NodeInv', FilterInv, [FilterNext]_allVars
  PROVE  FilterInv'
<1>1. [NodeNext]_nodeVars /\ PoolInv /\ [TxPoolNext]_poolVars
  BY StepOfNode, PoolStep DEF NodeInv
<1>2. OrdersOK'
  BY <1>1, OrdersOKStep DEF FilterInv
<1>3. ASSUME UNCHANGED nodeVars
      PROVE  ChainShrinks /\ Held' \subseteq Held
  <2>1. ChainShrinks
    BY <1>3, PrefixShrinks DEF ChainKept, nodeVars
  <2>2. Held' = Held
    BY <1>3 DEF nodeVars, poolVars, Held, Pools, Entries
  <2> QED
    BY <2>1, <2>2
<1>4. ASSUME KeepsFilters, ChainShrinks, Held' \subseteq Held
      PROVE  FiltersOK' /\ ToldOK'
  BY <1>4, FiltersOKKept, ToldOKShrinks DEF FilterInv
<1>5. ASSUME UNCHANGED filterVars
      PROVE  KeepsFilters
  BY <1>5 DEF filterVars, KeepsFilters, Kept, Got, FilterInv, FiltersOK, Clients
<1>6. CASE NodeStep
  <2> SUFFICES FiltersOK' /\ ToldOK'
    BY <1>2 DEF FilterInv
  <2>1. CASE FinishBlock /\ SaveBlockAsSuccessfullyRun
    BY <2>1, ToldOKMined, FiltersOKKept DEF FilterInv
  <2>2. ASSUME NEW tx \in Txs, AddTransaction(tx), chain' = chain, NotifyPendingTransaction(tx)
        PROVE  FiltersOK' /\ ToldOK'
    BY <2>2, ToldOKSent, FiltersOKKept DEF FilterInv
  <2>3. ASSUME NEW tx \in Txs, SendToPool(tx) \/ SendAndMine(tx), NotifyPendingTransaction(tx)
        PROVE  FiltersOK' /\ ToldOK'
    BY <2>2, <2>3 DEF SendToPool, SendAndMine
  <2>4. CASE AddWithPending /\ NotifyPendingTransaction(request.tx)
    <3>1. request.tx \in Txs
      BY <2>4 DEF AddWithPending, NodeInv, RequestOK
    <3> QED
      BY <2>2, <2>4, <3>1 DEF AddWithPending
  <2>5. CASE NodeNext /\ Len(chain') <= Len(chain) /\ nextOrderId' = nextOrderId /\ UNCHANGED filterVars
    <3>1. ~FinishBlock
      <4>1. FinishBlock => LatestNumber' = LatestNumber + 1
        BY PrefixGrows DEF ChainGrows
      <4> QED
        BY <2>5, <4>1, ChainType DEF LatestNumber, NodeInv, ChainOK
    <3>2. ChainShrinks
      BY <1>1, <3>1, ChainSteps, PrefixShrinks
    <3>3. Held' \subseteq Held
      <4>1. nextOrderId \in Nat
        BY <1>1 DEF PoolInv
      <4> QED
        BY <1>1, <2>5, <4>1, HeldSteps DEF AddTransaction
    <3> QED
      BY <1>4, <1>5, <2>5, <3>2, <3>3
  <2> QED
    BY <1>6, <2>1, <2>3, <2>4, <2>5 DEF NodeStep
<1>7. CASE FilterStep
  <2> SUFFICES FiltersOK' /\ ToldOK'
    BY <1>2 DEF FilterInv
  <2>1. ASSUME NEW client \in Clients, NEW subscription \in BOOLEAN, NEW range \in Ranges,
               NewFilter(client, subscription, range)
        PROVE  FiltersOK' /\ ToldOK'
    <3> DEFINE params == ComputeFilterParams(range, TRUE)
               again == ComputeFilterParams(params, FALSE)
               results == GetLogs(again.fromBlock, again.toBlock)
    <3>1. AddFilter(client, "logs", subscription, range, results)
      BY <2>1 DEF NewFilter
    <3>2. /\ again.fromBlock = params.fromBlock
          /\ again.toBlock = IF range.toBlock = LATEST_BLOCK THEN LatestNumber ELSE params.toBlock
      BY ComputedParams
    <3> HIDE DEF params, again
    <3>3. \A n \in 0 .. LatestNumber : \A log \in Logs(n) :
            again.fromBlock <= n /\ n <= again.toBlock => log \in results
      BY DEF GetLogs
    <3> HIDE DEF results
    <3> QED
      BY <3>1, <3>2, <3>3, Added DEF FilterInv, FilterTypes, params
  <2>2. ASSUME NEW client \in Clients, NEW subscription \in BOOLEAN,
               NewBlockFilter(client, subscription) \/ NewPendingTransactionFilter(client, subscription)
        PROVE  FiltersOK' /\ ToldOK'
    <3>1. NoRange \in Ranges
      BY DEF NoRange, Ranges
    <3>2. PICK type \in {"blocks", "transactions"} : \E results : AddFilter(client, type, subscription, NoRange, results)
      BY <2>2 DEF NewBlockFilter, NewPendingTransactionFilter
    <3>3. type \in FilterTypes /\ type # "logs"
      BY <3>2 DEF FilterTypes
    <3> QED
      BY <3>1, <3>2, <3>3, Added DEF FilterInv
  <2>3. ASSUME NEW id \in DOMAIN filters, GetFilterChanges(asked[id].client, id) \/ GetFilterLogs(asked[id].client, id)
        PROVE  FiltersOK' /\ ToldOK'
    <3>1. CASE GetFilterChanges(asked[id].client, id)
      <4>1. KeepsFilters /\ UNCHANGED nodeVars
        BY <3>1, Polled DEF GetFilterChanges, FilterInv
      <4> QED
        BY <1>3, <1>4, <4>1
    <3>2. CASE GetFilterLogs(asked[id].client, id)
      <4> DEFINE logs == IF filters[id].type = "logs" THEN filters[id].results ELSE {}
                 rest == filters[id].results \ logs
      <4>1. /\ received' = [received EXCEPT ![asked[id].client] = @ \cup {id} \X logs]
            /\ filters' = [filters EXCEPT ![id].results = @ \ logs, ![id].deadline = NewDeadline]
            /\ asked' = asked /\ UNCHANGED nodeVars
        BY <3>2 DEF GetFilterLogs
      <4>2. filters[id].results \subseteq logs \cup rest
        OBVIOUS
      <4> HIDE DEF logs
      <4>3. KeepsFilters
        BY <4>1, <4>2, Polled DEF FilterInv
      <4> QED
        BY <1>3, <1>4, <4>1, <4>3
    <3> QED
      BY <2>3, <3>1, <3>2
  <2>4. ASSUME NEW ids, Remove(ids), UNCHANGED nodeVars
        PROVE  FiltersOK' /\ ToldOK'
    BY <1>3, <1>4, <2>4, Removed DEF FilterInv
  <2>5. ASSUME NEW id, NEW subscription, UninstallFilter(id, subscription)
        PROVE  FiltersOK' /\ ToldOK'
    BY <2>4, <2>5 DEF UninstallFilter
  <2>6. ASSUME NEW socket, CloseSocket(socket)
        PROVE  FiltersOK' /\ ToldOK'
    BY <2>4, <2>6 DEF CloseSocket
  <2>7. ASSUME NEW from \in RangeStarts, NEW to \in RangeEnds
        PROVE  [fromBlock |-> from, toBlock |-> to] \in Ranges
    BY FilterAssumption DEF Ranges
  <2> QED
    BY <1>7, <2>1, <2>2, <2>3, <2>5, <2>6, <2>7 DEF FilterStep
<1>8. CASE UNCHANGED allVars
  BY <1>2, <1>3, <1>4, <1>5, <1>8 DEF allVars, FilterInv
<1> QED
  BY <1>6, <1>7, <1>8 DEF FilterNext

(* What followers know stays enough, through everything the node does.      *)
THEOREM FilterInvariant == FilterSpec => []FilterInv
<1>1. FilterInit => FilterInv
  BY DEF FilterInit, NodeInit, TxPoolInit, FilterInv, OrdersOK, FiltersOK, ToldOK, Followed,
         Held, Pools, Entries
<1>2. NodeInv /\ NodeInv' /\ FilterInv /\ [FilterNext]_allVars => FilterInv'
  BY FilterInvStep
<1> QED
  BY <1>1, <1>2, FollowedNodeIsNode, NodeInvariant, PTL DEF FilterSpec

(* Whoever follows the blocks or the logs knows those of the chain,         *)
(* whatever was mined, undone and mined again since.                        *)
THEOREM FollowersKnowTheChain == FilterSpec => []ChainTold
<1>1. NodeInv /\ FilterInv => ChainTold
  <2> SUFFICES ASSUME NodeInv, FilterInv, NEW id \in Followed
               PROVE  LET old == HashesOf(asked[id].chain)
                          OldLogs == {log \in GetLogs(0, LatestNumber) : log.block \in old}
                          first == filters[id].criteria.fromBlock
                          last == IF asked[id].range.toBlock = LATEST_BLOCK THEN LatestNumber
                                  ELSE filters[id].criteria.toBlock
                      IN  /\ filters[id].type = "blocks" => HashesOf(chain) \subseteq old \cup Got(id)
                          /\ filters[id].type = "logs" =>
                               GetLogs(first, last) \subseteq
                                 Got(id) \cup IF filters[id].subscription THEN OldLogs ELSE {}
    BY DEF ChainTold
  <2>1. BlocksToldTo(id) /\ LogsToldTo(id)
    BY DEF FilterInv, ToldOK
  <2>2. LatestNumber \in Nat
    BY ChainType
  <2>3. ASSUME filters[id].type = "logs", NEW n \in 0 .. LatestNumber, NEW log \in Logs(n), Wants(id, n)
        PROVE  log \in Got(id) \/ (filters[id].subscription /\ log.block \in HashesOf(asked[id].chain)
                                     /\ log \in GetLogs(0, LatestNumber))
    <3>1. log \in GetLogs(0, LatestNumber)
      BY <2>2 DEF GetLogs
    <3> QED
      BY <2>1, <2>3, <3>1 DEF LogsToldTo
  <2> QED
    BY <2>1, <2>3 DEF BlocksToldTo, GetLogs, Wants, LastWanted
<1> QED
  BY <1>1, FilterInvariant, FollowedNodeIsNode, NodeInvariant, PTL

(* Whoever follows the transactions was told each that came since and is in *)
(* the pool, also when a revert brought it back.                            *)
THEOREM FollowersKnowThePool == FilterSpec => []TransactionsTold
<1>1. FilterInv => TransactionsTold
  BY HeldBy DEF FilterInv, ToldOK, TransactionsToldTo, TransactionsTold
<1> QED
  BY <1>1, FilterInvariant, PTL
==============================================================================
