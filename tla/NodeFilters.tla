----------------------------- MODULE NodeFilters -----------------------------
(***************************************************************************)
(* Who follows the node: filters that are polled and subscriptions that    *)
(* are notified, of blocks, pending transactions and logs. Code in the     *)
(* same process listens to the provider; others come over websockets. The  *)
(* filters are told what is mined and sent while it happens, and are not   *)
(* told when it is taken back.                                             *)
(*                                                                         *)
(* Lists of results are represented by sets; each transaction logs once.   *)
(***************************************************************************)
EXTENDS HardhatNode

CONSTANTS
  InProcess,       \* the client in the process of the node
  Sockets,         \* the websocket connections
  FilterLifetime,  \* how long a filter that nobody asks is kept, in ticks
  RangeStarts,     \* the blocks a filter of logs may start at ...
  RangeEnds,       \* ... and end at
  MaxFilters       \* bound on the filters ever made

LATEST_BLOCK == -1

ASSUME FilterAssumption ==
  /\ InProcess \notin Sockets
  /\ FilterLifetime \in Nat
  /\ RangeStarts \cup RangeEnds \subseteq Nat \cup {LATEST_BLOCK}

VARIABLES
  filters,       \* _filters
  lastFilterId,  \* _lastFilterId
  closed,        \* the connections whose socket is closed
  subscriptions, \* what each connection remembers of what it subscribed to
  received,      \* the results each client got of the filters there are
  asked          \* for each filter there is: who asked for what, at which chain

filterVars == <<filters, lastFilterId, closed, subscriptions, received, asked>>
allVars == <<nodeVars, filterVars>>

Clients == {InProcess} \cup Sockets
LatestNumber == Len(chain) - 1
NewDeadline == now + FilterLifetime
Least(m, n) == IF m <= n THEN m ELSE n

(* A block is known by its hash, which commits to all blocks before it.     *)
HashOf(number) == SubSeq(chain, 1, number + 1)
HashesOf(blocks) == {SubSeq(blocks, 1, length) : length \in 1 .. Len(blocks)}

Logs(number) ==
  {[tx |-> tx, block |-> HashOf(number)] : tx \in {t \in Txs : \E i \in DOMAIN chain[number + 1].txs : chain[number + 1].txs[i] = t}}

GetLogs(from, to) == UNION {Logs(number) : number \in {n \in 0 .. LatestNumber : from <= n /\ n <= to}}
------------------------------------------------------------------------------
(* Events: the node emits them, the provider passes them on                 *)

(* _emitLegacySubscriptionEvent and _emitEip1193SubscriptionEvent.          *)
ProviderEvents == {"notifications", "message"}

(* The listener of a connection.                                            *)
Listens(socket, id) ==
  /\ "notification" \in ProviderEvents
  /\ socket \notin closed
  /\ id \notin subscriptions[socket]

Hears(client, id) ==
  IF client = InProcess THEN "message" \in ProviderEvents ELSE Listens(client, id)

ReceivedOf(ids, client) == {result \in received[client] : result[1] \in ids}

(* Every filter is given its results: those of a subscription are sent, the *)
(* others are kept for whoever asks.                                        *)
Give(results, expired) ==
  LET left == DOMAIN filters \ expired
  IN  /\ filters' = [id \in left |->
                       IF filters[id].subscription THEN filters[id]
                       ELSE [filters[id] EXCEPT !.results = @ \cup results[id]]]
      /\ received' = [client \in Clients |->
           ReceivedOf(left, client) \cup
             UNION {{id} \X results[id] :
                      id \in {s \in left : filters[s].subscription /\ Hears(client, s)}}]
      /\ asked' = [id \in left |-> asked[id]]
      /\ UNCHANGED <<lastFilterId, closed, subscriptions>>

(* Filters are removed, and what was given of them is not remembered here.  *)
Remove(ids) ==
  LET left == DOMAIN filters \ ids
  IN  /\ filters' = [id \in left |-> filters[id]]
      /\ received' = [client \in Clients |-> ReceivedOf(left, client)]
      /\ asked' = [id \in left |-> asked[id]]

(* Mutant: only what can be mined is told. *)
NotifyExecutable(tx) ==
  Give([id \in DOMAIN filters |->
          IF filters[id].type = "transactions" /\ tx.nonce = ExecutableNonce(tx.from) THEN {tx} ELSE {}], {})

NotifyPendingTransaction(tx) ==
  Give([id \in DOMAIN filters |-> IF filters[id].type = "transactions" THEN {tx} ELSE {}], {})

(* The block that was mined. A filter whose time is over is removed; that it *)
(* is given the block all the same makes no difference to those that stay.  *)
SaveBlockAsSuccessfullyRun ==
  LET number == Len(chain)
      Includes(filter) ==
        filter.criteria.fromBlock <= number /\ (filter.criteria.toBlock = LATEST_BLOCK \/ number <= filter.criteria.toBlock)
      Results(filter) ==
        CASE filter.type = "blocks" -> {chain'}
          [] filter.type = "logs" /\ Includes(filter) -> Logs(LatestNumber)'
          [] OTHER -> {}
  IN  Give([id \in DOMAIN filters |-> Results(filters[id])],
           {id \in DOMAIN filters : filters[id].deadline < now})
------------------------------------------------------------------------------
(* Requests                                                                 *)

(* Mutant: the latest block is the one of the moment for filters too. *)
LatestOfNow(range, isFilter) ==
  LET Number(block) == IF block = LATEST_BLOCK THEN LatestNumber ELSE Least(block, LatestNumber)
  IN  [fromBlock |-> Number(range.fromBlock), toBlock |-> Number(range.toBlock)]

(* The latest block is the one of the moment, unless a filter ends there.   *)
(* No other number may be greater.                                          *)
ComputeFilterParams(range, isFilter) ==
  LET Number(block) == IF block = LATEST_BLOCK THEN LatestNumber ELSE Least(block, LatestNumber)
  IN  [fromBlock |-> Number(range.fromBlock),
       toBlock |-> IF isFilter /\ range.toBlock = LATEST_BLOCK THEN LATEST_BLOCK ELSE Number(range.toBlock)]

(* What a connection remembers: the id of the result. But the result is the *)
(* string itself, which has none.                                           *)
Undefined == 0
SubscriptionId(result) == Undefined

With(map, id, entry) == [i \in DOMAIN map \cup {id} |-> IF i = id THEN entry ELSE map[i]]

NoRange == [fromBlock |-> LATEST_BLOCK, toBlock |-> LATEST_BLOCK]

AddFilter(client, type, subscription, range, results) ==
  LET id == lastFilterId + 1
  IN  /\ ~Busy
      /\ lastFilterId < MaxFilters
      /\ lastFilterId' = id
      /\ filters' = With(filters, id, [type |-> type, subscription |-> subscription,
                                       criteria |-> ComputeFilterParams(range, TRUE),
                                       deadline |-> NewDeadline, results |-> results])
      /\ subscriptions' = IF subscription /\ client \in Sockets
                            THEN [subscriptions EXCEPT ![client] = @ \cup {SubscriptionId(id)}]
                            ELSE subscriptions
      /\ asked' = With(asked, id, [client |-> client, range |-> range, chain |-> chain,
                                   orderId |-> nextOrderId])
      /\ UNCHANGED <<nodeVars, closed, received>>

(* eth_newFilter, or eth_subscribe to logs.                                 *)
NewFilter(client, subscription, range) ==
  LET criteria == ComputeFilterParams(ComputeFilterParams(range, TRUE), FALSE)
  IN  AddFilter(client, "logs", subscription, range, GetLogs(criteria.fromBlock, criteria.toBlock))

(* eth_newBlockFilter, or eth_subscribe to newHeads.                        *)
NewBlockFilter(client, subscription) ==
  AddFilter(client, "blocks", subscription, NoRange, {HashOf(LatestNumber)})

(* eth_newPendingTransactionFilter, or eth_subscribe to them.               *)
NewPendingTransactionFilter(client, subscription) ==
  AddFilter(client, "transactions", subscription, NoRange, {})

(* eth_getFilterChanges                                                     *)
GetFilterChanges(client, id) ==
  /\ ~Busy /\ id \in DOMAIN filters
  /\ received' = [received EXCEPT ![client] = @ \cup {id} \X filters[id].results]
  /\ filters' = [filters EXCEPT ![id].results = {}, ![id].deadline = NewDeadline]
  /\ UNCHANGED <<nodeVars, lastFilterId, closed, subscriptions, asked>>

(* eth_getFilterLogs: the same, but for filters of hashes, of which it      *)
(* gives none.                                                              *)
GetFilterLogs(client, id) ==
  /\ ~Busy /\ id \in DOMAIN filters
  /\ LET logs == IF filters[id].type = "logs" THEN filters[id].results ELSE {}
     IN  /\ received' = [received EXCEPT ![client] = @ \cup {id} \X logs]
         /\ filters' = [filters EXCEPT ![id].results = @ \ logs, ![id].deadline = NewDeadline]
  /\ UNCHANGED <<nodeVars, lastFilterId, closed, subscriptions, asked>>

(* eth_uninstallFilter and eth_unsubscribe: each only for its own kind.     *)
UninstallFilter(id, subscription) ==
  /\ ~Busy /\ id \in DOMAIN filters
  /\ filters[id].subscription = subscription
  /\ Remove({id})
  /\ UNCHANGED <<nodeVars, lastFilterId, closed, subscriptions>>

(* A websocket is closed; an id that is not one is not unsubscribed.        *)
CloseSocket(socket) ==
  /\ socket \notin closed
  /\ closed' = closed \cup {socket}
  /\ Remove(subscriptions[socket])
  /\ UNCHANGED <<nodeVars, lastFilterId, subscriptions>>

FilterInit ==
  /\ NodeInit
  /\ filters = [id \in {} |-> NoRange] /\ lastFilterId = 0
  /\ closed = {}
  /\ subscriptions = [socket \in Sockets |-> {}]
  /\ received = [client \in Clients |-> {}]
  /\ asked = [id \in {} |-> NoRange]

(* What the node does, and what its filters are given meanwhile.            *)
NodeStep ==
  \/ FinishBlock /\ SaveBlockAsSuccessfullyRun
  \/ \E tx \in Txs : (SendToPool(tx) \/ SendAndMine(tx)) /\ NotifyPendingTransaction(tx)
  \/ AddWithPending /\ NotifyPendingTransaction(request.tx)
  \/ NodeNext /\ Len(chain') <= Len(chain) /\ nextOrderId' = nextOrderId
       /\ UNCHANGED filterVars

(* It makes no difference who polls.                                        *)
FilterStep ==
  \/ \E subscription \in BOOLEAN, client \in Clients \ closed :
       /\ subscription \/ client = InProcess
       /\ \/ \E from \in RangeStarts, to \in RangeEnds :
               NewFilter(client, subscription, [fromBlock |-> from, toBlock |-> to])
          \/ NewBlockFilter(client, subscription)
          \/ NewPendingTransactionFilter(client, subscription)
  \/ \E id \in DOMAIN filters :
       \/ GetFilterChanges(asked[id].client, id)
       \/ GetFilterLogs(asked[id].client, id)
       \/ \E subscription \in BOOLEAN : UninstallFilter(id, subscription)
  \/ \E socket \in Sockets : CloseSocket(socket)

FilterNext == NodeStep \/ FilterStep

FilterSpec == FilterInit /\ [][FilterNext]_allVars
------------------------------------------------------------------------------
(* What the client that made a filter has of it, or gets when it asks next. *)
Got(id) ==
  {result[2] : result \in {r \in received[asked[id].client] : r[1] = id}}
    \cup IF filters[id].subscription THEN {} ELSE filters[id].results

Followed == {id \in DOMAIN filters : filters[id].subscription => asked[id].client = InProcess}

(* Whoever follows the blocks knows the chain, whatever is mined, undone    *)
(* and mined again: each block of it was there when the filter was made, or *)
(* was told since. The same for the logs of the range that was asked for,   *)
(* those before the filter included when it is polled.                      *)
ChainTold ==
  \A id \in Followed :
    LET old == HashesOf(asked[id].chain)
        OldLogs == {log \in GetLogs(0, LatestNumber) : log.block \in old}
        first == filters[id].criteria.fromBlock
        last == IF asked[id].range.toBlock = LATEST_BLOCK THEN LatestNumber ELSE filters[id].criteria.toBlock
    IN  /\ filters[id].type = "blocks" => HashesOf(chain) \subseteq old \cup Got(id)
        /\ filters[id].type = "logs" =>
             GetLogs(first, last) \subseteq Got(id) \cup IF filters[id].subscription THEN OldLogs ELSE {}

(* Whoever follows the transactions knows what is in the pool: each was     *)
(* told, queued ones too, unless it came before the filter was made; also   *)
(* when a snapshot brings it back.                                          *)
TransactionsTold ==
  \A id \in Followed : \A s \in Senders :
    filters[id].type = "transactions" =>
      {otx.data : otx \in {o \in pool.pending[s] \cup pool.queued[s] : o.orderId >= asked[id].orderId}}
        \subseteq Got(id)

(* "Handle eth_subscribe notifications": a connection gets the blocks that  *)
(* are mined while it has a subscription to them.                           *)
SocketsNotified ==
  \A id \in DOMAIN filters :
    filters[id].type = "blocks" /\ filters[id].subscription /\ asked[id].client \in Sockets \ closed =>
      HashesOf(chain) \subseteq HashesOf(asked[id].chain) \cup Got(id)
==============================================================================
