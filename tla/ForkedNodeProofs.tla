-------------------------- MODULE ForkedNodeProofs --------------------------
(***************************************************************************)
(* The forked chain, for any remote chain, fork block, accounts, slots and *)
(* transactions: the state roots and the indexes of the blocks stay true   *)
(* to the blocks, whatever is fetched, mined, undone or looked back at, so *)
(* that the node answers as the history does that it stands for.           *)
(***************************************************************************)
EXTENDS ForkedNode, SequenceTheorems, TLAPS
------------------------------------------------------------------------------
(* The indexes of BlockchainData                                           *)

(* The transactions of a block, fetched or not.                             *)
TxsOf(d, n) == IF IsRemote(n) THEN RemoteTxs[n] ELSE d.byNumber[n].txs

ShapeOK(d) ==
  d \in [latest : {d.latest}, byNumber : {d.byNumber}, byHash : {d.byHash}, byTx : {d.byTx},
         transactions : {d.transactions}, receipts : {d.receipts}, totalDifficulty : {d.totalDifficulty}]

NumbersOK(d) ==
  /\ d.latest \in Nat /\ ForkBlockNumber <= d.latest
  /\ (ForkBlockNumber + 1)..d.latest \subseteq DOMAIN d.byNumber
  /\ DOMAIN d.byNumber \subseteq 0..d.latest
  /\ \A n \in DOMAIN d.byNumber :
       /\ d.byNumber[n].number = n
       /\ d.byNumber[n].txs \subseteq Txs
       /\ IsRemote(n) => d.byNumber[n] = RemoteBlock(n)

BlocksOK(d) ==
  /\ d.byHash = {d.byNumber[n] : n \in DOMAIN d.byNumber}
  /\ DOMAIN d.totalDifficulty = d.byHash
  /\ \A b \in d.byHash : d.totalDifficulty[b] = Difficulty * (b.number + 1)

MinedOnce(d) ==
  \A m, n \in 0..d.latest : m # n => TxsOf(d, m) \cap TxsOf(d, n) = {}

TransactionsOK(d) ==
  /\ \A n \in DOMAIN d.byNumber : \A tx \in d.byNumber[n].txs :
       tx \in d.transactions /\ tx \in DOMAIN d.byTx /\ d.byTx[tx] = d.byNumber[n]
  /\ \A tx \in DOMAIN d.byTx : \E n \in DOMAIN d.byNumber : tx \in d.byNumber[n].txs
  /\ \A tx \in d.transactions : \E n \in 0..d.latest : tx \in TxsOf(d, n)

ReceiptsFound(d) ==
  \A tx \in DOMAIN d.receipts : \E n \in 0..d.latest :
     tx \in TxsOf(d, n) /\ d.receipts[tx] = [tx |-> tx, number |-> n]

ReceiptsKept(d, last) ==
  \A n \in (ForkBlockNumber + 1)..last : d.byNumber[n].txs \subseteq DOMAIN d.receipts

(* Everything but the receipts of the block that is being added.            *)
MapsOK(d) ==
  ShapeOK(d) /\ NumbersOK(d) /\ BlocksOK(d) /\ MinedOnce(d) /\ TransactionsOK(d) /\ ReceiptsFound(d)

DataOK(d) == MapsOK(d) /\ ReceiptsKept(d, d.latest)

LEMMA RemoteTxsType ==
  ASSUME NEW n \in 0..ForkBlockNumber
  PROVE  n \in DOMAIN RemoteTxs /\ RemoteTxs[n] \subseteq Txs /\ n \in Nat /\ IsRemote(n)
BY ForkAssumption, RemoteAssumption DEF IsRemote

LEMMA TxsOfKnown ==
  ASSUME NEW d, NumbersOK(d), NEW n \in DOMAIN d.byNumber
  PROVE  TxsOf(d, n) = d.byNumber[n].txs
<1>1. CASE IsRemote(n)
  <2>1. d.byNumber[n] = RemoteBlock(n)
    BY <1>1 DEF NumbersOK
  <2> QED
    BY <1>1, <2>1 DEF TxsOf, RemoteBlock
<1>2. CASE ~IsRemote(n)
  BY <1>2 DEF TxsOf
<1> QED
  BY <1>1, <1>2

(* A block that is not there yet: a remote one, or the next one of this     *)
(* node.                                                                    *)
MayAdd(d, block, last) ==
  /\ block.number \notin DOMAIN d.byNumber
  /\ \/ /\ block.number \in 0..ForkBlockNumber /\ last = d.latest
        /\ block = RemoteBlock(block.number)
     \/ /\ block.number = d.latest + 1 /\ last = d.latest + 1
        /\ block.txs \subseteq Txs
        /\ \A n \in 0..d.latest : TxsOf(d, n) \cap block.txs = {}

(* What addBlock does, field by field. *)
Adds(d, block, last, e) ==
  /\ e.latest = last
  /\ e.byHash = d.byHash \cup {block}
  /\ e.byTx = [tx \in DOMAIN d.byTx \cup block.txs |-> IF tx \in block.txs THEN block ELSE d.byTx[tx]]
  /\ e.transactions = d.transactions \cup block.txs
  /\ e.receipts = d.receipts
  /\ e.byNumber = With(d.byNumber, block.number, block)
  /\ e.totalDifficulty = With(d.totalDifficulty, block, Difficulty * (block.number + 1))

LEMMA AddingKeeps ==
  ASSUME NEW d, NEW e, NEW block, NEW last,
         MapsOK(d), ShapeOK(e), MayAdd(d, block, last), Adds(d, block, last, e)
  PROVE  /\ MapsOK(e)
         /\ \A n \in 0..d.latest : TxsOf(e, n) = TxsOf(d, n)
         /\ \A n \in DOMAIN d.byNumber : e.byNumber[n] = d.byNumber[n]
         /\ DOMAIN e.byNumber = DOMAIN d.byNumber \cup {block.number}
         /\ e.byNumber[block.number] = block
<1> DEFINE n == block.number
<1>0. NumbersOK(d) /\ d.latest \in Nat /\ ForkBlockNumber \in Nat /\ ForkBlockNumber <= d.latest
  BY ForkAssumption DEF MapsOK, NumbersOK
<1>1. /\ n \in 0..last /\ n \in Nat /\ last \in {d.latest, d.latest + 1} /\ block.txs \subseteq Txs
      /\ n \notin DOMAIN d.byNumber
      /\ IsRemote(n) => block = RemoteBlock(n) /\ last = d.latest
      /\ ~IsRemote(n) => n = d.latest + 1 /\ last = d.latest + 1
  <2>1. CASE n \in 0..ForkBlockNumber /\ last = d.latest /\ block = RemoteBlock(n)
    <3>1. n \in Nat /\ IsRemote(n) /\ RemoteTxs[n] \subseteq Txs
      BY <2>1, RemoteTxsType
    <3>2. block.txs \subseteq Txs
      BY <2>1, <3>1 DEF RemoteBlock
    <3> QED
      BY <2>1, <3>1, <3>2, <1>0 DEF MayAdd
  <2>2. CASE n = d.latest + 1 /\ last = d.latest + 1 /\ block.txs \subseteq Txs
    BY <2>2, <1>0 DEF MayAdd, IsRemote
  <2> QED
    BY <2>1, <2>2 DEF MayAdd
<1>2. /\ DOMAIN e.byNumber = DOMAIN d.byNumber \cup {n} /\ e.byNumber[n] = block
      /\ \A k \in DOMAIN d.byNumber : e.byNumber[k] = d.byNumber[k]
  BY <1>1 DEF Adds, With
<1>3. NumbersOK(e)
  <2>1. e.latest = last /\ last \in Nat /\ d.latest <= last
    BY <1>0, <1>1 DEF Adds
  <2>2. (ForkBlockNumber + 1)..last \subseteq DOMAIN e.byNumber
    BY <1>0, <1>1, <1>2 DEF NumbersOK, IsRemote
  <2>3. DOMAIN e.byNumber \subseteq 0..last
    BY <1>0, <1>1, <1>2 DEF NumbersOK
  <2>4. \A k \in DOMAIN e.byNumber :
          /\ e.byNumber[k].number = k
          /\ e.byNumber[k].txs \subseteq Txs
          /\ IsRemote(k) => e.byNumber[k] = RemoteBlock(k)
    BY <1>0, <1>1, <1>2 DEF NumbersOK
  <2> QED
    BY <2>1, <2>2, <2>3, <2>4, <1>0 DEF NumbersOK
<1>4. block \notin d.byHash
  <2>1. \A k \in DOMAIN d.byNumber : d.byNumber[k].number = k
    BY <1>0 DEF NumbersOK
  <2> QED
    BY <2>1, <1>1 DEF MapsOK, BlocksOK
<1>5. BlocksOK(e)
  <2>1. BlocksOK(d)
    BY DEF MapsOK
  <2>2. e.byHash = {e.byNumber[k] : k \in DOMAIN e.byNumber}
    BY <2>1, <1>2 DEF BlocksOK, Adds
  <2>3. DOMAIN e.totalDifficulty = e.byHash
    BY <2>1 DEF BlocksOK, With, Adds
  <2>4. \A x \in e.byHash : e.totalDifficulty[x] = Difficulty * (x.number + 1)
    BY <2>1, <1>4 DEF BlocksOK, With, Adds
  <2> QED
    BY <2>2, <2>3, <2>4 DEF BlocksOK
<1>6. \A k \in 0..d.latest : TxsOf(e, k) = TxsOf(d, k)
  <2> SUFFICES ASSUME NEW k \in 0..d.latest PROVE TxsOf(e, k) = TxsOf(d, k)
    OBVIOUS
  <2>1. CASE IsRemote(k)
    BY <2>1 DEF TxsOf
  <2>2. CASE ~IsRemote(k)
    <3>1. k \in DOMAIN d.byNumber
      BY <2>2, <1>0 DEF NumbersOK, IsRemote
    <3> QED
      BY <2>2, <3>1, <1>2 DEF TxsOf
  <2> QED
    BY <2>1, <2>2
<1>7. TxsOf(e, n) = block.txs
  BY <1>2, <1>3, TxsOfKnown
<1>8. \A k \in 0..last : k # n => TxsOf(e, k) \cap block.txs = {}
  <2>1. CASE n \in 0..ForkBlockNumber /\ last = d.latest
    BY <2>1, <1>0, <1>6, <1>7 DEF MapsOK, MinedOnce
  <2>2. CASE n = d.latest + 1 /\ last = d.latest + 1 /\ \A k \in 0..d.latest : TxsOf(d, k) \cap block.txs = {}
    BY <2>2, <1>0, <1>6
  <2> QED
    BY <2>1, <2>2 DEF MayAdd
<1>9. MinedOnce(e)
  <2> SUFFICES ASSUME NEW j \in 0..last, NEW k \in 0..last, j # k
               PROVE  TxsOf(e, j) \cap TxsOf(e, k) = {}
    BY DEF MinedOnce, Adds
  <2>1. CASE j = n \/ k = n
    BY <2>1, <1>7, <1>8
  <2>2. CASE j # n /\ k # n
    <3>1. j \in 0..d.latest /\ k \in 0..d.latest
      BY <2>2, <1>0, <1>1 DEF MayAdd
    <3> QED
      BY <3>1, <1>6 DEF MapsOK, MinedOnce
  <2> QED
    BY <2>1, <2>2
<1>10. TransactionsOK(e)
  <2>1. TransactionsOK(d)
    BY DEF MapsOK
  <2>2. /\ DOMAIN e.byTx = DOMAIN d.byTx \cup block.txs
        /\ e.transactions = d.transactions \cup block.txs
        /\ \A tx \in DOMAIN e.byTx : e.byTx[tx] = IF tx \in block.txs THEN block ELSE d.byTx[tx]
    BY DEF Adds
  <2>3. ASSUME NEW k \in DOMAIN d.byNumber, NEW tx \in d.byNumber[k].txs
        PROVE  tx \in e.transactions /\ tx \in DOMAIN e.byTx /\ e.byTx[tx] = e.byNumber[k]
    <3>1. k # n /\ k \in 0..last /\ k \in 0..d.latest
      BY <1>0, <1>1 DEF NumbersOK
    <3>2. tx \notin block.txs
      BY <3>1, <1>0, <1>6, <1>8, TxsOfKnown
    <3> QED
      BY <3>2, <2>1, <2>2, <1>2 DEF TransactionsOK
  <2>4. ASSUME NEW tx \in DOMAIN e.byTx PROVE \E k \in DOMAIN e.byNumber : tx \in e.byNumber[k].txs
    <3>1. CASE tx \in block.txs
      BY <3>1, <1>2
    <3>2. CASE tx \in DOMAIN d.byTx
      BY <3>2, <2>1, <1>2 DEF TransactionsOK
    <3> QED
      BY <3>1, <3>2, <2>2
  <2>5. ASSUME NEW tx \in e.transactions PROVE \E k \in 0..e.latest : tx \in TxsOf(e, k)
    <3>1. CASE tx \in block.txs
      BY <3>1, <1>1, <1>7 DEF Adds
    <3>2. CASE tx \in d.transactions
      <4>1. PICK k \in 0..d.latest : tx \in TxsOf(d, k)
        BY <3>2, <2>1 DEF TransactionsOK
      <4>2. k \in 0..last
        BY <1>0, <1>1
      <4> QED
        BY <4>1, <4>2, <1>6 DEF Adds
    <3> QED
      BY <3>1, <3>2, <2>2
  <2>6. \A k \in DOMAIN e.byNumber : \A tx \in e.byNumber[k].txs :
          tx \in e.transactions /\ tx \in DOMAIN e.byTx /\ e.byTx[tx] = e.byNumber[k]
    BY <2>2, <2>3, <1>2
  <2> QED
    BY <2>4, <2>5, <2>6 DEF TransactionsOK
<1>11. ReceiptsFound(e)
  <2>1. e.receipts = d.receipts /\ e.latest = last
    BY DEF Adds
  <2> SUFFICES ASSUME NEW tx \in DOMAIN d.receipts
               PROVE  \E k \in 0..last : tx \in TxsOf(e, k) /\ d.receipts[tx] = [tx |-> tx, number |-> k]
    BY <2>1 DEF ReceiptsFound
  <2>2. PICK k \in 0..d.latest : tx \in TxsOf(d, k) /\ d.receipts[tx] = [tx |-> tx, number |-> k]
    BY DEF MapsOK, ReceiptsFound
  <2>3. k \in 0..last
    BY <1>0, <1>1
  <2> QED
    BY <2>2, <2>3, <1>6
<1> QED
  BY <1>2, <1>3, <1>5, <1>6, <1>9, <1>10, <1>11 DEF MapsOK

(* What was fetched stays what it was, and nothing of this node is changed. *)
Fetched(d, e) ==
  /\ DataOK(e) /\ e.latest = d.latest
  /\ \A n \in 0..d.latest : TxsOf(e, n) = TxsOf(d, n)
  /\ \A n \in DOMAIN d.byNumber : n \in DOMAIN e.byNumber /\ e.byNumber[n] = d.byNumber[n]

LEMMA FetchedNothing ==
  ASSUME NEW d, DataOK(d)
  PROVE  Fetched(d, d)
BY DEF Fetched

LEMMA FetchedBoth ==
  ASSUME NEW d, NEW e, NEW f, Fetched(d, e), Fetched(e, f)
  PROVE  Fetched(d, f)
BY DEF Fetched

LEMMA ReceiptsStay ==
  ASSUME NEW d, NEW e, DataOK(d), MapsOK(e), e.latest = d.latest, DOMAIN d.receipts \subseteq DOMAIN e.receipts,
         \A n \in DOMAIN d.byNumber : n \in DOMAIN e.byNumber /\ e.byNumber[n] = d.byNumber[n]
  PROVE  DataOK(e)
BY DEF DataOK, ReceiptsKept, MapsOK, NumbersOK

LEMMA RemoteBlockKept ==
  ASSUME NEW d, DataOK(d), NEW n \in 0..ForkBlockNumber, n \notin DOMAIN d.byNumber
  PROVE  LET e == ProcessRemoteBlock(d, RemoteBlock(n))
         IN  Fetched(d, e) /\ n \in DOMAIN e.byNumber
<1> DEFINE b == RemoteBlock(n)
           e == WithBlock(d, b, Difficulty * (b.number + 1))
<1>1. b.number = n /\ b = RemoteBlock(b.number) /\ IsRemote(n) /\ MapsOK(d) /\ ShapeOK(d)
  BY RemoteTxsType DEF RemoteBlock, DataOK, MapsOK
<1>2. ProcessRemoteBlock(d, RemoteBlock(n)) = e
  BY <1>1 DEF ProcessRemoteBlock
<1>3. MayAdd(d, b, d.latest)
  BY <1>1 DEF MayAdd
<1> HIDE DEF b
<1>4. ShapeOK(e) /\ Adds(d, b, d.latest, e)
  BY <1>1 DEF ShapeOK, WithBlock, Adds
<1>5. MapsOK(e) /\ (\A k \in 0..d.latest : TxsOf(e, k) = TxsOf(d, k)) /\ n \in DOMAIN e.byNumber
      /\ \A k \in DOMAIN d.byNumber : k \in DOMAIN e.byNumber /\ e.byNumber[k] = d.byNumber[k]
  BY <1>1, <1>3, <1>4, AddingKeeps
<1>6. e.latest = d.latest /\ e.receipts = d.receipts
  BY <1>4 DEF Adds
<1> HIDE DEF e
<1>7. DataOK(e)
  BY <1>5, <1>6, ReceiptsStay
<1> QED
  BY <1>2, <1>5, <1>6, <1>7 DEF Fetched

LEMMA FetchBlockNumberKeeps ==
  ASSUME NEW d, DataOK(d), NEW n \in Nat
  PROVE  /\ Fetched(d, FetchBlockNumber(d, n))
         /\ n <= d.latest => n \in DOMAIN FetchBlockNumber(d, n).byNumber
<1>1. CASE n > d.latest \/ n \in DOMAIN d.byNumber
  <2>1. d.latest \in Nat
    BY DEF DataOK, MapsOK, NumbersOK
  <2> QED
    BY <1>1, <2>1, FetchedNothing DEF FetchBlockNumber
<1>2. CASE ~(n > d.latest \/ n \in DOMAIN d.byNumber)
  <2>1. /\ d.latest \in Nat /\ ForkBlockNumber \in Nat
        /\ (ForkBlockNumber + 1)..d.latest \subseteq DOMAIN d.byNumber
    BY ForkAssumption DEF DataOK, MapsOK, NumbersOK
  <2>2. n \in 0..ForkBlockNumber
    BY <1>2, <2>1
  <2> QED
    BY <1>2, <2>2, RemoteBlockKept DEF FetchBlockNumber
<1> QED
  BY <1>1, <1>2

LEMMA FetchBlockKeeps ==
  ASSUME NEW d, DataOK(d), NEW b
  PROVE  Fetched(d, FetchBlock(d, b))
<1>1. CASE b \in d.byHash \/ b \notin RemoteBlocks
  BY <1>1, FetchedNothing DEF FetchBlock
<1>2. CASE b \notin d.byHash /\ b \in RemoteBlocks
  <2>1. PICK n \in DOMAIN RemoteTxs : b = RemoteBlock(n)
    BY <1>2 DEF RemoteBlocks
  <2>2. n \in Nat /\ b.number = n /\ FetchBlock(d, b) = ProcessRemoteBlock(d, b)
    BY <1>2, <2>1, ForkAssumption, RemoteAssumption DEF RemoteBlock, FetchBlock
  <2>3. CASE IsRemote(n)
    <3>1. n \in 0..ForkBlockNumber
      BY <2>2, <2>3, ForkAssumption DEF IsRemote
    <3>2. n \notin DOMAIN d.byNumber
      BY <1>2, <2>1, <2>3 DEF DataOK, MapsOK, BlocksOK, NumbersOK
    <3> QED
      BY <2>1, <2>2, <3>1, <3>2, RemoteBlockKept
  <2>4. CASE ~IsRemote(n)
    BY <2>2, <2>4, FetchedNothing DEF ProcessRemoteBlock
  <2> QED
    BY <2>3, <2>4
<1> QED
  BY <1>1, <1>2

(* A transaction of a remote block that is not after the fork.              *)
LEMMA RemoteBlockOfOne ==
  ASSUME NEW tx, NEW b \in RemoteBlockOf(tx)
  PROVE  /\ RemoteBlockOf(tx) = {b}
         /\ b.number \in DOMAIN RemoteTxs /\ b.number \in Nat /\ tx \in RemoteTxs[b.number]
         /\ IsRemote(b.number) => b.number \in 0..ForkBlockNumber
<1>1. \A c \in RemoteBlockOf(tx) :
        /\ c.number \in DOMAIN RemoteTxs /\ c.number \in Nat /\ tx \in RemoteTxs[c.number]
        /\ c = RemoteBlock(c.number)
  BY ForkAssumption, RemoteAssumption DEF RemoteBlockOf, RemoteBlocks, RemoteBlock
<1>2. \A c \in RemoteBlockOf(tx) : c.number = b.number
  BY <1>1, RemoteAssumption
<1>3. RemoteBlockOf(tx) = {b}
  BY <1>1, <1>2
<1> QED
  BY <1>1, <1>3, ForkAssumption DEF IsRemote

(* The maps of blocks are as they were. *)
SameBlocks(d, e) ==
  /\ e.latest = d.latest /\ e.byNumber = d.byNumber /\ e.byHash = d.byHash
  /\ e.totalDifficulty = d.totalDifficulty /\ e.byTx = d.byTx

LEMMA SameBlocksKept ==
  ASSUME NEW d, NEW e, DataOK(d), ShapeOK(e), SameBlocks(d, e),
         d.transactions \subseteq e.transactions,
         \A tx \in e.transactions : tx \in d.transactions \/ \E n \in 0..d.latest : tx \in TxsOf(d, n),
         ReceiptsFound(e), DOMAIN d.receipts \subseteq DOMAIN e.receipts
  PROVE  Fetched(d, e)
<1>1. \A n : TxsOf(e, n) = TxsOf(d, n)
  BY DEF TxsOf, SameBlocks
<1>2. NumbersOK(e) /\ BlocksOK(e) /\ MinedOnce(e)
  BY <1>1 DEF DataOK, MapsOK, NumbersOK, BlocksOK, MinedOnce, SameBlocks
<1>3. TransactionsOK(e)
  BY <1>1 DEF DataOK, MapsOK, TransactionsOK, SameBlocks
<1>4. MapsOK(e)
  BY <1>2, <1>3 DEF MapsOK
<1> QED
  BY <1>1, <1>4, ReceiptsStay DEF Fetched, SameBlocks

LEMMA FetchTransactionKeeps ==
  ASSUME NEW d, DataOK(d), NEW tx
  PROVE  Fetched(d, FetchTransaction(d, tx)) /\ SameBlocks(d, FetchTransaction(d, tx))
         /\ FetchTransaction(d, tx).receipts = d.receipts
<1>1. CASE tx \in d.transactions \/ \A b \in RemoteBlockOf(tx) : ~IsRemote(b.number)
  BY <1>1, FetchedNothing DEF FetchTransaction, SameBlocks
<1>2. CASE ~(tx \in d.transactions \/ \A b \in RemoteBlockOf(tx) : ~IsRemote(b.number))
  <2> DEFINE e == [d EXCEPT !.transactions = @ \cup {tx}]
  <2>1. PICK b \in RemoteBlockOf(tx) : IsRemote(b.number)
    BY <1>2
  <2>2. FetchTransaction(d, tx) = e
    BY <1>2 DEF FetchTransaction
  <2>3. ShapeOK(d) /\ d.latest \in Nat /\ ForkBlockNumber <= d.latest /\ ForkBlockNumber \in Nat
    BY ForkAssumption DEF DataOK, MapsOK, NumbersOK
  <2>4. ShapeOK(e) /\ SameBlocks(d, e) /\ e.receipts = d.receipts /\ e.transactions = d.transactions \cup {tx}
    BY <2>3 DEF ShapeOK, SameBlocks
  <2>5. b.number \in 0..d.latest /\ tx \in TxsOf(d, b.number)
    BY <2>1, <2>3, RemoteBlockOfOne DEF TxsOf
  <2> HIDE DEF e
  <2>6. ReceiptsFound(e)
    <3>1. \A n : TxsOf(e, n) = TxsOf(d, n)
      BY <2>4 DEF TxsOf, SameBlocks
    <3> QED
      BY <3>1, <2>4 DEF DataOK, MapsOK, ReceiptsFound, SameBlocks
  <2> QED
    BY <2>2, <2>4, <2>5, <2>6, SameBlocksKept
<1> QED
  BY <1>1, <1>2

LEMMA FetchBlockOfKeeps ==
  ASSUME NEW d, DataOK(d), NEW tx
  PROVE  Fetched(d, FetchBlockOf(d, tx))
<1>1. CASE tx \in DOMAIN d.byTx \/ RemoteBlockOf(tx) = {}
  BY <1>1, FetchedNothing DEF FetchBlockOf
<1>2. CASE ~(tx \in DOMAIN d.byTx \/ RemoteBlockOf(tx) = {})
  <2> DEFINE b == CHOOSE c \in RemoteBlockOf(tx) : TRUE
             e == FetchTransaction(d, tx)
  <2>1. FetchBlockOf(d, tx) = FetchBlock(e, b)
    BY <1>2 DEF FetchBlockOf
  <2> HIDE DEF b, e
  <2>2. Fetched(d, e)
    BY FetchTransactionKeeps DEF e
  <2>3. Fetched(e, FetchBlock(e, b))
    BY <2>2, FetchBlockKeeps DEF Fetched
  <2> QED
    BY <2>1, <2>2, <2>3, FetchedBoth
<1> QED
  BY <1>1, <1>2

LEMMA FetchReceiptKeeps ==
  ASSUME NEW d, DataOK(d), NEW tx
  PROVE  Fetched(d, FetchReceipt(d, tx))
<1>1. CASE tx \in DOMAIN d.receipts \/ \A b \in RemoteBlockOf(tx) : ~IsRemote(b.number)
  BY <1>1, FetchedNothing DEF FetchReceipt
<1>2. CASE ~(tx \in DOMAIN d.receipts \/ \A b \in RemoteBlockOf(tx) : ~IsRemote(b.number))
  <2>1. PICK b \in RemoteBlockOf(tx) : IsRemote(b.number)
    BY <1>2
  <2>2. b = CHOOSE c \in RemoteBlockOf(tx) : TRUE
    BY <2>1, RemoteBlockOfOne
  <2> DEFINE t == FetchTransaction(d, tx)
             e == [t EXCEPT !.receipts = With(@, tx, Receipt(tx, b))]
  <2>3. FetchReceipt(d, tx) = e
    BY <1>2, <2>2 DEF FetchReceipt
  <2> HIDE DEF t
  <2>4. Fetched(d, t) /\ t.receipts = d.receipts
    BY FetchTransactionKeeps DEF t
  <2>5. DataOK(t) /\ ShapeOK(t) /\ t.latest \in Nat /\ ForkBlockNumber <= t.latest /\ ForkBlockNumber \in Nat
    BY <2>4, ForkAssumption DEF Fetched, DataOK, MapsOK, NumbersOK
  <2>6. /\ ShapeOK(e) /\ SameBlocks(t, e) /\ e.transactions = t.transactions
        /\ e.receipts = With(t.receipts, tx, Receipt(tx, b))
    BY <2>5 DEF ShapeOK, SameBlocks
  <2> HIDE DEF e
  <2>7. b.number \in 0..t.latest /\ tx \in TxsOf(t, b.number)
    BY <2>1, <2>5, RemoteBlockOfOne DEF TxsOf
  <2>8. ReceiptsFound(e)
    <3>1. \A n : TxsOf(e, n) = TxsOf(t, n)
      BY <2>6 DEF TxsOf, SameBlocks
    <3>2. \A x \in DOMAIN t.receipts : \E n \in 0..t.latest :
            x \in TxsOf(e, n) /\ t.receipts[x] = [tx |-> x, number |-> n]
      BY <3>1, <2>5 DEF DataOK, MapsOK, ReceiptsFound
    <3>3. e.latest = t.latest /\ DOMAIN e.receipts = DOMAIN t.receipts \cup {tx}
      BY <2>6 DEF SameBlocks, With
    <3>4. \A x \in DOMAIN e.receipts :
            e.receipts[x] = IF x = tx THEN [tx |-> tx, number |-> b.number] ELSE t.receipts[x]
      BY <2>6 DEF With, Receipt
    <3> QED
      BY <3>1, <3>2, <3>3, <3>4, <2>7 DEF ReceiptsFound
  <2>9. DOMAIN t.receipts \subseteq DOMAIN e.receipts
    BY <2>6 DEF With
  <2>10. Fetched(t, e)
    BY <2>5, <2>6, <2>8, <2>9, SameBlocksKept
  <2> QED
    BY <2>3, <2>4, <2>10, FetchedBoth
<1> QED
  BY <1>1, <1>2

(* A block of this node, and its receipts.                                  *)
LEMMA BlockAdded ==
  ASSUME NEW d, DataOK(d), NEW root, NEW txs \in SUBSET Txs,
         \A n \in 0..d.latest : TxsOf(d, n) \cap txs = {}
  PROVE  LET block == [number |-> d.latest + 1, stateRoot |-> root, txs |-> txs]
             e == WithReceipts(AddBlock(d, block), block)
         IN  /\ DataOK(e) /\ e.latest = d.latest + 1
             /\ \A n \in DOMAIN d.byNumber : n \in DOMAIN e.byNumber /\ e.byNumber[n] = d.byNumber[n]
             /\ e.byNumber[d.latest + 1] = block
<1> DEFINE block == [number |-> d.latest + 1, stateRoot |-> root, txs |-> txs]
           p == FetchBlockNumber(d, d.latest)
           td == p.totalDifficulty[p.byNumber[d.latest]] + Difficulty
           a == WithBlock([p EXCEPT !.latest = @ + 1], block, td)
           e == WithReceipts(a, block)
<1>1. d.latest \in Nat /\ ForkBlockNumber \in Nat /\ ForkBlockNumber <= d.latest
  BY ForkAssumption DEF DataOK, MapsOK, NumbersOK
<1>2. Fetched(d, p) /\ d.latest \in DOMAIN p.byNumber
  BY <1>1, FetchBlockNumberKeeps
<1>3. block.number = d.latest + 1 /\ block.txs = txs /\ block.number - 1 = d.latest
  BY <1>1
<1>4. AddBlock(d, block) = a
  BY <1>3 DEF AddBlock
<1> HIDE DEF block, p
<1>5. MapsOK(p) /\ ShapeOK(p) /\ p.latest = d.latest /\ DataOK(p)
  BY <1>2 DEF Fetched, DataOK, MapsOK
<1>6. td = Difficulty * (block.number + 1)
  <2>1. p.byNumber[d.latest] \in p.byHash /\ p.byNumber[d.latest].number = d.latest
    BY <1>2, <1>5 DEF MapsOK, BlocksOK, NumbersOK
  <2>2. p.totalDifficulty[p.byNumber[d.latest]] = Difficulty * (d.latest + 1)
    BY <2>1, <1>5 DEF MapsOK, BlocksOK
  <2> QED
    BY <2>2, <1>1, <1>3 DEF Difficulty
<1> HIDE DEF td
<1>7. MayAdd(p, block, d.latest + 1)
  <2>1. d.latest + 1 \notin DOMAIN p.byNumber
    BY <1>1, <1>5 DEF MapsOK, NumbersOK
  <2>2. \A n \in 0..p.latest : TxsOf(p, n) \cap txs = {}
    BY <1>2 DEF Fetched
  <2> QED
    BY <2>1, <2>2, <1>3, <1>5 DEF MayAdd
<1>8. ShapeOK(a) /\ Adds(p, block, d.latest + 1, a)
  <2> DEFINE q == [p EXCEPT !.latest = @ + 1]
  <2>1. /\ ShapeOK(q) /\ q.latest = d.latest + 1 /\ q.byNumber = p.byNumber /\ q.byHash = p.byHash
        /\ q.byTx = p.byTx /\ q.transactions = p.transactions /\ q.receipts = p.receipts
        /\ q.totalDifficulty = p.totalDifficulty
    BY <1>5 DEF ShapeOK
  <2> HIDE DEF q
  <2> DEFINE w == WithBlock(q, block, td)
  <2>2. /\ ShapeOK(w) /\ w.latest = q.latest /\ w.byHash = q.byHash \cup {block}
        /\ w.byTx = [tx \in DOMAIN q.byTx \cup block.txs |-> IF tx \in block.txs THEN block ELSE q.byTx[tx]]
        /\ w.transactions = q.transactions \cup block.txs /\ w.receipts = q.receipts
        /\ w.byNumber = With(q.byNumber, block.number, block)
        /\ w.totalDifficulty = With(q.totalDifficulty, block, td)
    BY <2>1 DEF ShapeOK, WithBlock
  <2>3. a = w
    BY DEF q
  <2> HIDE DEF w
  <2> QED
    BY <2>1, <2>2, <2>3, <1>6 DEF Adds
<1> HIDE DEF a
<1>9. /\ MapsOK(a) /\ a.byNumber[block.number] = block /\ ShapeOK(a) /\ a.latest = d.latest + 1
      /\ (\A n \in 0..p.latest : TxsOf(a, n) = TxsOf(p, n))
      /\ \A n \in DOMAIN p.byNumber : n \in DOMAIN a.byNumber /\ a.byNumber[n] = p.byNumber[n]
      /\ a.receipts = p.receipts /\ block.number \in DOMAIN a.byNumber
  <2>1. a.receipts = p.receipts /\ a.latest = d.latest + 1
    BY <1>8 DEF Adds
  <2> QED
    BY <2>1, <1>5, <1>7, <1>8, AddingKeeps
<1>10. /\ ShapeOK(e) /\ SameBlocks(a, e) /\ e.transactions = a.transactions
       /\ e.receipts = [tx \in DOMAIN a.receipts \cup txs |->
                          IF tx \in txs THEN Receipt(tx, block) ELSE a.receipts[tx]]
  BY <1>3, <1>9 DEF ShapeOK, SameBlocks, WithReceipts
<1>11. e = WithReceipts(AddBlock(d, block), block)
  BY <1>4
<1> HIDE DEF e
<1>12. \A n : TxsOf(e, n) = TxsOf(a, n)
  BY <1>10 DEF TxsOf, SameBlocks
<1>13. TxsOf(a, d.latest + 1) = txs /\ d.latest + 1 \in 0..e.latest /\ e.latest = d.latest + 1
  BY <1>1, <1>3, <1>9, <1>10, TxsOfKnown DEF SameBlocks, MapsOK
<1>14. ReceiptsFound(e)
  <2> SUFFICES ASSUME NEW tx \in DOMAIN e.receipts
               PROVE  \E n \in 0..e.latest : tx \in TxsOf(e, n) /\ e.receipts[tx] = [tx |-> tx, number |-> n]
    BY DEF ReceiptsFound
  <2>1. CASE tx \in txs
    <3>1. e.receipts[tx] = [tx |-> tx, number |-> d.latest + 1]
      BY <2>1, <1>3, <1>10 DEF Receipt
    <3> QED
      BY <2>1, <3>1, <1>12, <1>13
  <2>2. CASE tx \notin txs
    <3>1. tx \in DOMAIN a.receipts /\ e.receipts[tx] = a.receipts[tx]
      BY <2>2, <1>10
    <3> QED
      BY <3>1, <1>9, <1>10, <1>12 DEF MapsOK, ReceiptsFound, SameBlocks
  <2> QED
    BY <2>1, <2>2
<1>15. MapsOK(e)
  BY <1>9, <1>10, <1>12, <1>14
     DEF MapsOK, NumbersOK, BlocksOK, MinedOnce, TransactionsOK, SameBlocks
<1>16. /\ \A n \in DOMAIN d.byNumber : n \in DOMAIN e.byNumber /\ e.byNumber[n] = d.byNumber[n]
       /\ e.byNumber[d.latest + 1] = block
  BY <1>2, <1>3, <1>9, <1>10 DEF Fetched, SameBlocks
<1>17. ReceiptsKept(e, e.latest)
  <2> SUFFICES ASSUME NEW n \in (ForkBlockNumber + 1)..e.latest PROVE e.byNumber[n].txs \subseteq DOMAIN e.receipts
    BY DEF ReceiptsKept
  <2>1. DOMAIN e.receipts = DOMAIN p.receipts \cup txs
    BY <1>9, <1>10
  <2>2. CASE n = d.latest + 1
    BY <2>1, <2>2, <1>3, <1>16
  <2>3. CASE n # d.latest + 1
    <3>1. n \in (ForkBlockNumber + 1)..p.latest /\ n \in DOMAIN p.byNumber
      BY <2>3, <1>1, <1>5, <1>13 DEF MapsOK, NumbersOK
    <3>2. e.byNumber[n] = p.byNumber[n]
      BY <3>1, <1>9, <1>10 DEF SameBlocks
    <3> QED
      BY <2>1, <3>1, <3>2, <1>5 DEF DataOK, ReceiptsKept
  <2> QED
    BY <2>2, <2>3
<1> QED
  BY <1>11, <1>13, <1>15, <1>16, <1>17 DEF DataOK, block

(* A revert leaves nothing of the blocks it drops, and all of the others.   *)
LEMMA LaterDeleted ==
  ASSUME NEW d, DataOK(d), NEW block, block.number \in ForkBlockNumber..d.latest
  PROVE  LET e == DeleteLaterBlocks(d, block)
         IN  /\ DataOK(e) /\ e.latest = block.number
             /\ \A n \in 0..block.number : TxsOf(e, n) = TxsOf(d, n)
             /\ \A n \in (ForkBlockNumber + 1)..block.number : e.byNumber[n] = d.byNumber[n]
<1> DEFINE last == block.number
           later == {k \in DOMAIN d.byNumber : k > last}
           gone == {d.byNumber[n] : n \in later}
           txs == UNION {b.txs : b \in gone}
           w == WithoutBlocks(d, gone)
           e == DeleteLaterBlocks(d, block)
<1>1. /\ last \in Nat /\ ForkBlockNumber \in Nat /\ d.latest \in Nat /\ ForkBlockNumber <= last
      /\ last <= d.latest /\ NumbersOK(d) /\ ShapeOK(d)
  BY ForkAssumption DEF DataOK, MapsOK, NumbersOK
<1>2. {b.number : b \in gone} = later
  <2>1. \A n \in later : d.byNumber[n].number = n
    BY <1>1 DEF NumbersOK
  <2> QED
    BY <2>1
<1>3. e = [w EXCEPT !.latest = last]
  BY DEF DeleteLaterBlocks
<1> HIDE DEF e, last, gone
<1>4. /\ ShapeOK(w) /\ w.byNumber = Without(d.byNumber, {b.number : b \in gone}) /\ w.byHash = d.byHash \ gone
      /\ w.totalDifficulty = Without(d.totalDifficulty, gone) /\ w.transactions = d.transactions \ txs
      /\ w.receipts = Without(d.receipts, txs) /\ w.byTx = Without(d.byTx, txs)
  BY <1>1 DEF ShapeOK, WithoutBlocks
<1> HIDE DEF w
<1>5. /\ ShapeOK(e) /\ e.latest = last /\ e.byNumber = w.byNumber /\ e.byHash = w.byHash
      /\ e.totalDifficulty = w.totalDifficulty /\ e.transactions = w.transactions /\ e.receipts = w.receipts
      /\ e.byTx = w.byTx
  BY <1>3, <1>4 DEF ShapeOK
<1>6. /\ DOMAIN e.byNumber = DOMAIN d.byNumber \ later
      /\ \A n \in DOMAIN e.byNumber : e.byNumber[n] = d.byNumber[n]
  BY <1>2, <1>4, <1>5 DEF Without
<1>7. \A n \in DOMAIN d.byNumber : n <= last <=> n \in DOMAIN e.byNumber
  BY <1>1, <1>6 DEF NumbersOK
<1>8. (ForkBlockNumber + 1)..last \subseteq DOMAIN e.byNumber
  BY <1>1, <1>7 DEF NumbersOK
<1>9. NumbersOK(e)
  <2>1. DOMAIN e.byNumber \subseteq 0..last
    BY <1>1, <1>6, <1>7 DEF NumbersOK
  <2>2. \A n \in DOMAIN e.byNumber :
          /\ e.byNumber[n].number = n
          /\ e.byNumber[n].txs \subseteq Txs
          /\ IsRemote(n) => e.byNumber[n] = RemoteBlock(n)
    BY <1>1, <1>6 DEF NumbersOK
  <2> QED
    BY <1>1, <1>5, <1>8, <2>1, <2>2 DEF NumbersOK
<1>10. \A n \in 0..last : TxsOf(e, n) = TxsOf(d, n)
  <2> SUFFICES ASSUME NEW n \in 0..last PROVE TxsOf(e, n) = TxsOf(d, n)
    OBVIOUS
  <2>1. CASE IsRemote(n)
    BY <2>1 DEF TxsOf
  <2>2. CASE ~IsRemote(n)
    <3>1. n \in DOMAIN e.byNumber
      BY <2>2, <1>1, <1>8 DEF IsRemote
    <3> QED
      BY <2>2, <3>1, <1>6 DEF TxsOf
  <2> QED
    BY <2>1, <2>2
<1>11. \A n \in DOMAIN d.byNumber : d.byNumber[n] \in gone <=> n \notin DOMAIN e.byNumber
  <2>1. \A n \in DOMAIN d.byNumber : d.byNumber[n].number = n
    BY <1>1 DEF NumbersOK
  <2> QED
    BY <2>1, <1>6 DEF gone
<1>12. BlocksOK(e)
  <2>1. BlocksOK(d)
    BY DEF DataOK, MapsOK
  <2>2. e.byHash = {e.byNumber[n] : n \in DOMAIN e.byNumber}
    <3>1. e.byHash = d.byHash \ gone
      BY <1>4, <1>5
    <3> QED
      BY <2>1, <3>1, <1>6, <1>11 DEF BlocksOK
  <2>3. e.totalDifficulty = [x \in d.byHash \ gone |-> d.totalDifficulty[x]]
    BY <2>1, <1>4, <1>5 DEF BlocksOK, Without
  <2> QED
    BY <2>1, <2>2, <2>3, <1>4, <1>5 DEF BlocksOK
<1>13. MinedOnce(e)
  BY <1>1, <1>5, <1>10 DEF DataOK, MapsOK, MinedOnce
<1>14. \A n \in 0..d.latest : \A tx \in TxsOf(d, n) : tx \in txs <=> n > last
  <2> SUFFICES ASSUME NEW n \in 0..d.latest, NEW tx \in TxsOf(d, n) PROVE tx \in txs <=> n > last
    OBVIOUS
  <2>1. CASE n > last
    <3>1. n \in DOMAIN d.byNumber
      BY <2>1, <1>1 DEF NumbersOK
    <3>2. d.byNumber[n] \in gone
      BY <2>1, <3>1 DEF gone
    <3> QED
      BY <2>1, <3>1, <3>2, <1>1, TxsOfKnown
  <2>2. CASE ~(n > last)
    <3> SUFFICES ASSUME tx \in txs PROVE FALSE
      BY <2>2
    <3>1. PICK k \in later : tx \in d.byNumber[k].txs
      BY DEF gone
    <3>2. k \in 0..d.latest /\ tx \in TxsOf(d, k) /\ k # n
      BY <2>2, <3>1, <1>1, TxsOfKnown DEF NumbersOK
    <3> QED
      BY <3>2 DEF DataOK, MapsOK, MinedOnce
  <2> QED
    BY <2>1, <2>2
<1>15. \A n \in DOMAIN d.byNumber : n \in 0..d.latest /\ TxsOf(d, n) = d.byNumber[n].txs
  BY <1>1, TxsOfKnown DEF NumbersOK
<1> HIDE DEF txs
<1>16. TransactionsOK(e)
  <2>1. TransactionsOK(d)
    BY DEF DataOK, MapsOK
  <2>2. /\ DOMAIN e.byTx = DOMAIN d.byTx \ txs /\ e.transactions = d.transactions \ txs
        /\ \A tx \in DOMAIN e.byTx : e.byTx[tx] = d.byTx[tx]
    BY <1>4, <1>5 DEF Without
  <2>3. ASSUME NEW n \in DOMAIN e.byNumber, NEW tx \in e.byNumber[n].txs
        PROVE  tx \in e.transactions /\ tx \in DOMAIN e.byTx /\ e.byTx[tx] = e.byNumber[n]
    <3>1. n \in DOMAIN d.byNumber /\ e.byNumber[n] = d.byNumber[n] /\ n <= last
      BY <1>6, <1>7
    <3>2. tx \notin txs
      BY <3>1, <1>1, <1>14, <1>15
    <3> QED
      BY <2>1, <2>2, <3>1, <3>2 DEF TransactionsOK
  <2>4. ASSUME NEW tx \in DOMAIN e.byTx PROVE \E n \in DOMAIN e.byNumber : tx \in e.byNumber[n].txs
    <3>1. PICK n \in DOMAIN d.byNumber : tx \in d.byNumber[n].txs
      BY <2>1, <2>2 DEF TransactionsOK
    <3>2. n <= last
      BY <2>2, <3>1, <1>1, <1>14, <1>15
    <3> QED
      BY <3>1, <3>2, <1>6, <1>7
  <2>5. ASSUME NEW tx \in e.transactions PROVE \E n \in 0..e.latest : tx \in TxsOf(e, n)
    <3>1. PICK n \in 0..d.latest : tx \in TxsOf(d, n)
      BY <2>1, <2>2 DEF TransactionsOK
    <3>2. n \in 0..last
      BY <2>2, <3>1, <1>1, <1>14
    <3> QED
      BY <3>1, <3>2, <1>5, <1>10
  <2> QED
    BY <2>3, <2>4, <2>5 DEF TransactionsOK
<1>17. DOMAIN e.receipts = DOMAIN d.receipts \ txs /\ \A tx \in DOMAIN e.receipts : e.receipts[tx] = d.receipts[tx]
  BY <1>4, <1>5 DEF Without
<1>18. ReceiptsFound(e)
  <2> SUFFICES ASSUME NEW tx \in DOMAIN e.receipts
               PROVE  \E n \in 0..e.latest : tx \in TxsOf(e, n) /\ e.receipts[tx] = [tx |-> tx, number |-> n]
    BY DEF ReceiptsFound
  <2>1. PICK n \in 0..d.latest : tx \in TxsOf(d, n) /\ d.receipts[tx] = [tx |-> tx, number |-> n]
    BY <1>17 DEF DataOK, MapsOK, ReceiptsFound
  <2>2. n \in 0..last
    BY <2>1, <1>1, <1>14, <1>17
  <2> QED
    BY <2>1, <2>2, <1>5, <1>10, <1>17
<1>19. ReceiptsKept(e, e.latest)
  <2> SUFFICES ASSUME NEW n \in (ForkBlockNumber + 1)..last, NEW tx \in e.byNumber[n].txs
               PROVE  tx \in DOMAIN e.receipts
    BY <1>5 DEF ReceiptsKept
  <2>1. n \in (ForkBlockNumber + 1)..d.latest /\ n \in DOMAIN d.byNumber /\ e.byNumber[n] = d.byNumber[n] /\ n <= last
    BY <1>1, <1>6, <1>8
  <2>2. tx \notin txs
    BY <2>1, <1>1, <1>14, <1>15
  <2> QED
    BY <2>1, <2>2, <1>17 DEF DataOK, ReceiptsKept
<1>20. DataOK(e)
  BY <1>5, <1>9, <1>12, <1>13, <1>16, <1>18, <1>19 DEF DataOK, MapsOK
<1>21. /\ DataOK(e) /\ e.latest = last
       /\ \A n \in 0..last : TxsOf(e, n) = TxsOf(d, n)
       /\ \A n \in (ForkBlockNumber + 1)..last : e.byNumber[n] = d.byNumber[n]
  BY <1>5, <1>6, <1>8, <1>10, <1>20
<1> QED
  BY <1>21 DEF e, last

------------------------------------------------------------------------------
(* The state manager                                                       *)

(* What the state manager keeps: a value for each root, and roots it gave. *)
StoreOK(m) ==
  /\ m \in [state : {m.state}, stateRoot : {m.stateRoot}, stateRootToState : {m.stateRootToState},
            checkpoints : {m.checkpoints}, contextBlockNumber : {m.contextBlockNumber},
            contextChanged : {m.contextChanged}]
  /\ ForkBlockNumber \in DOMAIN m.stateRootToState /\ DOMAIN m.stateRootToState \subseteq Nat
  /\ m.stateRootToState[ForkBlockNumber] = GenesisState
  /\ \A root \in DOMAIN m.stateRootToState : root < ForkBlockNumber => m.stateRootToState[root] = NoState
  /\ \E root \in DOMAIN m.stateRootToState : \A other \in DOMAIN m.stateRootToState : other <= root
  /\ m.stateRoot \in DOMAIN m.stateRootToState
  /\ m.checkpoints \in Seq(DOMAIN m.stateRootToState)

(* A root stands for the same state ever after.                             *)
KeepsRoots(m, w) ==
  \A root \in DOMAIN m.stateRootToState :
    root \in DOMAIN w.stateRootToState /\ w.stateRootToState[root] = m.stateRootToState[root]

SameContext(m, w) ==
  w.contextBlockNumber = m.contextBlockNumber /\ w.contextChanged = m.contextChanged

LEMMA StateSet ==
  ASSUME NEW m, StoreOK(m), NEW state
  PROVE  LET w == [m EXCEPT !.state = state]
         IN  /\ StoreOK(w) /\ w.stateRootToState = m.stateRootToState
             /\ w.checkpoints = m.checkpoints /\ SameContext(m, w) /\ w.state = state
<1> DEFINE w == [m EXCEPT !.state = state]
<1>1. /\ w \in [state : {w.state}, stateRoot : {w.stateRoot}, stateRootToState : {w.stateRootToState},
            checkpoints : {w.checkpoints}, contextBlockNumber : {w.contextBlockNumber},
            contextChanged : {w.contextChanged}]
      /\ w.stateRootToState = m.stateRootToState /\ w.stateRoot = m.stateRoot
      /\ w.checkpoints = m.checkpoints /\ SameContext(m, w) /\ w.state = state
  BY DEF StoreOK, SameContext
<1> HIDE DEF w
<1>2. StoreOK(w)
  BY <1>1 DEF StoreOK
<1> QED
  BY <1>1, <1>2 DEF w

LEMMA FreshRootIsFresh ==
  ASSUME NEW m, StoreOK(m)
  PROVE  /\ FreshRoot(m) \in Nat
         /\ \A root \in DOMAIN m.stateRootToState : root < FreshRoot(m)
<1> DEFINE R == DOMAIN m.stateRootToState
<1>1. R \cup {InitialStateRoot} = R /\ R \subseteq Nat
  BY DEF StoreOK, InitialStateRoot
<1>2. PICK root \in R : \A other \in R : other <= root
  BY DEF StoreOK
<1> HIDE DEF R
<1>3. \A other \in R : root >= other
  BY <1>1, <1>2
<1>4. Max(R) \in R /\ \A other \in R : Max(R) >= other
  BY <1>3 DEF Max
<1>5. FreshRoot(m) = Max(R) + 1
  BY <1>1 DEF FreshRoot, R
<1>6. Max(R) \in Nat /\ \A other \in R : other \in Nat
  BY <1>1, <1>4
<1>7. FreshRoot(m) \in Nat /\ \A other \in R : other < FreshRoot(m)
  BY <1>4, <1>5, <1>6
<1> QED
  BY <1>7 DEF R

LEMMA GetStateRootKeeps ==
  ASSUME NEW m, StoreOK(m)
  PROVE  LET w == GetStateRoot(m)
         IN  /\ StoreOK(w) /\ KeepsRoots(m, w) /\ SameContext(m, w)
             /\ w.state = m.state /\ w.checkpoints = m.checkpoints
             /\ w.stateRootToState[w.stateRoot] = m.state
<1> DEFINE w == GetStateRoot(m)
           r == FreshRoot(m)
<1>1. CASE m.stateRootToState[m.stateRoot] = m.state
  BY <1>1 DEF GetStateRoot, KeepsRoots, SameContext
<1>2. CASE m.stateRootToState[m.stateRoot] # m.state
  <2>1. r \in Nat /\ \A root \in DOMAIN m.stateRootToState : root < r
    BY FreshRootIsFresh
  <2>2. w = [m EXCEPT !.stateRoot = r, !.stateRootToState = With(@, r, m.state)]
    BY <1>2 DEF GetStateRoot
  <2> HIDE DEF r, w
  <2>3. /\ w \in [state : {w.state}, stateRoot : {w.stateRoot}, stateRootToState : {w.stateRootToState},
            checkpoints : {w.checkpoints}, contextBlockNumber : {w.contextBlockNumber},
            contextChanged : {w.contextChanged}]
        /\ w.stateRootToState = With(m.stateRootToState, r, m.state) /\ w.stateRoot = r
        /\ w.checkpoints = m.checkpoints /\ SameContext(m, w) /\ w.state = m.state
    BY <2>2 DEF StoreOK, SameContext
  <2>4. DOMAIN w.stateRootToState = DOMAIN m.stateRootToState \cup {r} /\ w.stateRootToState[r] = m.state
    BY <2>3 DEF With
  <2>5. \A root \in DOMAIN m.stateRootToState : w.stateRootToState[root] = m.stateRootToState[root] /\ root \in Nat
    BY <2>1, <2>3 DEF With, StoreOK
  <2>6. ForkBlockNumber \in DOMAIN m.stateRootToState /\ ForkBlockNumber \in Nat
    BY ForkAssumption DEF StoreOK
  <2>7. \A root \in DOMAIN w.stateRootToState : root < ForkBlockNumber => w.stateRootToState[root] = NoState
    BY <2>1, <2>4, <2>5, <2>6 DEF StoreOK
  <2>8. \A other \in DOMAIN w.stateRootToState : other <= r
    BY <2>1, <2>4, <2>5
  <2>9. w.checkpoints \in Seq(DOMAIN w.stateRootToState)
    BY <2>3, <2>4 DEF StoreOK
  <2>10. StoreOK(w)
    BY <2>1, <2>3, <2>4, <2>5, <2>6, <2>7, <2>8, <2>9 DEF StoreOK
  <2> QED
    BY <2>3, <2>4, <2>5, <2>10 DEF KeepsRoots, w
<1> QED
  BY <1>1, <1>2

LEMMA SetStateRootKeeps ==
  ASSUME NEW m, StoreOK(m), NEW root \in DOMAIN m.stateRootToState
  PROVE  LET w == SetStateRoot(m, root)
         IN  /\ StoreOK(w) /\ w.stateRootToState = m.stateRootToState
             /\ w.checkpoints = m.checkpoints /\ SameContext(m, w)
             /\ w.state = m.stateRootToState[root] /\ w.stateRoot = root
<1> DEFINE w == SetStateRoot(m, root)
<1>1. /\ w \in [state : {w.state}, stateRoot : {w.stateRoot}, stateRootToState : {w.stateRootToState},
            checkpoints : {w.checkpoints}, contextBlockNumber : {w.contextBlockNumber},
            contextChanged : {w.contextChanged}]
      /\ w.stateRootToState = m.stateRootToState /\ w.stateRoot = root
      /\ w.checkpoints = m.checkpoints /\ SameContext(m, w) /\ w.state = m.stateRootToState[root]
  BY DEF StoreOK, SameContext, SetStateRoot
<1> HIDE DEF w
<1>2. StoreOK(w)
  BY <1>1 DEF StoreOK
<1> QED
  BY <1>1, <1>2 DEF w

LEMMA CheckpointsSet ==
  ASSUME NEW m, StoreOK(m), NEW c \in Seq(DOMAIN m.stateRootToState)
  PROVE  LET w == [m EXCEPT !.checkpoints = c]
         IN  /\ StoreOK(w) /\ w.stateRootToState = m.stateRootToState /\ w.state = m.state
             /\ w.checkpoints = c /\ SameContext(m, w) /\ w.stateRoot = m.stateRoot
<1> DEFINE w == [m EXCEPT !.checkpoints = c]
<1>1. /\ w \in [state : {w.state}, stateRoot : {w.stateRoot}, stateRootToState : {w.stateRootToState},
            checkpoints : {w.checkpoints}, contextBlockNumber : {w.contextBlockNumber},
            contextChanged : {w.contextChanged}]
      /\ w.stateRootToState = m.stateRootToState /\ w.stateRoot = m.stateRoot
      /\ w.checkpoints = c /\ SameContext(m, w) /\ w.state = m.state
  BY DEF StoreOK, SameContext
<1> HIDE DEF w
<1>2. StoreOK(w)
  BY <1>1 DEF StoreOK
<1> QED
  BY <1>1, <1>2 DEF w

LEMMA CheckpointKeeps ==
  ASSUME NEW m, StoreOK(m)
  PROVE  LET w == Checkpoint(m)
         IN  /\ StoreOK(w) /\ KeepsRoots(m, w) /\ SameContext(m, w) /\ w.state = m.state
             /\ Len(w.checkpoints) = Len(m.checkpoints) + 1
             /\ \A i \in 1..Len(m.checkpoints) : w.checkpoints[i] = m.checkpoints[i]
             /\ w.stateRootToState[w.checkpoints[Len(m.checkpoints) + 1]] = m.state
             /\ w.stateRootToState = GetStateRoot(m).stateRootToState
<1> DEFINE g == GetStateRoot(m)
           c == Append(g.checkpoints, g.stateRoot)
           w == [g EXCEPT !.checkpoints = c]
<1>1. Checkpoint(m) = w
  BY DEF Checkpoint
<1>2. /\ StoreOK(g) /\ KeepsRoots(m, g) /\ SameContext(m, g)
      /\ g.state = m.state /\ g.checkpoints = m.checkpoints
      /\ g.stateRootToState[g.stateRoot] = m.state
  BY GetStateRootKeeps
<1> HIDE DEF g
<1>3. g.checkpoints \in Seq(DOMAIN g.stateRootToState) /\ g.stateRoot \in DOMAIN g.stateRootToState
  BY <1>2 DEF StoreOK
<1>4. c \in Seq(DOMAIN g.stateRootToState) /\ Len(c) = Len(g.checkpoints) + 1 /\ c[Len(c)] = g.stateRoot
      /\ \A i \in 1..Len(g.checkpoints) : c[i] = g.checkpoints[i]
  <2> DEFINE S == DOMAIN g.stateRootToState
  <2>1. g.checkpoints \in Seq(S) /\ g.stateRoot \in S
    BY <1>3
  <2> HIDE DEF S
  <2>2. c \in Seq(S) /\ Len(c) = Len(g.checkpoints) + 1 /\ c[Len(c)] = g.stateRoot
        /\ \A i \in 1..Len(g.checkpoints) : c[i] = g.checkpoints[i]
    BY <2>1, AppendProperties
  <2> QED
    BY <2>2 DEF S
<1> HIDE DEF c
<1>5. /\ StoreOK(w) /\ w.stateRootToState = g.stateRootToState /\ w.state = g.state
      /\ w.checkpoints = c /\ SameContext(g, w)
  BY <1>2, <1>4, CheckpointsSet
<1>6. w.stateRootToState = GetStateRoot(m).stateRootToState
  BY <1>5 DEF g
<1> HIDE DEF w
<1> QED
  BY <1>1, <1>2, <1>4, <1>5, <1>6 DEF KeepsRoots, SameContext

LEMMA FrontKeeps ==
  ASSUME NEW S, NEW seq \in Seq(S), Len(seq) > 0
  PROVE  /\ Front(seq) \in Seq(S) /\ Len(Front(seq)) = Len(seq) - 1
         /\ \A i \in 1..Len(seq) - 1 : Front(seq)[i] = seq[i]
<1>1. Len(seq) \in Nat /\ Len(seq) - 1 \in Nat /\ \A i \in 1..Len(seq) : seq[i] \in S
  BY ElementOfSeq
<1> DEFINE k == Len(seq) - 1
<1>2. 1 \in Int /\ k \in Int /\ k >= 0 /\ \A i \in 1..k : seq[i] \in S
  BY <1>1
<1> HIDE DEF k
<1>3. /\ SubSeq(seq, 1, k) \in Seq(S)
      /\ Len(SubSeq(seq, 1, k)) = IF 1 <= k THEN k - 1 + 1 ELSE 0
      /\ \A i \in 1..(k - 1 + 1) : SubSeq(seq, 1, k)[i] = seq[1 + i - 1]
  BY <1>2, SubSeqProperties
<1>4. /\ Len(SubSeq(seq, 1, k)) = k
      /\ \A i \in 1..k : SubSeq(seq, 1, k)[i] = seq[i]
  BY <1>2, <1>3
<1>5. Front(seq) = SubSeq(seq, 1, k)
  BY DEF Front, k
<1> QED
  BY <1>3, <1>4, <1>5 DEF k

LEMMA CommitKeeps ==
  ASSUME NEW m, StoreOK(m), Len(m.checkpoints) > 0
  PROVE  LET w == Commit(m)
         IN  /\ StoreOK(w) /\ w.stateRootToState = m.stateRootToState /\ SameContext(m, w)
             /\ w.state = m.state /\ Len(w.checkpoints) = Len(m.checkpoints) - 1
             /\ \A i \in 1..Len(m.checkpoints) - 1 : w.checkpoints[i] = m.checkpoints[i]
<1> DEFINE c == Front(m.checkpoints)
<1>1. m.checkpoints \in Seq(DOMAIN m.stateRootToState)
  BY DEF StoreOK
<1>2. c \in Seq(DOMAIN m.stateRootToState) /\ Len(c) = Len(m.checkpoints) - 1
      /\ \A i \in 1..Len(m.checkpoints) - 1 : c[i] = m.checkpoints[i]
  BY <1>1, FrontKeeps
<1> HIDE DEF c
<1> DEFINE w == [m EXCEPT !.checkpoints = c]
<1>3. Commit(m) = w
  BY DEF Commit, c
<1>4. /\ StoreOK(w) /\ w.stateRootToState = m.stateRootToState /\ w.state = m.state
      /\ w.checkpoints = c /\ SameContext(m, w)
  BY <1>2, CheckpointsSet
<1> HIDE DEF w
<1> QED
  BY <1>2, <1>3, <1>4

LEMMA RevertKeeps ==
  ASSUME NEW m, StoreOK(m), Len(m.checkpoints) > 0
  PROVE  LET w == Revert(m)
         IN  /\ StoreOK(w) /\ w.stateRootToState = m.stateRootToState /\ SameContext(m, w)
             /\ w.state = m.stateRootToState[m.checkpoints[Len(m.checkpoints)]]
             /\ Len(w.checkpoints) = Len(m.checkpoints) - 1
             /\ \A i \in 1..Len(m.checkpoints) - 1 : w.checkpoints[i] = m.checkpoints[i]
<1> DEFINE c == Commit(m)
           r == m.checkpoints[Len(m.checkpoints)]
<1>1. r \in DOMAIN m.stateRootToState
  BY DEF StoreOK
<1>2. /\ StoreOK(c) /\ c.stateRootToState = m.stateRootToState /\ SameContext(m, c)
      /\ c.state = m.state /\ Len(c.checkpoints) = Len(m.checkpoints) - 1
      /\ \A i \in 1..Len(m.checkpoints) - 1 : c.checkpoints[i] = m.checkpoints[i]
  BY CommitKeeps
<1> HIDE DEF c
<1> DEFINE w == SetStateRoot(c, r)
<1>3. Revert(m) = w
  BY DEF Revert, c
<1> HIDE DEF r
<1>4. /\ StoreOK(w) /\ w.stateRootToState = c.stateRootToState
      /\ w.checkpoints = c.checkpoints /\ SameContext(c, w)
      /\ w.state = c.stateRootToState[r]
  BY <1>1, <1>2, SetStateRootKeeps
<1> HIDE DEF w
<1> QED
  BY <1>2, <1>3, <1>4 DEF SameContext, r

LEMMA PastContext ==
  ASSUME NEW m, StoreOK(m), NEW n \in Nat, n < ForkBlockNumber
  PROVE  LET w == SetBlockContext(m, n, n)
         IN  /\ StoreOK(w) /\ KeepsRoots(m, w) /\ w.checkpoints = m.checkpoints
             /\ w.state = NoState /\ w.contextBlockNumber = n /\ w.contextChanged
<1> DEFINE w == [m EXCEPT !.contextChanged = TRUE, !.state = NoState, !.stateRoot = n,
                          !.stateRootToState = With(@, n, NoState),
                          !.contextBlockNumber = n]
<1>0. ForkBlockNumber \in Nat
  BY ForkAssumption
<1>1. SetBlockContext(m, n, n) = w
  BY <1>0 DEF SetBlockContext
<1>2. /\ w \in [state : {w.state}, stateRoot : {w.stateRoot}, stateRootToState : {w.stateRootToState},
            checkpoints : {w.checkpoints}, contextBlockNumber : {w.contextBlockNumber},
            contextChanged : {w.contextChanged}]
      /\ w.stateRootToState = With(m.stateRootToState, n, NoState) /\ w.stateRoot = n
      /\ w.checkpoints = m.checkpoints /\ w.contextBlockNumber = n /\ w.contextChanged = TRUE /\ w.state = NoState
  BY DEF StoreOK
<1> HIDE DEF w
<1>3. DOMAIN w.stateRootToState = DOMAIN m.stateRootToState \cup {n} /\ w.stateRootToState[n] = NoState
  BY <1>2 DEF With
<1>4. KeepsRoots(m, w)
  BY <1>2 DEF With, StoreOK, KeepsRoots
<1>5. \E root \in DOMAIN w.stateRootToState : \A other \in DOMAIN w.stateRootToState : other <= root
  <2>1. PICK root \in DOMAIN m.stateRootToState : \A other \in DOMAIN m.stateRootToState : other <= root
    BY DEF StoreOK
  <2>2. root \in Nat /\ ForkBlockNumber <= root
    BY <2>1 DEF StoreOK
  <2>3. root \in DOMAIN w.stateRootToState /\ \A other \in DOMAIN w.stateRootToState : other <= root
    BY <2>1, <2>2, <1>0, <1>3
  <2> QED
    BY <2>3
<1>6. StoreOK(w)
  <2>1. ForkBlockNumber \in DOMAIN w.stateRootToState /\ DOMAIN w.stateRootToState \subseteq Nat
        /\ w.stateRootToState[ForkBlockNumber] = GenesisState
    BY <1>3, <1>4 DEF StoreOK, KeepsRoots
  <2>2. \A root \in DOMAIN w.stateRootToState : root < ForkBlockNumber => w.stateRootToState[root] = NoState
    BY <1>3, <1>4 DEF StoreOK, KeepsRoots
  <2>3. w.checkpoints \in Seq(DOMAIN w.stateRootToState)
    BY <1>2, <1>3 DEF StoreOK
  <2> QED
    BY <1>2, <1>3, <1>5, <2>1, <2>2, <2>3 DEF StoreOK
<1> QED
  BY <1>1, <1>2, <1>4, <1>6

LEMMA ContextRestored ==
  ASSUME NEW m, StoreOK(m), NEW root \in DOMAIN m.stateRootToState,
         m.contextChanged \/ m.contextBlockNumber = ForkBlockNumber
  PROVE  LET w == RestoreForkBlockContext(m, root)
         IN  /\ StoreOK(w) /\ w.stateRootToState = m.stateRootToState /\ w.checkpoints = m.checkpoints
             /\ w.state = m.stateRootToState[root]
             /\ w.contextBlockNumber = ForkBlockNumber /\ ~w.contextChanged
<1> DEFINE s == SetStateRoot(m, root)
           number == IF m.contextChanged THEN ForkBlockNumber ELSE s.contextBlockNumber
           w == [s EXCEPT !.contextChanged = FALSE, !.contextBlockNumber = number]
<1>1. RestoreForkBlockContext(m, root) = [s EXCEPT !.contextChanged = FALSE,
        !.contextBlockNumber = IF m.contextChanged THEN ForkBlockNumber ELSE @]
  BY DEF RestoreForkBlockContext
<1>2. /\ StoreOK(s) /\ s.stateRootToState = m.stateRootToState
      /\ s.checkpoints = m.checkpoints /\ SameContext(m, s)
      /\ s.state = m.stateRootToState[root]
  BY SetStateRootKeeps
<1> HIDE DEF s
<1>3. RestoreForkBlockContext(m, root) = w
  BY <1>1, <1>2 DEF StoreOK
<1>4. number = ForkBlockNumber
  BY <1>2 DEF SameContext
<1> HIDE DEF number
<1>5. /\ w \in [state : {w.state}, stateRoot : {w.stateRoot}, stateRootToState : {w.stateRootToState},
            checkpoints : {w.checkpoints}, contextBlockNumber : {w.contextBlockNumber},
            contextChanged : {w.contextChanged}]
      /\ w.stateRootToState = s.stateRootToState /\ w.stateRoot = s.stateRoot /\ w.state = s.state
      /\ w.checkpoints = s.checkpoints /\ w.contextBlockNumber = number /\ w.contextChanged = FALSE
  BY <1>2 DEF StoreOK
<1> HIDE DEF w
<1>6. StoreOK(w)
  BY <1>2, <1>5 DEF StoreOK
<1> QED
  BY <1>2, <1>3, <1>4, <1>5, <1>6

------------------------------------------------------------------------------
(* The two together, and what each request leaves                          *)

(* The state a block of this node led to.                                   *)
StateOf(m, d, n) ==
  IF n = ForkBlockNumber THEN GenesisState ELSE m.stateRootToState[d.byNumber[n].stateRoot]

Block == [number : Nat, stateRoot : Nat, txs : SUBSET Txs]

RootsOK(m, d) ==
  /\ \A n \in DOMAIN d.byNumber : d.byNumber[n] \in Block
  /\ \A n \in (ForkBlockNumber + 1)..d.latest : d.byNumber[n].stateRoot \in DOMAIN m.stateRootToState

(* Each snapshot is of a block that is still there, with its state, and     *)
(* they are in order.                                                       *)
SnapshotsOK(m, d, taken) ==
  /\ taken \in Seq([latestBlock : Block, stateRoot : Nat])
  /\ \A i \in 1..Len(taken) :
       /\ taken[i].latestBlock.number \in ForkBlockNumber..d.latest
       /\ taken[i].stateRoot \in DOMAIN m.stateRootToState
       /\ m.stateRootToState[taken[i].stateRoot] = StateOf(m, d, taken[i].latestBlock.number)
  /\ \A i, j \in 1..Len(taken) : i <= j => taken[i].latestBlock.number <= taken[j].latestBlock.number

(* What a request finds and leaves, whatever it does in between.            *)
BaseOK(m, d, taken) == StoreOK(m) /\ DataOK(d) /\ RootsOK(m, d) /\ SnapshotsOK(m, d, taken)

(* The blocks up to this one have the transactions and the states they had. *)
SameUpTo(m, d, w, e, k) ==
  /\ \A n \in 0..k : TxsOf(e, n) = TxsOf(d, n)
  /\ \A n \in ForkBlockNumber..k : StateOf(w, e, n) = StateOf(m, d, n)

SameBlocksUpTo(d, e, k) == \A n \in (ForkBlockNumber + 1)..k : e.byNumber[n] = d.byNumber[n]

LEMMA StatesKept ==
  ASSUME NEW m, NEW d, NEW w, NEW e, RootsOK(m, d), KeepsRoots(m, w), d.latest \in Nat,
         NEW k \in ForkBlockNumber..d.latest, SameBlocksUpTo(d, e, k)
  PROVE  \A n \in ForkBlockNumber..k : StateOf(w, e, n) = StateOf(m, d, n)
<1> SUFFICES ASSUME NEW n \in ForkBlockNumber..k PROVE StateOf(w, e, n) = StateOf(m, d, n)
  OBVIOUS
<1>1. CASE n = ForkBlockNumber
  BY <1>1 DEF StateOf
<1>2. CASE n # ForkBlockNumber
  <2>1. ForkBlockNumber \in Nat
    BY ForkAssumption
  <2>2. n \in (ForkBlockNumber + 1)..k /\ n \in (ForkBlockNumber + 1)..d.latest
    BY <1>2, <2>1
  <2> QED
    BY <1>2, <2>2 DEF StateOf, RootsOK, KeepsRoots, SameBlocksUpTo
<1> QED
  BY <1>1, <1>2

LEMMA SnapshotsKept ==
  ASSUME NEW m, NEW d, NEW w, NEW e, NEW taken, NEW left, NEW k \in Nat,
         SnapshotsOK(m, d, taken), KeepsRoots(m, w), SameUpTo(m, d, w, e, k),
         e.latest \in Nat, k <= e.latest,
         left \in Seq([latestBlock : Block, stateRoot : Nat]), Len(left) <= Len(taken),
         \A i \in 1..Len(left) : left[i] = taken[i] /\ taken[i].latestBlock.number <= k
  PROVE  SnapshotsOK(w, e, left)
<1>0. Len(left) \in Nat /\ Len(taken) \in Nat /\ ForkBlockNumber \in Nat
  BY ForkAssumption DEF SnapshotsOK
<1>1. ASSUME NEW i \in 1..Len(left)
      PROVE  /\ left[i].latestBlock.number \in ForkBlockNumber..e.latest
             /\ left[i].stateRoot \in DOMAIN w.stateRootToState
             /\ w.stateRootToState[left[i].stateRoot] = StateOf(w, e, left[i].latestBlock.number)
  <2>1. i \in 1..Len(taken) /\ left[i] = taken[i] /\ taken[i].latestBlock.number <= k
    BY <1>0
  <2>2. /\ taken[i].latestBlock.number \in ForkBlockNumber..d.latest
        /\ taken[i].stateRoot \in DOMAIN m.stateRootToState
        /\ m.stateRootToState[taken[i].stateRoot] = StateOf(m, d, taken[i].latestBlock.number)
    BY <2>1 DEF SnapshotsOK
  <2>3. taken[i].latestBlock.number \in ForkBlockNumber..k
    BY <1>0, <2>1, <2>2
  <2> QED
    BY <1>0, <2>1, <2>2, <2>3 DEF SameUpTo, KeepsRoots
<1>2. \A i, j \in 1..Len(left) : i <= j => left[i].latestBlock.number <= left[j].latestBlock.number
  <2> SUFFICES ASSUME NEW i \in 1..Len(left), NEW j \in 1..Len(left), i <= j
               PROVE  left[i].latestBlock.number <= left[j].latestBlock.number
    OBVIOUS
  <2>1. i \in 1..Len(taken) /\ j \in 1..Len(taken) /\ left[i] = taken[i] /\ left[j] = taken[j]
    BY <1>0
  <2> QED
    BY <2>1 DEF SnapshotsOK
<1> QED
  BY <1>1, <1>2 DEF SnapshotsOK

LEMMA RemoteIsBlock ==
  ASSUME NEW n \in 0..ForkBlockNumber
  PROVE  RemoteBlock(n) \in Block
BY RemoteTxsType DEF RemoteBlock, Block, RemoteRoot

(* Reads and writes of the state, and fetching, change no block.            *)
LEMMA BaseKept ==
  ASSUME NEW m, NEW d, NEW w, NEW e, NEW taken,
         BaseOK(m, d, taken), StoreOK(w), KeepsRoots(m, w), Fetched(d, e)
  PROVE  BaseOK(w, e, taken) /\ SameUpTo(m, d, w, e, d.latest) /\ e.latest = d.latest
<1>1. /\ d.latest \in Nat /\ e.latest = d.latest /\ ForkBlockNumber \in Nat /\ ForkBlockNumber <= d.latest
      /\ DOMAIN e.byNumber \subseteq Nat /\ DataOK(e) /\ NumbersOK(e) /\ NumbersOK(d)
  BY ForkAssumption DEF BaseOK, DataOK, MapsOK, NumbersOK, Fetched
<1>2. \A n \in (ForkBlockNumber + 1)..d.latest : e.byNumber[n] = d.byNumber[n]
  BY <1>1 DEF NumbersOK, Fetched
<1>3. SameUpTo(m, d, w, e, d.latest)
  <2>1. d.latest \in ForkBlockNumber..d.latest /\ RootsOK(m, d)
    BY <1>1 DEF BaseOK
  <2>2. \A n \in ForkBlockNumber..d.latest : StateOf(w, e, n) = StateOf(m, d, n)
    BY <1>1, <1>2, <2>1, StatesKept DEF SameBlocksUpTo
  <2> QED
    BY <2>2 DEF SameUpTo, Fetched
<1>4. RootsOK(w, e)
  <2>1. ASSUME NEW n \in DOMAIN e.byNumber PROVE e.byNumber[n] \in Block
    <3>1. CASE IsRemote(n)
      <4>1. n \in 0..ForkBlockNumber /\ e.byNumber[n] = RemoteBlock(n)
        BY <1>1, <3>1 DEF NumbersOK, IsRemote
      <4> QED
        BY <4>1, RemoteIsBlock
    <3>2. CASE ~IsRemote(n)
      <4>1. n \in (ForkBlockNumber + 1)..d.latest /\ n \in DOMAIN d.byNumber
        BY <1>1, <3>2 DEF NumbersOK, IsRemote
      <4> QED
        BY <4>1, <1>2 DEF BaseOK, RootsOK
    <3> QED
      BY <3>1, <3>2
  <2>2. ASSUME NEW n \in (ForkBlockNumber + 1)..e.latest
        PROVE  e.byNumber[n].stateRoot \in DOMAIN w.stateRootToState
    BY <1>1, <1>2 DEF BaseOK, RootsOK, KeepsRoots
  <2> QED
    BY <2>1, <2>2 DEF RootsOK
<1>5. SnapshotsOK(w, e, taken)
  <2>1. taken \in Seq([latestBlock : Block, stateRoot : Nat]) /\ Len(taken) \in Nat
    BY DEF BaseOK, SnapshotsOK
  <2>2. \A i \in 1..Len(taken) : taken[i] = taken[i] /\ taken[i].latestBlock.number <= d.latest
    BY <1>1 DEF BaseOK, SnapshotsOK
  <2>3. SnapshotsOK(m, d, taken) /\ e.latest \in Nat /\ d.latest <= e.latest /\ Len(taken) <= Len(taken)
    BY <1>1, <2>1 DEF BaseOK
  <2> QED
    BY <1>1, <1>3, <2>1, <2>2, <2>3, SnapshotsKept
<1> QED
  BY <1>1, <1>3, <1>4, <1>5 DEF BaseOK

LEMMA KeepsItsRoots ==
  ASSUME NEW m, NEW w, w.stateRootToState = m.stateRootToState
  PROVE  KeepsRoots(m, w)
BY DEF KeepsRoots

LEMMA KeepsAll ==
  ASSUME NEW m, NEW w, NEW x, KeepsRoots(m, w), KeepsRoots(w, x)
  PROVE  KeepsRoots(m, x)
BY DEF KeepsRoots
------------------------------------------------------------------------------
Home(m) == m.contextBlockNumber = ForkBlockNumber /\ ~m.contextChanged

(* The state of a query, as of block n; back is the root to go back to.     *)
InContext(m, d, n, state, back) ==
  IF back = Nothing THEN n = d.latest /\ state = StateOf(m, d, n) /\ Home(m)
  ELSE /\ n \in 0..(d.latest - 1)
       /\ back \in DOMAIN m.stateRootToState /\ m.stateRootToState[back] = StateOf(m, d, d.latest)
       /\ IF n < ForkBlockNumber
            THEN state = NoState /\ m.contextBlockNumber = n /\ m.contextChanged
            ELSE state = StateOf(m, d, n) /\ Home(m)

(* A query of the pending block goes back to the last snapshot.             *)
SnapshotTaken(latest) ==
  request.snapshot # Nothing =>
    /\ Len(snapshots) > 0 /\ request.snapshot = Len(snapshots)
    /\ snapshots[request.snapshot].latestBlock.number = latest

Rests ==
  /\ request = Idle /\ manager.checkpoints = <<>> /\ Home(manager)
  /\ manager.state = StateOf(manager, data, data.latest)

Mines ==
  /\ request \in [op : {"mine"}, snapshot : {request.snapshot}, txs : SUBSET Txs, depth : 0..2,
                  writes : {request.writes}]
  /\ \A n \in 0..data.latest : TxsOf(data, n) \cap request.txs = {}
  /\ SnapshotTaken(data.latest) /\ Home(manager)
  /\ Len(manager.checkpoints) = request.depth + 1
  /\ manager.stateRootToState[manager.checkpoints[1]] = StateOf(manager, data, data.latest)

Queries ==
  /\ request \in [op : {"query"}, snapshot : {request.snapshot}, number : {request.number},
                  stateRoot : {request.stateRoot}]
  /\ SnapshotTaken(data.latest - 1) /\ (request.snapshot # Nothing => request.stateRoot = Nothing)
  /\ manager.checkpoints = <<>>
  /\ InContext(manager, data, request.number, manager.state, request.stateRoot)

Calls ==
  /\ request \in [op : {"call"}, snapshot : {request.snapshot}, number : {request.number},
                  stateRoot : {request.stateRoot}, before : {request.before}, depth : 1..2,
                  writes : {request.writes}]
  /\ SnapshotTaken(data.latest - 1) /\ (request.snapshot # Nothing => request.stateRoot = Nothing)
  /\ Len(manager.checkpoints) = request.depth
  /\ request.before \in DOMAIN manager.stateRootToState
  /\ InContext(manager, data, request.number, manager.stateRootToState[request.before], request.stateRoot)

NodeInv ==
  /\ BaseOK(manager, data, snapshots)
  /\ Rests \/ Mines \/ Queries \/ Calls

(* What clients can see of the blocks does not change.                      *)
HistoryKept ==
  VisibleBlock' = VisibleBlock /\ SameUpTo(manager, data, manager', data', VisibleBlock)

LEMMA RequestKinds ==
  ASSUME NodeInv
  PROVE  /\ request = Idle => Rests
         /\ request.op = "mine" => Mines
         /\ request.op = "query" => Queries
         /\ request.op = "call" => Calls
         /\ request.op \in {"mine", "query", "call"} => request # Idle
<1>1. Rests => request.op = "none"
  BY DEF Rests, Idle
<1>2. Mines => request.op = "mine"
  BY DEF Mines
<1>3. Queries => request.op = "query"
  BY DEF Queries
<1>4. Calls => request.op = "call"
  BY DEF Calls
<1>5. request = Idle => request.op = "none"
  BY DEF Idle
<1> QED
  BY <1>1, <1>2, <1>3, <1>4, <1>5 DEF NodeInv

------------------------------------------------------------------------------
(* Going back                                                              *)

LEMMA BaseFacts ==
  ASSUME BaseOK(manager, data, snapshots)
  PROVE  /\ StoreOK(manager) /\ DataOK(data) /\ RootsOK(manager, data) /\ SnapshotsOK(manager, data, snapshots)
         /\ data.latest \in Nat /\ ForkBlockNumber \in Nat /\ ForkBlockNumber <= data.latest
         /\ NumbersOK(data) /\ Len(snapshots) \in Nat
BY ForkAssumption DEF BaseOK, DataOK, MapsOK, NumbersOK, SnapshotsOK

(* Going back to a snapshot: no later block is left, and the state is the   *)
(* one of its block.                                                        *)
LEMMA Reverted ==
  ASSUME BaseOK(manager, data, snapshots), NEW i \in 1..Len(snapshots), NEW m,
         StoreOK(m), KeepsRoots(manager, m), m.checkpoints = <<>>, Home(m),
         RevertedToSnapshot(i, m), request' = Idle
  PROVE  /\ NodeInv'
         /\ VisibleBlock' = snapshots[i].latestBlock.number
         /\ snapshots[i].latestBlock.number \in ForkBlockNumber..data.latest
         /\ SameUpTo(manager, data, manager', data', snapshots[i].latestBlock.number)
<1> DEFINE b == snapshots[i].latestBlock
           k == b.number
           r == snapshots[i].stateRoot
<1>1. /\ StoreOK(manager) /\ DataOK(data) /\ RootsOK(manager, data) /\ SnapshotsOK(manager, data, snapshots)
      /\ data.latest \in Nat /\ ForkBlockNumber \in Nat /\ NumbersOK(data) /\ Len(snapshots) \in Nat
  BY BaseFacts
<1>2. /\ k \in ForkBlockNumber..data.latest /\ r \in DOMAIN manager.stateRootToState
      /\ manager.stateRootToState[r] = StateOf(manager, data, k)
  BY <1>1 DEF SnapshotsOK
<1>3. /\ data' = DeleteLaterBlocks(data, b) /\ manager' = SetStateRoot(m, r)
      /\ snapshots' = SubSeq(snapshots, 1, i - 1)
  BY DEF RevertedToSnapshot
<1>4. /\ DataOK(data') /\ data'.latest = k /\ (\A n \in 0..k : TxsOf(data', n) = TxsOf(data, n))
      /\ (\A n \in (ForkBlockNumber + 1)..k : data'.byNumber[n] = data.byNumber[n])
  BY <1>1, <1>2, <1>3, LaterDeleted
<1> HIDE DEF b, k, r
<1>5. /\ StoreOK(manager') /\ manager'.stateRootToState = m.stateRootToState /\ manager'.checkpoints = <<>>
      /\ manager'.state = m.stateRootToState[r] /\ Home(manager')
  <2>1. r \in DOMAIN m.stateRootToState
    BY <1>2 DEF KeepsRoots
  <2> QED
    BY <2>1, <1>3, SetStateRootKeeps DEF Home, SameContext
<1>6. KeepsRoots(manager, manager')
  BY <1>5 DEF KeepsRoots
<1>7. SameUpTo(manager, data, manager', data', k)
  <2>1. /\ RootsOK(manager, data) /\ KeepsRoots(manager, manager') /\ data.latest \in Nat
        /\ k \in ForkBlockNumber..data.latest
        /\ SameBlocksUpTo(data, data', k)
    BY <1>1, <1>2, <1>4, <1>6 DEF SameBlocksUpTo
  <2>2. \A n \in ForkBlockNumber..k : StateOf(manager', data', n) = StateOf(manager, data, n)
    BY <2>1, StatesKept
  <2> QED
    BY <2>2, <1>4 DEF SameUpTo
<1>8. k \in Nat /\ k <= data.latest /\ ForkBlockNumber <= k
  BY <1>1, <1>2
<1>9. RootsOK(manager', data')
  <2>1. NumbersOK(data')
    BY <1>4 DEF DataOK, MapsOK
  <2>2. ASSUME NEW n \in DOMAIN data'.byNumber PROVE data'.byNumber[n] \in Block
    <3>1. CASE IsRemote(n)
      <4>1. n \in 0..ForkBlockNumber /\ data'.byNumber[n] = RemoteBlock(n)
        BY <1>1, <2>1, <3>1 DEF NumbersOK, IsRemote
      <4> QED
        BY <4>1, RemoteIsBlock
    <3>2. CASE ~IsRemote(n)
      <4>1. n \in (ForkBlockNumber + 1)..k /\ n \in (ForkBlockNumber + 1)..data.latest
        BY <1>1, <1>4, <1>8, <2>1, <3>2 DEF NumbersOK, IsRemote
      <4> QED
        BY <4>1, <1>1, <1>4 DEF RootsOK, NumbersOK
    <3> QED
      BY <3>1, <3>2
  <2>3. ASSUME NEW n \in (ForkBlockNumber + 1)..data'.latest
        PROVE  data'.byNumber[n].stateRoot \in DOMAIN manager'.stateRootToState
    <3>1. n \in (ForkBlockNumber + 1)..k /\ n \in (ForkBlockNumber + 1)..data.latest
      BY <1>1, <1>4, <1>8
    <3> QED
      BY <3>1, <1>1, <1>4, <1>6 DEF RootsOK, KeepsRoots
  <2> QED
    BY <2>2, <2>3 DEF RootsOK
<1>10. SnapshotsOK(manager', data', snapshots')
  <2>1. snapshots \in Seq([latestBlock : Block, stateRoot : Nat]) /\ i - 1 \in Int /\ 1 \in Int
    BY <1>1 DEF SnapshotsOK
  <2>2. \A j \in 1..i - 1 : snapshots[j] \in [latestBlock : Block, stateRoot : Nat]
    <3>1. \A j \in 1..Len(snapshots) : snapshots[j] \in [latestBlock : Block, stateRoot : Nat]
      BY <2>1, ElementOfSeq
    <3>2. \A j \in 1..i - 1 : j \in 1..Len(snapshots)
      BY <1>1
    <3> QED
      BY <3>1, <3>2
  <2>3. /\ snapshots' \in Seq([latestBlock : Block, stateRoot : Nat])
        /\ Len(snapshots') = i - 1
        /\ \A j \in 1..i - 1 : snapshots'[j] = snapshots[j]
    <3> HIDE DEF b, k, r
    <3>1. /\ SubSeq(snapshots, 1, i - 1) \in Seq([latestBlock : Block, stateRoot : Nat])
          /\ Len(SubSeq(snapshots, 1, i - 1)) = (IF 1 <= i - 1 THEN i - 1 - 1 + 1 ELSE 0)
          /\ \A j \in 1..(i - 1 - 1 + 1) : SubSeq(snapshots, 1, i - 1)[j] = snapshots[1 + j - 1]
      BY <2>1, <2>2, SubSeqProperties
    <3>2. i \in Nat /\ i >= 1
      BY <1>1
    <3>3. /\ Len(SubSeq(snapshots, 1, i - 1)) = i - 1
          /\ \A j \in 1..(i - 1) : SubSeq(snapshots, 1, i - 1)[j] = snapshots[j]
      BY <3>1, <3>2
    <3> QED
      BY <3>1, <3>3, <1>3
  <2>4. \A j \in 1..Len(snapshots') : snapshots'[j] = snapshots[j] /\ snapshots[j].latestBlock.number <= k
    <3> SUFFICES ASSUME NEW j \in 1..i - 1 PROVE snapshots[j].latestBlock.number <= k
      BY <2>3
    <3>1. j \in 1..Len(snapshots) /\ j <= i
      BY <1>1
    <3> QED
      BY <3>1, <1>1 DEF SnapshotsOK, k, b
  <2>5. data'.latest \in Nat /\ k <= data'.latest /\ Len(snapshots') <= Len(snapshots)
    BY <1>1, <1>4, <1>8, <2>3
  <2> QED
    BY <1>1, <1>6, <1>7, <1>8, <2>3, <2>4, <2>5, SnapshotsKept
<1>11. BaseOK(manager', data', snapshots')
  BY <1>4, <1>5, <1>9, <1>10 DEF BaseOK
<1>12. manager'.state = StateOf(manager', data', data'.latest)
  <2>1. manager'.state = StateOf(manager, data, k)
    BY <1>2, <1>5, <1>6 DEF KeepsRoots
  <2>2. k \in ForkBlockNumber..k
    BY <1>1, <1>8
  <2> QED
    BY <2>1, <2>2, <1>4, <1>7 DEF SameUpTo
<1>13. Rests'
  BY <1>5, <1>12 DEF Rests
<1>14. NodeInv'
  BY <1>11, <1>13 DEF NodeInv
<1>15. VisibleBlock' = k
  BY <1>4 DEF VisibleBlock, Pending
<1> QED
  BY <1>2, <1>7, <1>14, <1>15 DEF k, b

(* The requests that only fetch.                                            *)
LEMMA Asked ==
  ASSUME NodeInv, NEW fetched, Fetched(data, fetched), Ask(fetched)
  PROVE  NodeInv' /\ HistoryKept
<1>1. /\ request = Idle /\ data' = fetched /\ manager' = manager /\ snapshots' = snapshots /\ request' = request
      /\ Rests /\ BaseOK(manager, data, snapshots)
  BY RequestKinds DEF Ask, NodeInv
<1>2. KeepsRoots(manager, manager') /\ StoreOK(manager')
  BY <1>1, BaseFacts DEF KeepsRoots
<1>3. /\ BaseOK(manager', data', snapshots') /\ SameUpTo(manager, data, manager', data', data.latest)
      /\ data'.latest = data.latest
  BY <1>1, <1>2, BaseKept
<1>4. data.latest \in ForkBlockNumber..data.latest
  BY <1>1, BaseFacts
<1>5. Rests'
  BY <1>1, <1>3, <1>4 DEF Rests, SameUpTo
<1>6. VisibleBlock = data.latest /\ VisibleBlock' = data.latest
  BY <1>1, <1>3 DEF VisibleBlock, Pending
<1> QED
  BY <1>3, <1>5, <1>6 DEF NodeInv, HistoryKept

(* Only the state manager is busy.                                          *)
LEMMA OnlyManager ==
  ASSUME BaseOK(manager, data, snapshots), StoreOK(manager'), KeepsRoots(manager, manager'),
         data' = data, snapshots' = snapshots
  PROVE  /\ BaseOK(manager', data', snapshots')
         /\ SameUpTo(manager, data, manager', data', data.latest)
         /\ \A n \in ForkBlockNumber..data.latest : StateOf(manager', data', n) = StateOf(manager, data, n)
<1>1. Fetched(data, data')
  BY BaseFacts, FetchedNothing
<1> QED
  BY <1>1, BaseKept DEF SameUpTo

LEMMA UpToVisible ==
  ASSUME BaseOK(manager, data, snapshots), SameUpTo(manager, data, manager', data', data.latest),
         NEW k \in ForkBlockNumber..data.latest
  PROVE  SameUpTo(manager, data, manager', data', k)
<1>1. k \in Nat /\ data.latest \in Nat /\ ForkBlockNumber \in Nat /\ k <= data.latest
  BY BaseFacts
<1> QED
  BY <1>1 DEF SameUpTo

LEMMA Resting ==
  ASSUME BaseOK(manager, data, snapshots), StoreOK(manager'), KeepsRoots(manager, manager'),
         data' = data, snapshots' = snapshots, request' = Idle,
         manager'.checkpoints = <<>>, Home(manager'), manager'.state = StateOf(manager, data, data.latest)
  PROVE  /\ NodeInv' /\ VisibleBlock' = data.latest
         /\ SameUpTo(manager, data, manager', data', data.latest)
<1>1. /\ BaseOK(manager', data', snapshots') /\ SameUpTo(manager, data, manager', data', data.latest)
      /\ \A n \in ForkBlockNumber..data.latest : StateOf(manager', data', n) = StateOf(manager, data, n)
  BY OnlyManager
<1>2. data.latest \in ForkBlockNumber..data.latest
  BY BaseFacts
<1>3. Rests'
  BY <1>1, <1>2 DEF Rests
<1> QED
  BY <1>1, <1>3 DEF NodeInv, VisibleBlock, Pending

(* The end of a query: the context is that of the latest block again.       *)
LEMMA Finished ==
  ASSUME BaseOK(manager, data, snapshots), request # Idle, NEW m, StoreOK(m), KeepsRoots(manager, m),
         SameContext(manager, m), m.checkpoints = <<>>,
         SnapshotTaken(data.latest - 1), request.snapshot # Nothing => request.stateRoot = Nothing,
         InContext(manager, data, request.number, m.state, request.stateRoot), FinishQuery(m)
  PROVE  NodeInv' /\ HistoryKept
<1>1. CASE request.snapshot # Nothing
  <2> DEFINE i == Len(snapshots)
  <2>1. i \in 1..Len(snapshots) /\ request.snapshot = i
    BY <1>1, BaseFacts DEF SnapshotTaken
  <2>2. Home(m)
    BY <1>1 DEF InContext, Home, SameContext
  <2>3. RevertedToSnapshot(i, m) /\ request' = Idle
    BY <1>1, <2>1 DEF FinishQuery
  <2>4. VisibleBlock = snapshots[i].latestBlock.number
    BY <1>1, <2>1 DEF VisibleBlock, Pending
  <2> QED
    BY <2>1, <2>2, <2>3, <2>4, Reverted DEF HistoryKept
<1>2. CASE request.snapshot = Nothing
  <2>1. /\ request' = Idle /\ data' = data /\ snapshots' = snapshots
        /\ manager' = IF request.stateRoot = Nothing THEN m ELSE RestoreForkBlockContext(m, request.stateRoot)
    BY <1>2 DEF FinishQuery
  <2>2. VisibleBlock = data.latest
    BY <1>2 DEF VisibleBlock, Pending
  <2>3. /\ StoreOK(manager') /\ KeepsRoots(manager, manager') /\ manager'.checkpoints = <<>>
        /\ Home(manager') /\ manager'.state = StateOf(manager, data, data.latest)
    <3>1. CASE request.stateRoot = Nothing
      BY <2>1, <3>1 DEF InContext, Home, SameContext
    <3>2. CASE request.stateRoot # Nothing
      <4> DEFINE root == request.stateRoot
                 w == RestoreForkBlockContext(m, root)
      <4>1. /\ root \in DOMAIN manager.stateRootToState
            /\ manager.stateRootToState[root] = StateOf(manager, data, data.latest)
            /\ m.contextChanged \/ m.contextBlockNumber = ForkBlockNumber
        BY <3>2 DEF InContext, Home, SameContext
      <4>2. /\ root \in DOMAIN m.stateRootToState
            /\ m.stateRootToState[root] = StateOf(manager, data, data.latest)
        BY <4>1 DEF KeepsRoots
      <4>3. manager' = w
        BY <2>1, <3>2
      <4> HIDE DEF root
      <4>4. /\ StoreOK(w) /\ w.stateRootToState = m.stateRootToState /\ w.checkpoints = m.checkpoints
            /\ w.state = m.stateRootToState[root] /\ Home(w)
        BY <4>1, <4>2, ContextRestored DEF Home
      <4> HIDE DEF w
      <4>5. KeepsRoots(manager, w)
        BY <4>4, KeepsItsRoots, KeepsAll
      <4> QED
        BY <4>2, <4>3, <4>4, <4>5
    <3> QED
      BY <3>1, <3>2
  <2> QED
    BY <2>1, <2>2, <2>3, Resting DEF HistoryKept
<1> QED
  BY <1>1, <1>2

LEMMA ReadsStep ==
  ASSUME NodeInv, request.op = "query", FinishQuery(manager)
  PROVE  NodeInv' /\ HistoryKept
<1>1. Queries /\ request # Idle /\ BaseOK(manager, data, snapshots)
  BY RequestKinds DEF NodeInv
<1>2. StoreOK(manager) /\ KeepsRoots(manager, manager) /\ SameContext(manager, manager)
  BY <1>1, BaseFacts DEF KeepsRoots, SameContext
<1>3. /\ manager.checkpoints = <<>> /\ SnapshotTaken(data.latest - 1)
      /\ request.snapshot # Nothing => request.stateRoot = Nothing
      /\ InContext(manager, data, request.number, manager.state, request.stateRoot)
  BY <1>1 DEF Queries
<1> QED
  BY <1>1, <1>2, <1>3, Finished

LEMMA EndCallStep ==
  ASSUME NodeInv, EndCall
  PROVE  NodeInv' /\ HistoryKept
<1>1. Calls /\ request # Idle /\ BaseOK(manager, data, snapshots) /\ request.depth = 1
  BY RequestKinds DEF NodeInv, EndCall
<1>2. StoreOK(manager) /\ Len(manager.checkpoints) = 1 /\ Len(manager.checkpoints) > 0
  BY <1>1, BaseFacts DEF Calls
<1>3. PICK c \in {Commit(manager), Revert(manager)} : FinishQuery(SetStateRoot(c, request.before))
  BY DEF EndCall
<1>4. /\ StoreOK(c) /\ c.stateRootToState = manager.stateRootToState /\ SameContext(manager, c)
      /\ Len(c.checkpoints) = 0
  <2>1. CASE c = Commit(manager)
    <3>1. /\ StoreOK(Commit(manager)) /\ Commit(manager).stateRootToState = manager.stateRootToState
          /\ SameContext(manager, Commit(manager))
          /\ Len(Commit(manager).checkpoints) = Len(manager.checkpoints) - 1
      BY <1>2, CommitKeeps
    <3> QED
      BY <2>1, <3>1, <1>2
  <2>2. CASE c = Revert(manager)
    BY <2>2, <1>2, RevertKeeps
  <2> QED
    BY <2>1, <2>2
<1>5. c.checkpoints = <<>>
  BY <1>4, EmptySeq DEF StoreOK
<1>6. request.before \in DOMAIN c.stateRootToState
  BY <1>1, <1>4 DEF Calls
<1> DEFINE w == SetStateRoot(c, request.before)
<1>7. /\ StoreOK(w) /\ w.stateRootToState = manager.stateRootToState /\ w.checkpoints = <<>>
      /\ SameContext(manager, w) /\ w.state = manager.stateRootToState[request.before]
  BY <1>4, <1>5, <1>6, SetStateRootKeeps DEF SameContext
<1>8. FinishQuery(w)
  BY <1>3
<1> HIDE DEF w
<1>9. KeepsRoots(manager, w)
  BY <1>7, KeepsItsRoots
<1>10. /\ SnapshotTaken(data.latest - 1)
       /\ request.snapshot # Nothing => request.stateRoot = Nothing
       /\ InContext(manager, data, request.number, w.state, request.stateRoot)
  BY <1>1, <1>7 DEF Calls
<1> QED
  BY <1>1, <1>7, <1>8, <1>9, <1>10, Finished

------------------------------------------------------------------------------
(* Snapshots                                                               *)

LEMMA NothingIsNoNumber == Nothing \notin Nat
BY RemoteAssumption

(* takeSnapshot, once the manager has a root for the state.                 *)
LEMMA Taken ==
  ASSUME BaseOK(manager, data, snapshots), TakenSnapshot, StoreOK(manager'),
         manager'.stateRootToState = GetStateRoot(manager).stateRootToState,
         manager.state = StateOf(manager, data, data.latest)
  PROVE  /\ BaseOK(manager', data', snapshots') /\ data'.latest = data.latest
         /\ SameUpTo(manager, data, manager', data', data.latest)
         /\ Len(snapshots') = Len(snapshots) + 1
         /\ snapshots'[Len(snapshots) + 1].latestBlock.number = data.latest
         /\ StateOf(manager', data', data.latest) = StateOf(manager, data, data.latest)
<1> DEFINE g == GetStateRoot(manager)
           new == [latestBlock |-> LatestBlock(data), stateRoot |-> g.stateRoot]
<1>1. /\ StoreOK(manager) /\ DataOK(data) /\ RootsOK(manager, data) /\ SnapshotsOK(manager, data, snapshots)
      /\ data.latest \in Nat /\ ForkBlockNumber \in Nat /\ ForkBlockNumber <= data.latest
      /\ NumbersOK(data) /\ Len(snapshots) \in Nat
  BY BaseFacts
<1>2. /\ KeepsRoots(manager, g) /\ g.stateRootToState[g.stateRoot] = manager.state
      /\ g.stateRoot \in DOMAIN g.stateRootToState /\ g.stateRoot \in Nat
  BY <1>1, GetStateRootKeeps DEF StoreOK
<1>3. KeepsRoots(manager, manager')
  BY <1>2 DEF KeepsRoots
<1>4. data' = FetchBlockNumber(data, data.latest) /\ snapshots' = Append(snapshots, new)
  BY DEF TakenSnapshot
<1>5. Fetched(data, data') /\ data.latest \in DOMAIN data'.byNumber
  BY <1>1, <1>4, FetchBlockNumberKeeps
<1>6. /\ BaseOK(manager', data', snapshots) /\ data'.latest = data.latest
      /\ SameUpTo(manager, data, manager', data', data.latest)
  BY <1>3, <1>5, BaseKept
<1>7. LatestBlock(data) = data'.byNumber[data.latest] /\ LatestBlock(data) \in Block /\ LatestBlock(data).number = data.latest
  <2>1. LatestBlock(data) = data'.byNumber[data.latest]
    BY <1>4, <1>5 DEF LatestBlock, BlockWithNumber
  <2>2. RootsOK(manager', data') /\ NumbersOK(data')
    BY <1>6 DEF BaseOK, DataOK, MapsOK
  <2> QED
    BY <2>1, <2>2, <1>5 DEF RootsOK, NumbersOK
<1>8. /\ new \in [latestBlock : Block, stateRoot : Nat] /\ new.latestBlock.number = data.latest
      /\ new.stateRoot = g.stateRoot
  BY <1>2, <1>7
<1> HIDE DEF g, new
<1>9. /\ snapshots' \in Seq([latestBlock : Block, stateRoot : Nat])
      /\ Len(snapshots') = Len(snapshots) + 1
      /\ \A i \in 1..Len(snapshots) : snapshots'[i] = snapshots[i]
      /\ snapshots'[Len(snapshots) + 1] = new
  BY <1>1, <1>4, <1>8, AppendProperties DEF SnapshotsOK
<1>10. data.latest \in ForkBlockNumber..data.latest
  BY <1>1
<1>11. StateOf(manager', data', data.latest) = StateOf(manager, data, data.latest)
  BY <1>6, <1>10 DEF SameUpTo
<1>12. SnapshotsOK(manager', data', snapshots)
  BY <1>6 DEF BaseOK
<1>13. /\ new.latestBlock.number \in ForkBlockNumber..data'.latest
       /\ new.stateRoot \in DOMAIN manager'.stateRootToState
       /\ manager'.stateRootToState[new.stateRoot] = StateOf(manager', data', new.latestBlock.number)
  BY <1>2, <1>6, <1>8, <1>10, <1>11 DEF g
<1>14. SnapshotsOK(manager', data', snapshots')
  <2>1. ASSUME NEW i \in 1..Len(snapshots')
        PROVE  /\ snapshots'[i].latestBlock.number \in ForkBlockNumber..data'.latest
               /\ snapshots'[i].stateRoot \in DOMAIN manager'.stateRootToState
               /\ manager'.stateRootToState[snapshots'[i].stateRoot]
                    = StateOf(manager', data', snapshots'[i].latestBlock.number)
    <3>1. CASE i = Len(snapshots) + 1
      BY <3>1, <1>9, <1>13
    <3>2. CASE i # Len(snapshots) + 1
      <4>1. i \in 1..Len(snapshots)
        BY <3>2, <1>1, <1>9
      <4>2. snapshots'[i] = snapshots[i]
        BY <4>1, <1>9
      <4> QED
        BY <4>1, <4>2, <1>12 DEF SnapshotsOK
    <3> QED
      BY <3>1, <3>2
  <2>2. ASSUME NEW i \in 1..Len(snapshots'), NEW j \in 1..Len(snapshots'), i <= j
        PROVE  snapshots'[i].latestBlock.number <= snapshots'[j].latestBlock.number
    <3>1. CASE j = Len(snapshots) + 1
      <4>1. snapshots'[j].latestBlock.number = data'.latest
        BY <3>1, <1>6, <1>8, <1>9
      <4> QED
        BY <4>1, <2>1, <1>1, <1>6
    <3>2. CASE j # Len(snapshots) + 1
      <4>1. i \in 1..Len(snapshots) /\ j \in 1..Len(snapshots)
            /\ snapshots'[i] = snapshots[i] /\ snapshots'[j] = snapshots[j]
        BY <2>2, <3>2, <1>1, <1>9
      <4> QED
        BY <4>1, <2>2, <1>12 DEF SnapshotsOK
    <3> QED
      BY <3>1, <3>2
  <2> QED
    BY <2>1, <2>2, <1>9 DEF SnapshotsOK
<1>15. BaseOK(manager', data', snapshots')
  BY <1>6, <1>14 DEF BaseOK
<1> QED
  BY <1>6, <1>8, <1>9, <1>11, <1>15

LEMMA TakeSnapshotStep ==
  ASSUME NodeInv, TakeSnapshot
  PROVE  NodeInv' /\ HistoryKept
<1>1. /\ Rests /\ BaseOK(manager, data, snapshots) /\ request = Idle /\ request' = Idle /\ TakenSnapshot
      /\ manager' = GetStateRoot(manager)
  BY RequestKinds DEF NodeInv, TakeSnapshot
<1>2. /\ StoreOK(manager') /\ SameContext(manager, manager') /\ manager'.state = manager.state
      /\ manager'.checkpoints = manager.checkpoints
  BY <1>1, BaseFacts, GetStateRootKeeps
<1>3. manager.state = StateOf(manager, data, data.latest)
  BY <1>1 DEF Rests
<1>4. /\ BaseOK(manager', data', snapshots') /\ data'.latest = data.latest
      /\ SameUpTo(manager, data, manager', data', data.latest)
      /\ StateOf(manager', data', data.latest) = StateOf(manager, data, data.latest)
  BY <1>1, <1>2, <1>3, Taken
<1>5. Rests'
  BY <1>1, <1>2, <1>3, <1>4 DEF Rests, Home, SameContext
<1>6. VisibleBlock = data.latest /\ VisibleBlock' = data.latest
  BY <1>1, <1>4 DEF VisibleBlock, Pending
<1> QED
  BY <1>4, <1>5, <1>6 DEF NodeInv, HistoryKept

LEMMA RevertToSnapshotStep ==
  ASSUME NodeInv, RevertToSnapshot
  PROVE  /\ NodeInv' /\ VisibleBlock' \in ForkBlockNumber..VisibleBlock
         /\ SameUpTo(manager, data, manager', data', VisibleBlock')
<1>1. /\ Rests /\ BaseOK(manager, data, snapshots) /\ request = Idle /\ request' = Idle
  BY RequestKinds DEF NodeInv, RevertToSnapshot
<1>2. PICK i \in DOMAIN snapshots : RevertedToSnapshot(i, manager)
  BY DEF RevertToSnapshot
<1>3. i \in 1..Len(snapshots)
  BY <1>1, <1>2, BaseFacts DEF SnapshotsOK
<1>4. StoreOK(manager) /\ KeepsRoots(manager, manager) /\ manager.checkpoints = <<>> /\ Home(manager)
  BY <1>1, BaseFacts DEF KeepsRoots, Rests
<1>5. VisibleBlock = data.latest
  BY <1>1 DEF VisibleBlock, Pending
<1> QED
  BY <1>1, <1>2, <1>3, <1>4, <1>5, Reverted

------------------------------------------------------------------------------
(* What goes on within a request                                           *)

(* Within a block that is being mined, the first checkpoint is the way back.*)
LEMMA MineGoesOn ==
  ASSUME BaseOK(manager, data, snapshots), Mines, data' = data, snapshots' = snapshots,
         StoreOK(manager'), KeepsRoots(manager, manager'), SameContext(manager, manager'),
         request' \in [op : {"mine"}, snapshot : {request.snapshot}, txs : SUBSET Txs, depth : 0..2,
                       writes : {request'.writes}],
         \A n \in 0..data.latest : TxsOf(data, n) \cap request'.txs = {},
         Len(manager'.checkpoints) = request'.depth + 1,
         manager'.checkpoints[1] = manager.checkpoints[1]
  PROVE  NodeInv' /\ HistoryKept
<1>1. /\ BaseOK(manager', data', snapshots') /\ SameUpTo(manager, data, manager', data', data.latest)
      /\ \A n \in ForkBlockNumber..data.latest : StateOf(manager', data', n) = StateOf(manager, data, n)
  BY OnlyManager
<1>2. data.latest \in ForkBlockNumber..data.latest /\ StoreOK(manager) /\ data.latest \in Nat /\ Len(snapshots) \in Nat
      /\ SnapshotsOK(manager, data, snapshots)
  BY BaseFacts
<1>3. /\ request'.snapshot = request.snapshot /\ request # Idle /\ request' # Idle
  BY DEF Mines, Idle
<1>4. VisibleBlock' = VisibleBlock
  BY <1>3 DEF VisibleBlock, Pending
<1>5. manager.checkpoints[1] \in DOMAIN manager.stateRootToState
  <2>1. manager.checkpoints \in Seq(DOMAIN manager.stateRootToState) /\ 1 \in 1..Len(manager.checkpoints)
    BY <1>2 DEF StoreOK, Mines
  <2> QED
    BY <2>1, ElementOfSeq
<1>6. manager'.stateRootToState[manager'.checkpoints[1]] = StateOf(manager', data', data'.latest)
  BY <1>1, <1>2, <1>5 DEF Mines, KeepsRoots
<1>7. SnapshotTaken(data.latest)' /\ Home(manager')
  BY <1>3 DEF Mines, SnapshotTaken, Home, SameContext
<1>8. request' \in [op : {"mine"}, snapshot : {request'.snapshot}, txs : SUBSET Txs, depth : 0..2,
                    writes : {request'.writes}]
  BY <1>3
<1>9. Mines'
  BY <1>6, <1>7, <1>8 DEF Mines
<1>10. VisibleBlock \in ForkBlockNumber..data.latest
  <2>1. CASE request.snapshot = Nothing
    BY <2>1, <1>2 DEF VisibleBlock, Pending
  <2>2. CASE request.snapshot # Nothing
    BY <2>2, <1>2, <1>3 DEF VisibleBlock, Pending, Mines, SnapshotTaken
  <2> QED
    BY <2>1, <2>2
<1>11. SameUpTo(manager, data, manager', data', VisibleBlock)
  BY <1>1, <1>10, UpToVisible
<1> QED
  BY <1>1, <1>4, <1>9, <1>11 DEF NodeInv, HistoryKept

(* The way back of a query, and the block it is about, stay what they are.  *)
LEMMA ContextStays ==
  ASSUME KeepsRoots(manager, manager'), SameContext(manager, manager'), data' = data,
         data.latest \in Nat, ForkBlockNumber \in Nat, ForkBlockNumber <= data.latest,
         SameUpTo(manager, data, manager', data', data.latest),
         NEW n, NEW state, NEW back, InContext(manager, data, n, state, back)
  PROVE  InContext(manager', data', n, state, back)
<1>1. \A k \in ForkBlockNumber..data.latest : StateOf(manager', data', k) = StateOf(manager, data, k)
  BY DEF SameUpTo
<1>2. CASE back = Nothing
  BY <1>1, <1>2 DEF InContext, Home, SameContext
<1>3. CASE back # Nothing
  <2>1. /\ back \in DOMAIN manager'.stateRootToState
        /\ manager'.stateRootToState[back] = StateOf(manager', data', data'.latest)
    BY <1>1, <1>3 DEF InContext, KeepsRoots
  <2>2. n \in Nat /\ n \in 0..(data'.latest - 1)
    BY <1>3 DEF InContext
  <2>3. CASE n < ForkBlockNumber
    BY <1>3, <2>1, <2>2, <2>3 DEF InContext, SameContext
  <2>4. CASE ~(n < ForkBlockNumber)
    <3>1. n \in ForkBlockNumber..data.latest
      BY <2>2, <2>4
    <3>2. StateOf(manager', data', n) = StateOf(manager, data, n)
      BY <3>1, <1>1
    <3> QED
      BY <1>3, <2>1, <2>2, <2>4, <3>2 DEF InContext, Home, SameContext
  <2> QED
    BY <2>3, <2>4
<1> QED
  BY <1>2, <1>3

(* Within a call, the root from before it is the way back.                  *)
LEMMA CallGoesOn ==
  ASSUME BaseOK(manager, data, snapshots), Calls, data' = data, snapshots' = snapshots,
         StoreOK(manager'), KeepsRoots(manager, manager'), SameContext(manager, manager'),
         request' \in [op : {"call"}, snapshot : {request.snapshot}, number : {request.number},
                       stateRoot : {request.stateRoot}, before : {request.before}, depth : 1..2,
                       writes : {request'.writes}],
         Len(manager'.checkpoints) = request'.depth
  PROVE  NodeInv' /\ HistoryKept
<1>1. /\ BaseOK(manager', data', snapshots') /\ SameUpTo(manager, data, manager', data', data.latest)
      /\ \A n \in ForkBlockNumber..data.latest : StateOf(manager', data', n) = StateOf(manager, data, n)
  BY OnlyManager
<1>2. data.latest \in ForkBlockNumber..data.latest /\ StoreOK(manager) /\ data.latest \in Nat
      /\ ForkBlockNumber \in Nat /\ ForkBlockNumber <= data.latest
      /\ SnapshotsOK(manager, data, snapshots) /\ Len(snapshots) \in Nat
  BY BaseFacts
<1>3. /\ request'.snapshot = request.snapshot /\ request'.number = request.number
      /\ request'.stateRoot = request.stateRoot /\ request'.before = request.before
      /\ request # Idle /\ request' # Idle
  BY DEF Calls, Idle
<1>4. VisibleBlock' = VisibleBlock
  BY <1>3 DEF VisibleBlock, Pending
<1>5. /\ request.before \in DOMAIN manager'.stateRootToState
      /\ manager'.stateRootToState[request.before] = manager.stateRootToState[request.before]
  BY DEF Calls, KeepsRoots
<1>6. InContext(manager', data', request.number, manager.stateRootToState[request.before], request.stateRoot)
  BY <1>1, <1>2, ContextStays DEF Calls
<1>7. SnapshotTaken(data.latest - 1)' /\ (request'.snapshot # Nothing => request'.stateRoot = Nothing)
  BY <1>3 DEF Calls, SnapshotTaken
<1>8. request' \in [op : {"call"}, snapshot : {request'.snapshot}, number : {request'.number},
                    stateRoot : {request'.stateRoot}, before : {request'.before}, depth : 1..2,
                    writes : {request'.writes}]
  BY <1>3
<1>9. Calls'
  BY <1>3, <1>5, <1>6, <1>7, <1>8 DEF Calls
<1>10. VisibleBlock \in ForkBlockNumber..data.latest
  <2>1. CASE request.snapshot = Nothing
    BY <2>1, <1>2 DEF VisibleBlock, Pending
  <2>2. CASE request.snapshot # Nothing
    <3>1. Len(snapshots) \in 1..Len(snapshots) /\ VisibleBlock = snapshots[Len(snapshots)].latestBlock.number
      BY <2>2, <1>2, <1>3 DEF VisibleBlock, Pending, Calls, SnapshotTaken
    <3> QED
      BY <3>1, <1>2 DEF SnapshotsOK
  <2> QED
    BY <2>1, <2>2
<1>11. SameUpTo(manager, data, manager', data', VisibleBlock)
  BY <1>1, <1>10, UpToVisible
<1> QED
  BY <1>1, <1>4, <1>9, <1>11 DEF NodeInv, HistoryKept
------------------------------------------------------------------------------
OnlyStateWritten(m, w) ==
  StoreOK(w) /\ w.stateRootToState = m.stateRootToState /\ w.checkpoints = m.checkpoints /\ SameContext(m, w)

LEMMA StateWritten ==
  ASSUME NEW m, StoreOK(m), NEW state
  PROVE  OnlyStateWritten(m, [m EXCEPT !.state = state])
BY StateSet DEF OnlyStateWritten

LEMMA Writes ==
  ASSUME StoreOK(manager),
         NEW a, NEW b, NEW hasCode, NEW c, NEW k, NEW v
  PROVE  /\ OnlyStateWritten(manager, PutAccount(manager, a, b, hasCode))
         /\ OnlyStateWritten(manager, PutContractCode(manager, a, c))
         /\ OnlyStateWritten(manager, PutContractStorage(manager, a, k, v))
         /\ OnlyStateWritten(manager, ClearContractStorage(manager, a))
<1>1. OnlyStateWritten(manager, PutContractCode(manager, a, c))
  <2> DEFINE state == [manager.state EXCEPT ![a].code = c]
  <2>1. PutContractCode(manager, a, c) = [manager EXCEPT !.state = state]
    BY DEF PutContractCode
  <2> QED
    BY <2>1, StateWritten
<1>2. OnlyStateWritten(manager, PutContractStorage(manager, a, k, v))
  <2> DEFINE state == [manager.state EXCEPT ![a].storage[k] = v]
  <2>1. PutContractStorage(manager, a, k, v) = [manager EXCEPT !.state = state]
    BY DEF PutContractStorage
  <2> QED
    BY <2>1, StateWritten
<1>3. OnlyStateWritten(manager, ClearContractStorage(manager, a))
  <2> DEFINE first == [manager EXCEPT !.state = [manager.state EXCEPT ![a].cleared = TRUE]]
             second == [first EXCEPT !.state = [first.state EXCEPT ![a].storage = [x \in Slots |-> Unset]]]
  <2>1. ClearContractStorage(manager, a) = second
    BY DEF ClearContractStorage
  <2>2. OnlyStateWritten(manager, first)
    BY StateWritten
  <2> HIDE DEF first
  <2>3. OnlyStateWritten(first, second)
    BY <2>2, StateWritten DEF OnlyStateWritten
  <2> HIDE DEF second
  <2> QED
    BY <2>1, <2>2, <2>3 DEF OnlyStateWritten, SameContext
<1>4. OnlyStateWritten(manager, PutAccount(manager, a, b, hasCode))
  <2> DEFINE first == [manager EXCEPT !.state = [manager.state EXCEPT ![a].balance = b]]
             code == IF hasCode THEN first.state[a].code ELSE NoCode
             second == [first EXCEPT !.state = [first.state EXCEPT ![a].code = code]]
  <2>1. PutAccount(manager, a, b, hasCode) = second
    BY DEF PutAccount
  <2>2. OnlyStateWritten(manager, first)
    BY StateWritten
  <2> HIDE DEF first
  <2>3. OnlyStateWritten(first, second)
    BY <2>2, StateWritten DEF OnlyStateWritten
  <2> HIDE DEF second
  <2> QED
    BY <2>1, <2>2, <2>3 DEF OnlyStateWritten, SameContext
<1> QED
  BY <1>1, <1>2, <1>3, <1>4

------------------------------------------------------------------------------
(* Transactions                                                            *)

LEMMA MineFacts ==
  ASSUME NodeInv, request.op = "mine"
  PROVE  /\ Mines /\ BaseOK(manager, data, snapshots) /\ StoreOK(manager)
         /\ request \in [op : {"mine"}, snapshot : {request.snapshot}, txs : SUBSET Txs, depth : 0..2,
                         writes : {request.writes}]
         /\ Len(manager.checkpoints) = request.depth + 1 /\ Len(manager.checkpoints) > 0
         /\ KeepsRoots(manager, manager)
         /\ \A n \in 0..data.latest : TxsOf(data, n) \cap request.txs = {}
BY RequestKinds, BaseFacts DEF NodeInv, Mines, KeepsRoots

LEMMA CallFacts ==
  ASSUME NodeInv, request.op = "call"
  PROVE  /\ Calls /\ BaseOK(manager, data, snapshots) /\ StoreOK(manager)
         /\ request \in [op : {"call"}, snapshot : {request.snapshot}, number : {request.number},
                         stateRoot : {request.stateRoot}, before : {request.before}, depth : 1..2,
                         writes : {request.writes}]
         /\ Len(manager.checkpoints) = request.depth /\ Len(manager.checkpoints) > 0
         /\ KeepsRoots(manager, manager)
BY RequestKinds, BaseFacts DEF NodeInv, Calls, KeepsRoots

LEMMA WriteStep ==
  ASSUME NodeInv, NEW w, OnlyStateWritten(manager, w), Write(w)
  PROVE  NodeInv' /\ HistoryKept
<1>1. /\ manager' = w /\ data' = data /\ snapshots' = snapshots
      /\ request' = [request EXCEPT !.writes = request.writes + 1]
  BY DEF Write
<1>2. /\ StoreOK(manager') /\ KeepsRoots(manager, manager') /\ SameContext(manager, manager')
      /\ manager'.checkpoints = manager.checkpoints
  BY <1>1, KeepsItsRoots DEF OnlyStateWritten
<1>3. CASE request.op = "mine"
  <2>1. /\ Mines /\ BaseOK(manager, data, snapshots)
        /\ request \in [op : {"mine"}, snapshot : {request.snapshot}, txs : SUBSET Txs, depth : 0..2,
                        writes : {request.writes}]
        /\ Len(manager.checkpoints) = request.depth + 1
        /\ \A n \in 0..data.latest : TxsOf(data, n) \cap request.txs = {}
    BY <1>3, MineFacts
  <2>2. /\ request' \in [op : {"mine"}, snapshot : {request.snapshot}, txs : SUBSET Txs, depth : 0..2,
                         writes : {request'.writes}]
        /\ request'.txs = request.txs /\ request'.depth = request.depth
    BY <2>1, <1>1
  <2> QED
    BY <2>1, <2>2, <1>1, <1>2, MineGoesOn
<1>4. CASE request.op = "call"
  <2>1. /\ Calls /\ BaseOK(manager, data, snapshots)
        /\ request \in [op : {"call"}, snapshot : {request.snapshot}, number : {request.number},
                        stateRoot : {request.stateRoot}, before : {request.before}, depth : 1..2,
                        writes : {request.writes}]
        /\ Len(manager.checkpoints) = request.depth
    BY <1>4, CallFacts
  <2>2. /\ request' \in [op : {"call"}, snapshot : {request.snapshot}, number : {request.number},
                         stateRoot : {request.stateRoot}, before : {request.before}, depth : 1..2,
                         writes : {request'.writes}]
        /\ request'.depth = request.depth
    BY <2>1, <1>1
  <2> QED
    BY <2>1, <2>2, <1>1, <1>2, CallGoesOn
<1> QED
  BY <1>3, <1>4 DEF Write, Running

LEMMA WriteSteps ==
  ASSUME NodeInv, PutAccountStep \/ PutContractCodeStep \/ PutContractStorageStep \/ ClearContractStorageStep
  PROVE  NodeInv' /\ HistoryKept
<1>1. StoreOK(manager)
  BY BaseFacts DEF NodeInv
<1>2. CASE PutAccountStep
  BY <1>1, <1>2, Writes, WriteStep DEF PutAccountStep
<1>3. CASE PutContractCodeStep
  BY <1>1, <1>3, Writes, WriteStep DEF PutContractCodeStep
<1>4. CASE PutContractStorageStep
  BY <1>1, <1>4, Writes, WriteStep DEF PutContractStorageStep
<1>5. CASE ClearContractStorageStep
  BY <1>1, <1>5, Writes, WriteStep DEF ClearContractStorageStep
<1> QED
  BY <1>2, <1>3, <1>4, <1>5

(* What commits and reverts of inner checkpoints have in common.            *)
LEMMA InnerEnd ==
  ASSUME StoreOK(manager), Len(manager.checkpoints) > 0, NEW w \in {Commit(manager), Revert(manager)}
  PROVE  /\ StoreOK(w) /\ KeepsRoots(manager, w) /\ SameContext(manager, w)
         /\ Len(w.checkpoints) = Len(manager.checkpoints) - 1
         /\ Len(manager.checkpoints) > 1 => w.checkpoints[1] = manager.checkpoints[1]
<1>1. Len(manager.checkpoints) \in Nat
  BY DEF StoreOK
<1>2. CASE w = Commit(manager)
  <2>1. /\ StoreOK(w) /\ w.stateRootToState = manager.stateRootToState /\ SameContext(manager, w)
        /\ Len(w.checkpoints) = Len(manager.checkpoints) - 1
        /\ \A i \in 1..Len(manager.checkpoints) - 1 : w.checkpoints[i] = manager.checkpoints[i]
    BY <1>2, CommitKeeps
  <2> QED
    BY <2>1, <1>1, KeepsItsRoots
<1>3. CASE w = Revert(manager)
  <2>1. /\ StoreOK(w) /\ w.stateRootToState = manager.stateRootToState /\ SameContext(manager, w)
        /\ Len(w.checkpoints) = Len(manager.checkpoints) - 1
        /\ \A i \in 1..Len(manager.checkpoints) - 1 : w.checkpoints[i] = manager.checkpoints[i]
    BY <1>3, RevertKeeps
  <2> QED
    BY <2>1, <1>1, KeepsItsRoots
<1> QED
  BY <1>2, <1>3

LEMMA BeginMessageStep ==
  ASSUME NodeInv, BeginMessage
  PROVE  NodeInv' /\ HistoryKept
<1>1. /\ Running /\ request.depth = 1 /\ manager' = Checkpoint(manager)
      /\ request' = [request EXCEPT !.depth = request.depth + 1] /\ data' = data /\ snapshots' = snapshots
  BY DEF BeginMessage
<1>2. ASSUME StoreOK(manager), Len(manager.checkpoints) > 0
      PROVE  /\ StoreOK(manager') /\ KeepsRoots(manager, manager') /\ SameContext(manager, manager')
             /\ Len(manager'.checkpoints) = Len(manager.checkpoints) + 1
             /\ manager'.checkpoints[1] = manager.checkpoints[1]
  <2>1. 1 \in 1..Len(manager.checkpoints)
    BY <1>2 DEF StoreOK
  <2> QED
    BY <1>1, <1>2, <2>1, CheckpointKeeps
<1>3. CASE request.op = "mine"
  <2>1. /\ Mines /\ BaseOK(manager, data, snapshots) /\ StoreOK(manager)
        /\ request \in [op : {"mine"}, snapshot : {request.snapshot}, txs : SUBSET Txs, depth : 0..2,
                        writes : {request.writes}]
        /\ Len(manager.checkpoints) = request.depth + 1 /\ Len(manager.checkpoints) > 0
        /\ \A n \in 0..data.latest : TxsOf(data, n) \cap request.txs = {}
    BY <1>3, MineFacts
  <2>2. /\ request' \in [op : {"mine"}, snapshot : {request.snapshot}, txs : SUBSET Txs, depth : 0..2,
                         writes : {request'.writes}]
        /\ request'.txs = request.txs /\ request'.depth = request.depth + 1
    BY <2>1, <1>1
  <2> QED
    BY <2>1, <2>2, <1>1, <1>2, MineGoesOn
<1>4. CASE request.op = "call"
  <2>1. /\ Calls /\ BaseOK(manager, data, snapshots) /\ StoreOK(manager)
        /\ request \in [op : {"call"}, snapshot : {request.snapshot}, number : {request.number},
                        stateRoot : {request.stateRoot}, before : {request.before}, depth : 1..2,
                        writes : {request.writes}]
        /\ Len(manager.checkpoints) = request.depth /\ Len(manager.checkpoints) > 0
    BY <1>4, CallFacts
  <2>2. /\ request' \in [op : {"call"}, snapshot : {request.snapshot}, number : {request.number},
                         stateRoot : {request.stateRoot}, before : {request.before}, depth : 1..2,
                         writes : {request'.writes}]
        /\ request'.depth = request.depth + 1
    BY <2>1, <1>1
  <2> QED
    BY <2>1, <2>2, <1>1, <1>2, CallGoesOn
<1> QED
  BY <1>1, <1>3, <1>4 DEF Running

LEMMA EndMessageStep ==
  ASSUME NodeInv, EndMessage
  PROVE  NodeInv' /\ HistoryKept
<1>1. /\ Running /\ request.depth = 2 /\ manager' \in {Commit(manager), Revert(manager)}
      /\ request' = [request EXCEPT !.depth = request.depth - 1] /\ data' = data /\ snapshots' = snapshots
  BY DEF EndMessage
<1>2. CASE request.op = "mine"
  <2>1. /\ Mines /\ BaseOK(manager, data, snapshots) /\ StoreOK(manager)
        /\ request \in [op : {"mine"}, snapshot : {request.snapshot}, txs : SUBSET Txs, depth : 0..2,
                        writes : {request.writes}]
        /\ Len(manager.checkpoints) = request.depth + 1 /\ Len(manager.checkpoints) > 0
        /\ \A n \in 0..data.latest : TxsOf(data, n) \cap request.txs = {}
    BY <1>2, MineFacts
  <2>2. /\ request' \in [op : {"mine"}, snapshot : {request.snapshot}, txs : SUBSET Txs, depth : 0..2,
                         writes : {request'.writes}]
        /\ request'.txs = request.txs /\ request'.depth = request.depth - 1
    BY <2>1, <1>1
  <2>3. /\ StoreOK(manager') /\ KeepsRoots(manager, manager') /\ SameContext(manager, manager')
        /\ Len(manager'.checkpoints) = Len(manager.checkpoints) - 1
        /\ Len(manager.checkpoints) > 1 => manager'.checkpoints[1] = manager.checkpoints[1]
    BY <1>1, <2>1, InnerEnd
  <2> QED
    BY <2>1, <2>2, <2>3, <1>1, MineGoesOn
<1>3. CASE request.op = "call"
  <2>1. /\ Calls /\ BaseOK(manager, data, snapshots) /\ StoreOK(manager)
        /\ request \in [op : {"call"}, snapshot : {request.snapshot}, number : {request.number},
                        stateRoot : {request.stateRoot}, before : {request.before}, depth : 1..2,
                        writes : {request.writes}]
        /\ Len(manager.checkpoints) = request.depth /\ Len(manager.checkpoints) > 0
    BY <1>3, CallFacts
  <2>2. /\ request' \in [op : {"call"}, snapshot : {request.snapshot}, number : {request.number},
                         stateRoot : {request.stateRoot}, before : {request.before}, depth : 1..2,
                         writes : {request'.writes}]
        /\ request'.depth = request.depth - 1
    BY <2>1, <1>1
  <2>3. /\ StoreOK(manager') /\ KeepsRoots(manager, manager') /\ SameContext(manager, manager')
        /\ Len(manager'.checkpoints) = Len(manager.checkpoints) - 1
    BY <1>1, <2>1, InnerEnd
  <2> QED
    BY <2>1, <2>2, <2>3, <1>1, CallGoesOn
<1> QED
  BY <1>1, <1>2, <1>3 DEF Running

(* A transaction that no block has yet.                                     *)
LEMMA BeginTransactionStep ==
  ASSUME NodeInv, BeginTransaction
  PROVE  NodeInv' /\ HistoryKept
<1>1. /\ request.op = "mine" /\ request.depth = 0 /\ manager' = Checkpoint(manager)
      /\ data' = data /\ snapshots' = snapshots
  BY DEF BeginTransaction
<1>2. PICK tx \in Txs \ (PastTxs \cup request.txs) :
        request' = [request EXCEPT !.txs = request.txs \cup {tx}, !.depth = 1, !.writes = 0]
  BY DEF BeginTransaction
<1>3. /\ Mines /\ BaseOK(manager, data, snapshots) /\ StoreOK(manager)
      /\ request \in [op : {"mine"}, snapshot : {request.snapshot}, txs : SUBSET Txs, depth : 0..2,
                      writes : {request.writes}]
      /\ Len(manager.checkpoints) = 1
      /\ \A n \in 0..data.latest : TxsOf(data, n) \cap request.txs = {}
  BY <1>1, MineFacts
<1>4. /\ request' \in [op : {"mine"}, snapshot : {request.snapshot}, txs : SUBSET Txs, depth : 0..2,
                       writes : {request'.writes}]
      /\ request'.txs = request.txs \cup {tx} /\ request'.depth = 1
  <2> DEFINE txs == request.txs \cup {tx}
  <2>1. txs \in SUBSET Txs
    BY <1>2, <1>3
  <2>2. request' = [request EXCEPT !.txs = txs, !.depth = 1, !.writes = 0]
    BY <1>2
  <2> HIDE DEF txs
  <2>3. /\ request' \in [op : {"mine"}, snapshot : {request.snapshot}, txs : {txs}, depth : {1},
                          writes : {request'.writes}]
        /\ request'.txs = txs /\ request'.depth = 1
    BY <1>3, <2>2
  <2> QED
    BY <2>1, <2>3 DEF txs
<1>5. /\ StoreOK(manager') /\ KeepsRoots(manager, manager') /\ SameContext(manager, manager')
      /\ Len(manager'.checkpoints) = 2
      /\ manager'.checkpoints[1] = manager.checkpoints[1]
  <2> DEFINE w == Checkpoint(manager)
  <2>1. /\ StoreOK(w) /\ KeepsRoots(manager, w) /\ SameContext(manager, w)
        /\ Len(w.checkpoints) = Len(manager.checkpoints) + 1
        /\ \A i \in 1..Len(manager.checkpoints) : w.checkpoints[i] = manager.checkpoints[i]
    BY <1>3, CheckpointKeeps
  <2>2. manager' = w
    BY <1>1
  <2> HIDE DEF w
  <2>3. w.checkpoints[1] = manager.checkpoints[1] /\ Len(w.checkpoints) = 2
    BY <1>3, <2>1
  <2> QED
    BY <2>1, <2>2, <2>3
<1>6. ASSUME NEW n \in 0..data.latest PROVE tx \notin TxsOf(data, n)
  <2>1. data.latest \in Nat /\ ForkBlockNumber \in Nat /\ NumbersOK(data)
    BY <1>3, BaseFacts
  <2>2. CASE IsRemote(n)
    <3>1. n \in 0..ForkBlockNumber
      BY <2>1, <2>2 DEF IsRemote
    <3> QED
      BY <2>2, <3>1, <1>2 DEF TxsOf, PastTxs
  <2>3. CASE ~IsRemote(n)
    <3>1. n \in DOMAIN data.byNumber
      BY <2>1, <2>3 DEF IsRemote, NumbersOK
    <3> QED
      BY <2>3, <3>1, <1>2 DEF TxsOf, PastTxs, LocalTxs
  <2> QED
    BY <2>2, <2>3
<1>7. \A n \in 0..data.latest : TxsOf(data, n) \cap request'.txs = {}
  BY <1>3, <1>4, <1>6
<1> QED
  BY <1>1, <1>3, <1>4, <1>5, <1>7, MineGoesOn

LEMMA EndTransactionStep ==
  ASSUME NodeInv, EndTransaction
  PROVE  NodeInv' /\ HistoryKept
<1>1. /\ request.op = "mine" /\ request.depth = 1 /\ manager' = Commit(manager)
      /\ request' = [request EXCEPT !.depth = 0]
      /\ data' = data /\ snapshots' = snapshots
  BY DEF EndTransaction
<1>2. /\ Mines /\ BaseOK(manager, data, snapshots) /\ StoreOK(manager)
      /\ request \in [op : {"mine"}, snapshot : {request.snapshot}, txs : SUBSET Txs, depth : 0..2,
                      writes : {request.writes}]
      /\ Len(manager.checkpoints) = 2
      /\ \A n \in 0..data.latest : TxsOf(data, n) \cap request.txs = {}
  BY <1>1, MineFacts
<1>3. /\ request' \in [op : {"mine"}, snapshot : {request.snapshot}, txs : SUBSET Txs, depth : 0..2,
                       writes : {request'.writes}]
      /\ request'.txs = request.txs /\ request'.depth = 0
  BY <1>1, <1>2
<1>4. /\ StoreOK(manager') /\ KeepsRoots(manager, manager') /\ SameContext(manager, manager')
      /\ Len(manager'.checkpoints) = 1
      /\ manager'.checkpoints[1] = manager.checkpoints[1]
  BY <1>1, <1>2, InnerEnd
<1> QED
  BY <1>1, <1>2, <1>3, <1>4, MineGoesOn

------------------------------------------------------------------------------
(* Blocks begin                                                            *)

(* A block begins: its checkpoint is the first, of the state of the latest  *)
(* block.                                                                   *)
LEMMA FirstCheckpoint ==
  ASSUME NEW m, StoreOK(m), m.checkpoints = <<>>, NEW w, w = Checkpoint(m)
  PROVE  /\ StoreOK(w) /\ KeepsRoots(m, w) /\ SameContext(m, w) /\ Len(w.checkpoints) = 1
         /\ w.stateRootToState[w.checkpoints[1]] = m.state
         /\ w.stateRootToState = GetStateRoot(m).stateRootToState
<1>1. Len(m.checkpoints) = 0
  BY DEF StoreOK
<1> DEFINE c == Checkpoint(m)
<1>2. /\ StoreOK(c) /\ KeepsRoots(m, c) /\ SameContext(m, c)
      /\ Len(c.checkpoints) = Len(m.checkpoints) + 1
      /\ c.stateRootToState[c.checkpoints[Len(m.checkpoints) + 1]] = m.state
      /\ c.stateRootToState = GetStateRoot(m).stateRootToState
  BY CheckpointKeeps
<1> HIDE DEF c
<1>3. Len(m.checkpoints) + 1 = 1
  BY <1>1
<1>4. Len(c.checkpoints) = 1 /\ c.stateRootToState[c.checkpoints[1]] = m.state
  BY <1>2, <1>3
<1> QED
  BY <1>2, <1>4 DEF c

LEMMA MiningBegun ==
  ASSUME Rests, BaseOK(manager', data', snapshots'), data'.latest = data.latest,
         SameUpTo(manager, data, manager', data', data.latest),
         ForkBlockNumber \in Nat, data.latest \in Nat, ForkBlockNumber <= data.latest,
         SameContext(manager, manager'), Len(manager'.checkpoints) = 1,
         manager'.stateRootToState[manager'.checkpoints[1]] = manager.state,
         NEW snapshot, request' = Mining(snapshot),
         SnapshotTaken(data.latest)'
  PROVE  NodeInv' /\ HistoryKept
<1>1. request' = [op |-> "mine", snapshot |-> snapshot, txs |-> {}, depth |-> 0, writes |-> 0]
  BY DEF Mining
<1>2. /\ request' \in [op : {"mine"}, snapshot : {request'.snapshot}, txs : SUBSET Txs, depth : 0..2,
                       writes : {request'.writes}]
      /\ request'.txs = {} /\ request'.depth = 0 /\ request'.snapshot = snapshot
  BY <1>1
<1>3. request' # Idle
  BY <1>1 DEF Idle
<1>4. data.latest \in ForkBlockNumber..data.latest
  OBVIOUS
<1>5. manager'.stateRootToState[manager'.checkpoints[1]] = StateOf(manager', data', data'.latest)
  BY <1>4 DEF Rests, SameUpTo
<1>6. Mines'
  BY <1>2, <1>5 DEF Mines, Rests, Home, SameContext
<1>7. VisibleBlock = data.latest
  BY DEF VisibleBlock, Pending, Rests
<1>8. VisibleBlock' = data.latest
  <2>1. CASE snapshot = Nothing
    BY <2>1, <1>2 DEF VisibleBlock, Pending
  <2>2. CASE snapshot # Nothing
    BY <2>2, <1>2, <1>3 DEF VisibleBlock, Pending, SnapshotTaken
  <2> QED
    BY <2>1, <2>2
<1> QED
  BY <1>6, <1>7, <1>8 DEF NodeInv, HistoryKept

LEMMA BeginMineStep ==
  ASSUME NodeInv, BeginMine
  PROVE  NodeInv' /\ HistoryKept
<1>1. /\ Rests /\ BaseOK(manager, data, snapshots) /\ request' = Mining(Nothing)
      /\ data' = FetchBlockNumber(data, data.latest) /\ manager' = Checkpoint(manager)
      /\ snapshots' = snapshots
  BY RequestKinds DEF NodeInv, BeginMine
<1>2. /\ StoreOK(manager) /\ DataOK(data) /\ data.latest \in Nat /\ ForkBlockNumber \in Nat
      /\ ForkBlockNumber <= data.latest
  BY <1>1, BaseFacts
<1>3. /\ StoreOK(manager') /\ KeepsRoots(manager, manager') /\ SameContext(manager, manager')
      /\ Len(manager'.checkpoints) = 1
      /\ manager'.stateRootToState[manager'.checkpoints[1]] = manager.state
  BY <1>1, <1>2, FirstCheckpoint DEF Rests
<1>4. Fetched(data, data')
  BY <1>1, <1>2, FetchBlockNumberKeeps
<1>5. /\ BaseOK(manager', data', snapshots') /\ SameUpTo(manager, data, manager', data', data.latest)
      /\ data'.latest = data.latest
  BY <1>1, <1>3, <1>4, BaseKept
<1>6. SnapshotTaken(data.latest)'
  BY <1>1 DEF SnapshotTaken, Mining
<1> QED
  BY <1>1, <1>2, <1>3, <1>5, <1>6, MiningBegun

LEMMA BeginPendingStep ==
  ASSUME NodeInv, BeginPending
  PROVE  NodeInv' /\ HistoryKept
<1>1. /\ Rests /\ BaseOK(manager, data, snapshots) /\ request' = Mining(Len(snapshots) + 1)
      /\ TakenSnapshot /\ manager' = Checkpoint(manager)
  BY RequestKinds DEF NodeInv, BeginPending
<1>2. /\ StoreOK(manager) /\ DataOK(data) /\ data.latest \in Nat /\ ForkBlockNumber \in Nat
      /\ ForkBlockNumber <= data.latest /\ Len(snapshots) \in Nat
  BY <1>1, BaseFacts
<1>3. /\ StoreOK(manager') /\ KeepsRoots(manager, manager') /\ SameContext(manager, manager')
      /\ Len(manager'.checkpoints) = 1
      /\ manager'.stateRootToState[manager'.checkpoints[1]] = manager.state
      /\ manager'.stateRootToState = GetStateRoot(manager).stateRootToState
  BY <1>1, <1>2, FirstCheckpoint DEF Rests
<1>4. manager.state = StateOf(manager, data, data.latest)
  BY <1>1 DEF Rests
<1>5. /\ BaseOK(manager', data', snapshots') /\ data'.latest = data.latest
      /\ SameUpTo(manager, data, manager', data', data.latest)
      /\ Len(snapshots') = Len(snapshots) + 1
      /\ snapshots'[Len(snapshots) + 1].latestBlock.number = data.latest
  BY <1>1, <1>3, <1>4, Taken
<1>6. request'.snapshot = Len(snapshots) + 1
  BY <1>1 DEF Mining
<1>7. SnapshotTaken(data.latest)'
  BY <1>2, <1>5, <1>6 DEF SnapshotTaken
<1> QED
  BY <1>1, <1>2, <1>3, <1>5, <1>7, MiningBegun

------------------------------------------------------------------------------
(* Blocks end                                                              *)

(* The next block of this node, on the state there is.                      *)
LEMMA BlockMined ==
  ASSUME BaseOK(manager, data, snapshots), NEW txs \in SUBSET Txs,
         \A n \in 0..data.latest : TxsOf(data, n) \cap txs = {},
         NEW root, NEW block, block = [number |-> data.latest + 1, stateRoot |-> root, txs |-> txs],
         root \in DOMAIN manager'.stateRootToState, root \in Nat,
         StoreOK(manager'), KeepsRoots(manager, manager'),
         data' = WithReceipts(AddBlock(data, block), block), snapshots' = snapshots
  PROVE  /\ BaseOK(manager', data', snapshots') /\ data'.latest = data.latest + 1
         /\ SameUpTo(manager, data, manager', data', data.latest)
         /\ StateOf(manager', data', data.latest + 1) = manager'.stateRootToState[root]
<1>1. /\ StoreOK(manager) /\ DataOK(data) /\ RootsOK(manager, data) /\ SnapshotsOK(manager, data, snapshots)
      /\ data.latest \in Nat /\ ForkBlockNumber \in Nat /\ ForkBlockNumber <= data.latest
      /\ NumbersOK(data) /\ Len(snapshots) \in Nat
  BY BaseFacts
<1> DEFINE e == WithReceipts(AddBlock(data, block), block)
<1>2. /\ DataOK(e) /\ e.latest = data.latest + 1
      /\ \A n \in DOMAIN data.byNumber : n \in DOMAIN e.byNumber /\ e.byNumber[n] = data.byNumber[n]
      /\ e.byNumber[data.latest + 1] = block
  BY <1>1, BlockAdded
<1>3. data' = e
  OBVIOUS
<1> HIDE DEF e
<1>4. /\ DataOK(data') /\ NumbersOK(data') /\ data'.latest = data.latest + 1 /\ data'.latest \in Nat
      /\ DOMAIN data'.byNumber \subseteq 0..(data.latest + 1)
      /\ \A n \in DOMAIN data.byNumber : n \in DOMAIN data'.byNumber /\ data'.byNumber[n] = data.byNumber[n]
      /\ data'.byNumber[data.latest + 1] = block /\ block.stateRoot = root
  <2>1. NumbersOK(data') /\ DataOK(data')
    BY <1>2, <1>3 DEF DataOK, MapsOK
  <2>2. data'.latest = data.latest + 1
    BY <1>2, <1>3
  <2>4. block.stateRoot = root
    OBVIOUS
  <2>5. /\ \A n \in DOMAIN data.byNumber : n \in DOMAIN data'.byNumber /\ data'.byNumber[n] = data.byNumber[n]
        /\ data'.byNumber[data.latest + 1] = block
    BY <1>2, <1>3
  <2>3. DOMAIN data'.byNumber \subseteq 0..(data.latest + 1) /\ data'.latest \in Nat
    BY <2>1, <2>2 DEF NumbersOK
  <2> QED
    BY <2>1, <2>2, <2>3, <2>4, <2>5
<1>5. SameUpTo(manager, data, manager', data', data.latest)
  <2>1. SameBlocksUpTo(data, data', data.latest)
    BY <1>1, <1>4 DEF SameBlocksUpTo, NumbersOK
  <2>2. data.latest \in ForkBlockNumber..data.latest
    BY <1>1
  <2>3. \A n \in ForkBlockNumber..data.latest : StateOf(manager', data', n) = StateOf(manager, data, n)
    BY <2>1, <2>2, <1>1, StatesKept
  <2>4. ASSUME NEW n \in 0..data.latest PROVE TxsOf(data', n) = TxsOf(data, n)
    <3>1. CASE IsRemote(n)
      BY <3>1 DEF TxsOf
    <3>2. CASE ~IsRemote(n)
      <4>1. n \in (ForkBlockNumber + 1)..data.latest
        BY <3>2, <1>1 DEF IsRemote
      <4> QED
        BY <4>1, <3>2, <2>1 DEF TxsOf, SameBlocksUpTo
    <3> QED
      BY <3>1, <3>2
  <2> QED
    BY <2>3, <2>4 DEF SameUpTo
<1>6. block \in Block
  BY <1>1 DEF Block
<1>7. RootsOK(manager', data')
  <2>1. ASSUME NEW n \in DOMAIN data'.byNumber PROVE data'.byNumber[n] \in Block
    <3>1. CASE IsRemote(n)
      <4>1. n \in Nat /\ data'.byNumber[n] = RemoteBlock(n)
        BY <1>4, <3>1 DEF NumbersOK
      <4>2. n \in 0..ForkBlockNumber
        BY <4>1, <3>1, <1>1 DEF IsRemote
      <4> QED
        BY <4>1, <4>2, RemoteIsBlock
    <3>2. CASE n = data.latest + 1
      BY <3>2, <1>4, <1>6
    <3>3. CASE ~IsRemote(n) /\ n # data.latest + 1
      <4>1. n \in 0..(data.latest + 1) /\ ~(n <= ForkBlockNumber) /\ n # data.latest + 1
        BY <1>4, <3>3 DEF IsRemote
      <4>3. n \in (ForkBlockNumber + 1)..data.latest
        BY <4>1, <1>1
      <4>2. n \in DOMAIN data.byNumber
        BY <4>3, <1>1 DEF NumbersOK
      <4> QED
        BY <4>2, <1>1, <1>4 DEF RootsOK
    <3> QED
      BY <3>1, <3>2, <3>3
  <2>2. ASSUME NEW n \in (ForkBlockNumber + 1)..data'.latest
        PROVE  data'.byNumber[n].stateRoot \in DOMAIN manager'.stateRootToState
    <3>1. CASE n = data.latest + 1
      BY <3>1, <1>4
    <3>2. CASE n # data.latest + 1
      <4>1. n \in (ForkBlockNumber + 1)..data.latest
        BY <1>1, <1>4, <3>2
      <4>2. n \in DOMAIN data.byNumber
        BY <4>1, <1>1 DEF NumbersOK
      <4> QED
        BY <4>1, <4>2, <1>1, <1>4 DEF RootsOK, KeepsRoots
    <3> QED
      BY <3>1, <3>2
  <2> QED
    BY <2>1, <2>2 DEF RootsOK
<1>8. SnapshotsOK(manager', data', snapshots')
  <2>1. snapshots' \in Seq([latestBlock : Block, stateRoot : Nat]) /\ snapshots' = snapshots
    BY <1>1 DEF SnapshotsOK
  <2>2. \A i \in 1..Len(snapshots) : snapshots[i] = snapshots[i] /\ snapshots[i].latestBlock.number <= data.latest
    BY <1>1 DEF SnapshotsOK
  <2>3. data'.latest \in Nat /\ data.latest <= data'.latest /\ Len(snapshots) <= Len(snapshots)
    BY <1>1, <1>4
  <2> QED
    BY <1>1, <1>5, <2>1, <2>2, <2>3, SnapshotsKept
<1>9. StateOf(manager', data', data.latest + 1) = manager'.stateRootToState[root]
  <2>1. data.latest + 1 # ForkBlockNumber
    BY <1>1
  <2> QED
    <3>1. StateOf(manager', data', data.latest + 1)
            = manager'.stateRootToState[data'.byNumber[data.latest + 1].stateRoot]
      BY <2>1 DEF StateOf
    <3> QED
      BY <3>1, <1>4
<1> QED
  BY <1>4, <1>5, <1>7, <1>8, <1>9 DEF BaseOK

LEMMA BuildBlockStep ==
  ASSUME NodeInv, BuildBlock
  PROVE  /\ NodeInv' /\ VisibleBlock' \in {VisibleBlock, VisibleBlock + 1}
         /\ SameUpTo(manager, data, manager', data', VisibleBlock)
<1> DEFINE g == GetStateRoot(manager)
           root == g.stateRoot
           block == [number |-> data.latest + 1, stateRoot |-> root, txs |-> request.txs]
           w == Commit(g)
<1>1. /\ request.op = "mine" /\ request.depth = 0 /\ manager' = w
      /\ data' = WithReceipts(AddBlock(data, block), block) /\ snapshots' = snapshots
      /\ request' = IF request.snapshot = Nothing THEN Idle
                    ELSE [op |-> "query", snapshot |-> request.snapshot, number |-> data'.latest,
                          stateRoot |-> Nothing]
  BY DEF BuildBlock
<1>2. /\ Mines /\ BaseOK(manager, data, snapshots) /\ StoreOK(manager) /\ request.txs \in SUBSET Txs
      /\ Len(manager.checkpoints) = 1
      /\ \A n \in 0..data.latest : TxsOf(data, n) \cap request.txs = {}
  BY <1>1, MineFacts
<1>3. data.latest \in Nat /\ ForkBlockNumber \in Nat /\ ForkBlockNumber <= data.latest
      /\ Len(snapshots) \in Nat /\ SnapshotsOK(manager, data, snapshots)
  BY <1>2, BaseFacts
<1>4. /\ StoreOK(g) /\ KeepsRoots(manager, g) /\ SameContext(manager, g)
      /\ g.state = manager.state /\ g.checkpoints = manager.checkpoints
      /\ g.stateRootToState[g.stateRoot] = manager.state
  BY <1>2, GetStateRootKeeps
<1>5. root \in DOMAIN g.stateRootToState /\ root \in Nat
  BY <1>4 DEF StoreOK
<1> HIDE DEF g
<1>6. /\ StoreOK(w) /\ w.stateRootToState = g.stateRootToState /\ SameContext(g, w)
      /\ w.state = g.state /\ w.checkpoints = <<>>
  <2>1. Len(g.checkpoints) = 1 /\ Len(g.checkpoints) > 0
    <3>1. g.checkpoints = manager.checkpoints
      BY <1>4
    <3> QED
      BY <3>1, <1>2
  <2>2. /\ StoreOK(w) /\ w.stateRootToState = g.stateRootToState /\ SameContext(g, w)
        /\ w.state = g.state /\ Len(w.checkpoints) = Len(g.checkpoints) - 1
    BY <2>1, <1>4, CommitKeeps
  <2> HIDE DEF w
  <2>3. Len(w.checkpoints) = 0 /\ w.checkpoints \in Seq(DOMAIN w.stateRootToState)
    BY <2>2, <1>2, <1>4 DEF StoreOK
  <2> QED
    BY <2>2, <2>3, EmptySeq
<1> HIDE DEF w
<1>7. /\ StoreOK(manager') /\ KeepsRoots(manager, manager') /\ SameContext(manager, manager')
      /\ root \in DOMAIN manager'.stateRootToState /\ manager'.checkpoints = <<>>
      /\ manager'.state = manager'.stateRootToState[root]
  BY <1>1, <1>4, <1>5, <1>6 DEF KeepsRoots, SameContext
<1> HIDE DEF root
<1>8. /\ BaseOK(manager', data', snapshots') /\ data'.latest = data.latest + 1
      /\ SameUpTo(manager, data, manager', data', data.latest)
      /\ StateOf(manager', data', data.latest + 1) = manager'.stateRootToState[root]
  <2>1. block = [number |-> data.latest + 1, stateRoot |-> root, txs |-> request.txs]
    OBVIOUS
  <2> HIDE DEF block
  <2> QED
    BY <1>1, <1>2, <1>5, <1>7, <2>1, BlockMined
<1>9. Home(manager')
  BY <1>2, <1>7 DEF Mines, Home, SameContext
<1>10. CASE request.snapshot = Nothing
  <2>1. request' = Idle /\ VisibleBlock = data.latest
    BY <1>1, <1>10 DEF VisibleBlock, Pending
  <2>2. VisibleBlock' = data.latest + 1
    BY <2>1, <1>8 DEF VisibleBlock, Pending
  <2>3. Rests'
    BY <2>1, <1>7, <1>8, <1>9 DEF Rests
  <2> QED
    BY <2>1, <2>2, <2>3, <1>8 DEF NodeInv
<1>11. CASE request.snapshot # Nothing
  <2>1. request' = [op |-> "query", snapshot |-> request.snapshot, number |-> data.latest + 1, stateRoot |-> Nothing]
    BY <1>1, <1>8, <1>11
  <2>2. /\ request' \in [op : {"query"}, snapshot : {request'.snapshot}, number : {request'.number},
                         stateRoot : {request'.stateRoot}]
        /\ request'.snapshot = request.snapshot /\ request'.number = data.latest + 1
        /\ request'.stateRoot = Nothing /\ request' # Idle
    BY <2>1 DEF Idle
  <2>3. SnapshotTaken(data.latest - 1)'
    <3>1. data'.latest - 1 = data.latest
      BY <1>3, <1>8
    <3> QED
      BY <3>1, <2>2, <1>1, <1>2 DEF SnapshotTaken, Mines
  <2>4. InContext(manager', data', request'.number, manager'.state, request'.stateRoot)
    BY <2>2, <1>7, <1>8, <1>9 DEF InContext
  <2>5. Queries'
    BY <2>2, <2>3, <2>4, <1>7 DEF Queries
  <2>6. request # Idle /\ Len(snapshots) \in 1..Len(snapshots)
        /\ VisibleBlock = data.latest
    BY <1>2, <1>3, <1>11 DEF VisibleBlock, Pending, Mines, Idle, SnapshotTaken
  <2>7. VisibleBlock' = data.latest
    BY <2>2, <1>1, <1>2, <1>11 DEF VisibleBlock, Pending, Mines, SnapshotTaken
  <2> QED
    BY <2>5, <2>6, <2>7, <1>8 DEF NodeInv
<1> QED
  BY <1>10, <1>11

LEMMA FailMineStep ==
  ASSUME NodeInv, FailMine
  PROVE  NodeInv' /\ HistoryKept
<1> DEFINE inner == IF request.depth = 1 THEN Revert(manager) ELSE manager
           m == Revert(inner)
<1>1. /\ request.op = "mine" /\ request.depth \in {0, 1} /\ request' = Idle
      /\ IF request.snapshot # Nothing THEN RevertedToSnapshot(request.snapshot, m)
         ELSE manager' = m /\ data' = data /\ snapshots' = snapshots
  BY DEF FailMine
<1>2. /\ Mines /\ BaseOK(manager, data, snapshots) /\ StoreOK(manager)
      /\ Len(manager.checkpoints) = request.depth + 1 /\ Len(manager.checkpoints) > 0
      /\ KeepsRoots(manager, manager)
  BY <1>1, MineFacts
<1>3. /\ StoreOK(inner) /\ inner.stateRootToState = manager.stateRootToState /\ SameContext(manager, inner)
      /\ Len(inner.checkpoints) = 1 /\ inner.checkpoints[1] = manager.checkpoints[1]
  <2>1. CASE request.depth = 0
    BY <2>1, <1>2 DEF SameContext
  <2>2. CASE request.depth = 1
    <3> DEFINE w == Revert(manager)
    <3>1. /\ StoreOK(w) /\ w.stateRootToState = manager.stateRootToState /\ SameContext(manager, w)
          /\ Len(w.checkpoints) = Len(manager.checkpoints) - 1
          /\ \A i \in 1..Len(manager.checkpoints) - 1 : w.checkpoints[i] = manager.checkpoints[i]
      BY <1>2, RevertKeeps
    <3>2. inner = w
      BY <2>2
    <3> HIDE DEF w, inner
    <3>3. Len(w.checkpoints) = 1 /\ w.checkpoints[1] = manager.checkpoints[1]
      BY <3>1, <2>2, <1>2
    <3> QED
      BY <3>1, <3>2, <3>3
  <2> QED
    BY <2>1, <2>2, <1>1
<1> HIDE DEF inner
<1>4. /\ StoreOK(m) /\ m.stateRootToState = manager.stateRootToState /\ SameContext(manager, m)
      /\ m.state = manager.stateRootToState[manager.checkpoints[1]] /\ m.checkpoints = <<>>
  <2>1. /\ StoreOK(m) /\ m.stateRootToState = inner.stateRootToState /\ SameContext(inner, m)
        /\ m.state = inner.stateRootToState[inner.checkpoints[Len(inner.checkpoints)]]
        /\ Len(m.checkpoints) = Len(inner.checkpoints) - 1
    BY <1>3, RevertKeeps
  <2> HIDE DEF m
  <2>2. Len(m.checkpoints) = 0 /\ m.checkpoints \in Seq(DOMAIN m.stateRootToState)
    BY <2>1, <1>3 DEF StoreOK
  <2>3. m.checkpoints = <<>>
    BY <2>2, EmptySeq
  <2> QED
    BY <2>1, <2>3, <1>3 DEF SameContext
<1> HIDE DEF m
<1>5. KeepsRoots(manager, m) /\ Home(m) /\ m.state = StateOf(manager, data, data.latest)
  BY <1>2, <1>4, KeepsItsRoots DEF Home, SameContext, Mines
<1>6. CASE request.snapshot # Nothing
  <2> DEFINE i == Len(snapshots)
  <2>1. i \in 1..Len(snapshots) /\ request.snapshot = i /\ request # Idle
    BY <1>2, <1>6, BaseFacts DEF SnapshotTaken, Mines, Idle
  <2>2. RevertedToSnapshot(i, m)
    BY <2>1, <1>1, <1>6
  <2>3. VisibleBlock = snapshots[i].latestBlock.number
    BY <1>6, <2>1 DEF VisibleBlock, Pending
  <2> QED
    BY <2>1, <2>2, <2>3, <1>1, <1>2, <1>4, <1>5, Reverted DEF HistoryKept
<1>7. CASE request.snapshot = Nothing
  <2>1. VisibleBlock = data.latest
    BY <1>7 DEF VisibleBlock, Pending
  <2> QED
    BY <2>1, <1>1, <1>2, <1>4, <1>5, <1>7, Resting DEF HistoryKept
<1> QED
  BY <1>6, <1>7

------------------------------------------------------------------------------
(* Queries and calls                                                       *)

(* setBlockContext: the state of the block, or that of the remote chain.    *)
LEMMA ContextOf ==
  ASSUME NEW m, StoreOK(m), Home(m), NEW d, NumbersOK(d), RootsOK(m, d),
         NEW n \in DOMAIN d.byNumber, NEW w, w = SetBlockContext(m, d.byNumber[n].stateRoot, n)
  PROVE  /\ StoreOK(w) /\ KeepsRoots(m, w) /\ w.checkpoints = m.checkpoints
         /\ IF n < ForkBlockNumber THEN w.state = NoState /\ w.contextBlockNumber = n /\ w.contextChanged
            ELSE w.state = StateOf(w, d, n) /\ Home(w)
<1>1. ForkBlockNumber \in Nat /\ d.latest \in Nat /\ n \in Nat /\ n \in 0..d.latest
  BY ForkAssumption DEF NumbersOK
<1>2. CASE n < ForkBlockNumber
  <2> DEFINE c == SetBlockContext(m, n, n)
  <2>1. d.byNumber[n] = RemoteBlock(n)
    BY <1>1, <1>2 DEF NumbersOK, IsRemote
  <2>2. w = c
    BY <2>1 DEF RemoteBlock, RemoteRoot
  <2>3. /\ StoreOK(c) /\ KeepsRoots(m, c) /\ c.checkpoints = m.checkpoints
        /\ c.state = NoState /\ c.contextBlockNumber = n /\ c.contextChanged
    BY <1>1, <1>2, PastContext
  <2> HIDE DEF c
  <2> QED
    BY <1>2, <2>2, <2>3
<1>3. CASE n >= ForkBlockNumber
  <2> DEFINE root == IF n = ForkBlockNumber THEN InitialStateRoot ELSE d.byNumber[n].stateRoot
             c == SetStateRoot(m, root)
  <2>1. w = c
    <3>1. CASE n = ForkBlockNumber
      <4>1. ~(n > ForkBlockNumber) /\ root = InitialStateRoot
        BY <3>1, <1>1
      <4> HIDE DEF root
      <4>2. c = SetStateRoot(m, InitialStateRoot)
        BY <4>1
      <4> HIDE DEF c
      <4> QED
        BY <3>1, <4>1, <4>2 DEF SetBlockContext
    <3>2. CASE n > ForkBlockNumber
      BY <3>2, <1>1 DEF SetBlockContext
    <3> QED
      BY <3>1, <3>2, <1>1, <1>3
  <2>2. root \in DOMAIN m.stateRootToState /\ m.stateRootToState[root] = StateOf(m, d, n)
    <3>1. CASE n = ForkBlockNumber
      BY <3>1 DEF StoreOK, InitialStateRoot, StateOf
    <3>2. CASE n # ForkBlockNumber
      <4>1. n \in (ForkBlockNumber + 1)..d.latest
        BY <3>2, <1>1, <1>3
      <4> QED
        BY <3>2, <4>1 DEF RootsOK, StateOf
    <3> QED
      BY <3>1, <3>2
  <2> HIDE DEF root
  <2>3. /\ StoreOK(c) /\ c.stateRootToState = m.stateRootToState
        /\ c.checkpoints = m.checkpoints /\ SameContext(m, c) /\ c.state = m.stateRootToState[root]
    BY <2>2, SetStateRootKeeps
  <2> HIDE DEF c
  <2>4. StateOf(c, d, n) = StateOf(m, d, n)
    BY <2>3 DEF StateOf
  <2> QED
    BY <1>1, <1>3, <2>1, <2>2, <2>3, <2>4, KeepsItsRoots DEF Home, SameContext
<1> QED
  BY <1>1, <1>2, <1>3

LEMMA BeginQueryStep ==
  ASSUME NodeInv, BeginQuery
  PROVE  NodeInv' /\ HistoryKept
<1>1. Rests /\ BaseOK(manager, data, snapshots) /\ request = Idle /\ snapshots' = snapshots
  BY RequestKinds DEF NodeInv, BeginQuery
<1>2. /\ StoreOK(manager) /\ DataOK(data) /\ data.latest \in Nat /\ ForkBlockNumber \in Nat
      /\ ForkBlockNumber <= data.latest
  BY <1>1, BaseFacts
<1> DEFINE g == GetStateRoot(manager)
<1>3. PICK n \in 0..data.latest :
        IF n = data.latest
          THEN /\ request' = [op |-> "query", snapshot |-> Nothing, number |-> n, stateRoot |-> Nothing]
               /\ manager' = manager /\ data' = data
          ELSE /\ request' = [op |-> "query", snapshot |-> Nothing, number |-> n, stateRoot |-> g.stateRoot]
               /\ manager' = SetBlockContext(g, FetchBlockNumber(data, n).byNumber[n].stateRoot, n)
               /\ data' = FetchBlockNumber(data, n)
  BY DEF BeginQuery
<1>4. data.latest \in ForkBlockNumber..data.latest
  BY <1>2
<1>5. VisibleBlock = data.latest
  BY <1>1 DEF VisibleBlock, Pending
<1>6. CASE n = data.latest
  <2>1. /\ request' \in [op : {"query"}, snapshot : {request'.snapshot}, number : {request'.number},
                         stateRoot : {request'.stateRoot}]
        /\ request'.snapshot = Nothing /\ request'.number = n /\ request'.stateRoot = Nothing
        /\ manager' = manager /\ data' = data
    BY <1>3, <1>6
  <2>2. /\ BaseOK(manager', data', snapshots') /\ SameUpTo(manager, data, manager', data', data.latest)
        /\ \A k \in ForkBlockNumber..data.latest : StateOf(manager', data', k) = StateOf(manager, data, k)
    BY <2>1, <1>1, <1>2, OnlyManager DEF KeepsRoots
  <2>3. InContext(manager', data', request'.number, manager'.state, request'.stateRoot)
    BY <2>1, <2>2, <1>1, <1>4, <1>6 DEF InContext, Rests, Home
  <2>4. Queries'
    BY <2>1, <2>3, <1>1 DEF Queries, SnapshotTaken, Rests
  <2> QED
    BY <2>1, <2>2, <2>4, <1>5 DEF NodeInv, HistoryKept, VisibleBlock, Pending
<1>7. CASE n # data.latest
  <2>1. /\ request' \in [op : {"query"}, snapshot : {request'.snapshot}, number : {request'.number},
                         stateRoot : {request'.stateRoot}]
        /\ request'.snapshot = Nothing /\ request'.number = n /\ request'.stateRoot = g.stateRoot
        /\ manager' = SetBlockContext(g, data'.byNumber[n].stateRoot, n)
        /\ data' = FetchBlockNumber(data, n)
    BY <1>3, <1>7
  <2>2. Fetched(data, data') /\ n \in DOMAIN data'.byNumber
    BY <2>1, <1>2, FetchBlockNumberKeeps
  <2>3. /\ StoreOK(g) /\ KeepsRoots(manager, g) /\ SameContext(manager, g)
        /\ g.checkpoints = manager.checkpoints /\ g.stateRootToState[g.stateRoot] = manager.state
    BY <1>2, GetStateRootKeeps
  <2> HIDE DEF g
  <2>4. BaseOK(g, data', snapshots) /\ Home(g)
    BY <2>2, <2>3, <1>1, BaseKept DEF Rests, Home, SameContext
  <2>5. RootsOK(g, data') /\ NumbersOK(data')
    BY <2>4 DEF BaseOK, DataOK, MapsOK
  <2>6. /\ StoreOK(manager') /\ KeepsRoots(g, manager') /\ manager'.checkpoints = g.checkpoints
        /\ IF n < ForkBlockNumber
             THEN manager'.state = NoState /\ manager'.contextBlockNumber = n /\ manager'.contextChanged
             ELSE manager'.state = StateOf(manager', data', n) /\ Home(manager')
    BY <2>1, <2>2, <2>3, <2>4, <2>5, ContextOf
  <2>7. KeepsRoots(manager, manager')
    BY <2>3, <2>6, KeepsAll
  <2>8. /\ BaseOK(manager', data', snapshots') /\ SameUpTo(manager, data, manager', data', data.latest)
        /\ data'.latest = data.latest
    BY <2>2, <2>6, <2>7, <1>1, BaseKept
  <2>9. /\ g.stateRoot \in Nat /\ g.stateRoot \in DOMAIN manager'.stateRootToState
        /\ manager'.stateRootToState[g.stateRoot] = StateOf(manager', data', data'.latest)
    <3>1. g.stateRoot \in DOMAIN g.stateRootToState /\ g.stateRoot \in Nat
      BY <2>3 DEF StoreOK
    <3>2. manager.state = StateOf(manager', data', data.latest)
      BY <1>1, <1>4, <2>8 DEF Rests, SameUpTo
    <3> QED
      BY <3>1, <3>2, <2>3, <2>6, <2>8 DEF KeepsRoots
  <2>10. n \in 0..(data'.latest - 1)
    BY <1>2, <1>7, <2>8
  <2>11. InContext(manager', data', n, manager'.state, g.stateRoot)
    BY <2>6, <2>9, <2>10, NothingIsNoNumber DEF InContext
  <2>12. Queries'
    BY <2>1, <2>3, <2>6, <2>11, <1>1 DEF Queries, SnapshotTaken, Rests
  <2>13. VisibleBlock' = data.latest
    BY <2>1, <2>8 DEF VisibleBlock, Pending
  <2> QED
    BY <2>8, <2>12, <2>13, <1>5 DEF NodeInv, HistoryKept
<1> QED
  BY <1>6, <1>7

LEMMA BeginCallStep ==
  ASSUME NodeInv, BeginCall
  PROVE  NodeInv' /\ HistoryKept
<1> DEFINE g == GetStateRoot(manager)
           w == Checkpoint(g)
<1>1. /\ Queries /\ request # Idle /\ BaseOK(manager, data, snapshots)
      /\ manager' = w /\ data' = data /\ snapshots' = snapshots
      /\ request' = [op |-> "call", snapshot |-> request.snapshot, number |-> request.number,
                     stateRoot |-> request.stateRoot, before |-> g.stateRoot, depth |-> 1, writes |-> 0]
  BY RequestKinds DEF NodeInv, BeginCall
<1>2. /\ StoreOK(manager) /\ data.latest \in Nat /\ ForkBlockNumber \in Nat /\ ForkBlockNumber <= data.latest
      /\ SnapshotsOK(manager, data, snapshots) /\ Len(snapshots) \in Nat
  BY <1>1, BaseFacts
<1>3. /\ StoreOK(g) /\ KeepsRoots(manager, g) /\ SameContext(manager, g)
      /\ g.checkpoints = manager.checkpoints /\ g.stateRootToState[g.stateRoot] = manager.state
  BY <1>2, GetStateRootKeeps
<1>4. g.stateRoot \in DOMAIN g.stateRootToState
  BY <1>3 DEF StoreOK
<1> HIDE DEF g
<1>5. g.checkpoints = <<>>
  BY <1>1, <1>3 DEF Queries
<1>6. StoreOK(w) /\ KeepsRoots(g, w) /\ SameContext(g, w) /\ Len(w.checkpoints) = 1
  BY <1>3, <1>5, FirstCheckpoint
<1> HIDE DEF w
<1>7. /\ KeepsRoots(manager, manager') /\ SameContext(manager, manager') /\ StoreOK(manager')
      /\ g.stateRoot \in DOMAIN manager'.stateRootToState
      /\ manager'.stateRootToState[g.stateRoot] = manager.state
      /\ Len(manager'.checkpoints) = 1
  BY <1>1, <1>3, <1>4, <1>6 DEF KeepsRoots, SameContext
<1>8. /\ request' \in [op : {"call"}, snapshot : {request'.snapshot}, number : {request'.number},
                       stateRoot : {request'.stateRoot}, before : {request'.before}, depth : 1..2,
                       writes : {request'.writes}]
      /\ request'.snapshot = request.snapshot /\ request'.number = request.number
      /\ request'.stateRoot = request.stateRoot /\ request'.before = g.stateRoot /\ request'.depth = 1
      /\ request' # Idle
  BY <1>1 DEF Idle
<1>9. /\ BaseOK(manager', data', snapshots') /\ SameUpTo(manager, data, manager', data', data.latest)
      /\ \A n \in ForkBlockNumber..data.latest : StateOf(manager', data', n) = StateOf(manager, data, n)
  BY <1>1, <1>7, OnlyManager
<1>10. InContext(manager', data', request.number, manager.state, request.stateRoot)
  BY <1>1, <1>2, <1>7, <1>9, ContextStays DEF Queries
<1>11. SnapshotTaken(data.latest - 1)' /\ (request'.snapshot # Nothing => request'.stateRoot = Nothing)
  BY <1>1, <1>8 DEF Queries, SnapshotTaken
<1>12. Calls'
  BY <1>7, <1>8, <1>10, <1>11 DEF Calls
<1>13. VisibleBlock' = VisibleBlock
  BY <1>1, <1>8 DEF VisibleBlock, Pending
<1>14. VisibleBlock \in ForkBlockNumber..data.latest
  <2>1. CASE request.snapshot = Nothing
    BY <2>1, <1>2 DEF VisibleBlock, Pending
  <2>2. CASE request.snapshot # Nothing
    <3>1. Len(snapshots) \in 1..Len(snapshots) /\ VisibleBlock = snapshots[Len(snapshots)].latestBlock.number
      BY <2>2, <1>1, <1>2 DEF VisibleBlock, Pending, Queries, SnapshotTaken
    <3> QED
      BY <3>1, <1>2 DEF SnapshotsOK
  <2> QED
    BY <2>1, <2>2
<1>15. SameUpTo(manager, data, manager', data', VisibleBlock)
  BY <1>1, <1>9, <1>14, UpToVisible
<1> QED
  BY <1>9, <1>12, <1>13, <1>15 DEF NodeInv, HistoryKept

------------------------------------------------------------------------------
(* The invariant and what follows from it                                  *)

LEMMA FirstBlocks ==
  ASSUME data = NewBlockchain
  PROVE  DataOK(data) /\ data.latest = ForkBlockNumber /\ data.byNumber = None
<1>1. /\ data.latest = ForkBlockNumber /\ data.byNumber = None /\ data.byHash = {} /\ data.byTx = None
      /\ data.transactions = {} /\ data.receipts = None /\ data.totalDifficulty = None /\ ShapeOK(data)
  BY DEF NewBlockchain, ShapeOK
<1>2. DOMAIN None = {}
  BY DEF None
<1>3. ForkBlockNumber \in Nat /\ ~(ForkBlockNumber + 1 <= ForkBlockNumber)
  BY ForkAssumption
<1>4. (ForkBlockNumber + 1)..ForkBlockNumber = {}
  BY <1>3
<1>5. NumbersOK(data) /\ BlocksOK(data) /\ TransactionsOK(data) /\ ReceiptsFound(data)
  BY <1>1, <1>2, <1>3, <1>4 DEF NumbersOK, BlocksOK, TransactionsOK, ReceiptsFound
<1>6. ReceiptsKept(data, data.latest)
  BY <1>1, <1>4 DEF ReceiptsKept
<1>7. MinedOnce(data)
  <2>1. \A n \in 0..ForkBlockNumber : TxsOf(data, n) = RemoteTxs[n] /\ n \in DOMAIN RemoteTxs
    BY RemoteTxsType DEF TxsOf
  <2> QED
    BY <2>1, <1>1, RemoteAssumption DEF MinedOnce
<1> QED
  BY <1>1, <1>5, <1>6, <1>7 DEF DataOK, MapsOK

LEMMA NodeInvInit ==
  ASSUME NodeInit
  PROVE  NodeInv
<1>1. /\ manager = NewStateManager /\ data = NewBlockchain /\ snapshots = <<>> /\ request = Idle
  BY DEF NodeInit
<1>2. DataOK(data) /\ data.latest = ForkBlockNumber /\ DOMAIN data.byNumber = {}
  BY <1>1, FirstBlocks DEF None
<1>3. ForkBlockNumber \in Nat /\ ~(ForkBlockNumber + 1 <= ForkBlockNumber)
  BY ForkAssumption
<1>4. /\ manager.state = GenesisState /\ manager.stateRoot = ForkBlockNumber
      /\ manager.stateRootToState = [root \in {ForkBlockNumber} |-> GenesisState]
      /\ manager.checkpoints = <<>> /\ Home(manager)
      /\ manager \in [state : {manager.state}, stateRoot : {manager.stateRoot},
                      stateRootToState : {manager.stateRootToState}, checkpoints : {manager.checkpoints},
                      contextBlockNumber : {manager.contextBlockNumber},
                      contextChanged : {manager.contextChanged}]
  BY <1>1 DEF NewStateManager, InitialStateRoot, Home
<1>5. StoreOK(manager)
  <2>1. \E root \in DOMAIN manager.stateRootToState : \A other \in DOMAIN manager.stateRootToState : other <= root
    BY <1>3, <1>4
  <2>2. <<>> \in Seq(DOMAIN manager.stateRootToState)
    OBVIOUS
  <2> QED
    BY <1>3, <1>4, <2>1, <2>2 DEF StoreOK
<1>6. RootsOK(manager, data)
  BY <1>2, <1>3 DEF RootsOK
<1>7. SnapshotsOK(manager, data, snapshots)
  BY <1>1 DEF SnapshotsOK
<1>8. Rests
  BY <1>1, <1>2, <1>4 DEF Rests, StateOf
<1> QED
  BY <1>2, <1>5, <1>6, <1>7, <1>8 DEF NodeInv, BaseOK

LEMMA NodeInvSame ==
  ASSUME NodeInv, UNCHANGED vars
  PROVE  NodeInv'
BY DEF vars, NodeInv, BaseOK, StoreOK, DataOK, RootsOK, SnapshotsOK, Rests, Mines, Queries, Calls,
       SnapshotTaken, InContext, Home

(* The questions, each of which may fetch.                                  *)
LEMMA AskSteps ==
  ASSUME NodeInv, AskBlock \/ AskBlockByHash \/ AskTransaction \/ AskBlockOf \/ AskReceipt
  PROVE  NodeInv' /\ HistoryKept
<1>1. DataOK(data)
  BY BaseFacts DEF NodeInv
<1>2. CASE AskBlock
  <2>1. PICK n \in 0..MaxBlockNumber : Ask(FetchBlockNumber(data, n))
    BY <1>2 DEF AskBlock
  <2>2. n \in Nat
    OBVIOUS
  <2> QED
    BY <1>1, <2>1, <2>2, FetchBlockNumberKeeps, Asked
<1>3. CASE AskBlockByHash
  BY <1>1, <1>3, FetchBlockKeeps, Asked DEF AskBlockByHash
<1>4. CASE AskTransaction
  BY <1>1, <1>4, FetchTransactionKeeps, Asked DEF AskTransaction
<1>5. CASE AskBlockOf
  BY <1>1, <1>5, FetchBlockOfKeeps, Asked DEF AskBlockOf
<1>6. CASE AskReceipt
  BY <1>1, <1>6, FetchReceiptKeeps, Asked DEF AskReceipt
<1> QED
  BY <1>2, <1>3, <1>4, <1>5, <1>6

LEMMA ReadSteps ==
  ASSUME NodeInv, ReadAccount \/ FailRead
  PROVE  NodeInv' /\ HistoryKept
BY ReadsStep DEF ReadAccount, FailRead

(* All but the end of a block and the revert to a snapshot leave the        *)
(* history as it is.                                                        *)
LEMMA NodeSteps ==
  ASSUME NodeInv, Next
  PROVE  /\ NodeInv'
         /\ HistoryKept \/ BuildBlock \/ RevertToSnapshot
BY TakeSnapshotStep, RevertToSnapshotStep, WriteSteps, BeginMessageStep, EndMessageStep, BeginMineStep,
   BeginPendingStep, BeginTransactionStep, EndTransactionStep, BuildBlockStep, FailMineStep,
   BeginQueryStep, ReadSteps, BeginCallStep, EndCallStep, AskSteps DEF Next

(* A state root stands for one state for ever, the state manager and the    *)
(* chain agree on the state of every block and snapshot, and every request  *)
(* knows its way back.                                                      *)
THEOREM ForkInvariant == Spec => []NodeInv
<1>1. NodeInit => NodeInv
  BY NodeInvInit
<1>2. NodeInv /\ [Next]_vars => NodeInv'
  BY NodeSteps, NodeInvSame
<1> QED
  BY <1>1, <1>2, PTL DEF Spec
------------------------------------------------------------------------------
AccountsOf(m, d, n) ==
  IF n < ForkBlockNumber THEN RemoteAccounts[n] ELSE Resolved(StateOf(m, d, n), ForkBlockNumber)

LEMMA BlockOfHistoryIs ==
  ASSUME NEW n \in Nat
  PROVE  BlockOfHistory(n) = [txs |-> TxsOf(data, n), accounts |-> AccountsOf(manager, data, n)]
<1>1. ForkBlockNumber \in Nat
  BY ForkAssumption
<1>2. CASE n < ForkBlockNumber
  BY <1>1, <1>2 DEF BlockOfHistory, TxsOf, IsRemote, AccountsOf
<1>3. CASE n = ForkBlockNumber
  BY <1>1, <1>3 DEF BlockOfHistory, TxsOf, IsRemote, AccountsOf, StateOf
<1>4. CASE n > ForkBlockNumber
  BY <1>1, <1>4 DEF BlockOfHistory, TxsOf, IsRemote, AccountsOf, StateOf
<1> QED
  BY <1>1, <1>2, <1>3, <1>4

LEMMA IndexesKept ==
  ASSUME NodeInv
  PROVE  IndexesAgree
<1>1. DataOK(data) /\ data.latest \in Nat /\ ForkBlockNumber \in Nat /\ NumbersOK(data)
  BY BaseFacts DEF NodeInv
<1>2. BlocksOK(data) /\ TransactionsOK(data) /\ ReceiptsFound(data)
  BY <1>1 DEF DataOK, MapsOK
<1>3. (ForkBlockNumber + 1)..data.latest = {n \in DOMAIN data.byNumber : ~IsRemote(n)}
  <2>1. \A n \in (ForkBlockNumber + 1)..data.latest : n \in DOMAIN data.byNumber /\ ~(n <= ForkBlockNumber)
    BY <1>1 DEF NumbersOK
  <2>2. \A n \in DOMAIN data.byNumber : n \in 0..data.latest
    BY <1>1 DEF NumbersOK
  <2>3. \A n \in 0..data.latest : ~(n <= ForkBlockNumber) => n \in (ForkBlockNumber + 1)..data.latest
    BY <1>1
  <2> QED
    BY <2>1, <2>2, <2>3 DEF IsRemote
<1>4. ASSUME NEW b \in data.byHash
      PROVE  /\ data.totalDifficulty[b] = Difficulty * (b.number + 1)
             /\ \A tx \in b.txs : tx \in data.transactions /\ data.byTx[tx] = b
  BY <1>2 DEF BlocksOK, TransactionsOK
<1>5. ASSUME NEW tx \in DOMAIN data.byTx
      PROVE  data.byTx[tx] \in data.byHash /\ tx \in data.byTx[tx].txs
  BY <1>2 DEF BlocksOK, TransactionsOK
<1>6. ASSUME NEW tx \in data.transactions
      PROVE  tx \in PastTxs
  <2>1. PICK n \in 0..data.latest : tx \in TxsOf(data, n)
    BY <1>2 DEF TransactionsOK
  <2>2. CASE IsRemote(n)
    <3>1. n \in 0..ForkBlockNumber
      BY <2>2, <1>1 DEF IsRemote
    <3> QED
      BY <2>1, <2>2, <3>1 DEF TxsOf, PastTxs
  <2>3. CASE ~IsRemote(n)
    <3>1. n \in DOMAIN data.byNumber
      BY <2>3, <1>1 DEF IsRemote, NumbersOK
    <3> QED
      BY <2>1, <2>3, <3>1 DEF TxsOf, PastTxs, LocalTxs
  <2> QED
    BY <2>2, <2>3
<1>7. \A n \in (ForkBlockNumber + 1)..data.latest : data.byNumber[n].txs \subseteq DOMAIN data.receipts
  BY <1>1 DEF DataOK, ReceiptsKept
<1>8. ASSUME NEW tx \in DOMAIN data.receipts
      PROVE  \E n \in 0..data.latest :
               tx \in BlockOfHistory(n).txs /\ data.receipts[tx] = [tx |-> tx, number |-> n]
  <2>1. PICK n \in 0..data.latest : tx \in TxsOf(data, n) /\ data.receipts[tx] = [tx |-> tx, number |-> n]
    BY <1>2 DEF ReceiptsFound
  <2>2. BlockOfHistory(n).txs = TxsOf(data, n)
    BY BlockOfHistoryIs
  <2> QED
    BY <2>1, <2>2
<1> QED
  BY <1>2, <1>3, <1>4, <1>5, <1>6, <1>7, <1>8 DEF IndexesAgree, BlocksOK

(* The six maps of BlockchainData agree, and no local receipt is missing.   *)
THEOREM IndexesAlwaysAgree == Spec => []IndexesAgree
<1>1. NodeInv => IndexesAgree
  BY IndexesKept
<1> QED
  BY <1>1, ForkInvariant, PTL

Logs(d, from, to) == UNION {{[tx |-> tx, number |-> n] : tx \in TxsOf(d, n)} : n \in from..to}

LEMMA LocalLogsFound ==
  ASSUME NEW d, DataOK(d), NEW from \in Nat, from > ForkBlockNumber, NEW to \in 0..d.latest
  PROVE  LocalLogs(d, from, to) = Logs(d, from, to)
<1>1. /\ NumbersOK(d) /\ ReceiptsFound(d) /\ MinedOnce(d) /\ ReceiptsKept(d, d.latest)
      /\ d.latest \in Nat /\ ForkBlockNumber \in Nat
  BY ForkAssumption DEF DataOK, MapsOK, NumbersOK
<1>2. ASSUME NEW n \in from..to
      PROVE  n \in DOMAIN d.byNumber /\ d.byNumber[n].txs = TxsOf(d, n) /\ n \in 0..d.latest
             /\ n \in (ForkBlockNumber + 1)..d.latest
  <2>1. n \in (ForkBlockNumber + 1)..d.latest /\ n \in 0..d.latest
    BY <1>1
  <2> QED
    BY <2>1, <1>1, TxsOfKnown DEF NumbersOK
<1>3. ASSUME NEW n \in 0..d.latest, NEW tx \in TxsOf(d, n), tx \in DOMAIN d.receipts
      PROVE  d.receipts[tx] = [tx |-> tx, number |-> n]
  BY <1>1, <1>3 DEF ReceiptsFound, MinedOnce
<1>4. ASSUME NEW log \in LocalLogs(d, from, to) PROVE log \in Logs(d, from, to)
  <2>1. PICK tx \in DOMAIN d.receipts :
          log = d.receipts[tx] /\ \E n \in (from..to) \cap DOMAIN d.byNumber : tx \in d.byNumber[n].txs
    BY <1>4 DEF LocalLogs
  <2>2. PICK n \in from..to : tx \in d.byNumber[n].txs
    BY <2>1
  <2>3. tx \in TxsOf(d, n) /\ log = [tx |-> tx, number |-> n]
    BY <1>2, <1>3, <2>1, <2>2
  <2> QED
    BY <2>3 DEF Logs
<1>5. ASSUME NEW log \in Logs(d, from, to) PROVE log \in LocalLogs(d, from, to)
  <2>1. PICK n \in from..to : log \in {[tx |-> tx, number |-> n] : tx \in TxsOf(d, n)}
    BY DEF Logs
  <2>2. PICK tx \in TxsOf(d, n) : log = [tx |-> tx, number |-> n]
    BY <2>1
  <2>3. tx \in DOMAIN d.receipts
    BY <1>1, <1>2, <2>2 DEF ReceiptsKept
  <2>4. d.receipts[tx] = log /\ d.receipts[tx].number = n
    BY <1>2, <1>3, <2>2, <2>3
  <2>5. n \in (from..to) \cap DOMAIN d.byNumber /\ tx \in d.byNumber[n].txs
    BY <1>2, <2>2
  <2> QED
    BY <2>3, <2>4, <2>5 DEF LocalLogs
<1> QED
  BY <1>4, <1>5

LEMMA RemoteLogsFound ==
  ASSUME NEW d, NEW from \in Nat, NEW to \in 0..ForkBlockNumber
  PROVE  RemoteLogs(from, to) = Logs(d, from, to)
<1>0. ForkBlockNumber \in Nat
  BY ForkAssumption
<1>1. ASSUME NEW n \in from..to PROVE n \in DOMAIN RemoteTxs /\ TxsOf(d, n) = RemoteTxs[n]
  <2>1. n \in 0..ForkBlockNumber
    BY <1>0
  <2> QED
    BY <2>1, RemoteTxsType DEF TxsOf
<1>2. (from..to) \cap DOMAIN RemoteTxs = from..to
  BY <1>1
<1> QED
  BY <1>1, <1>2 DEF RemoteLogs, Logs

LEMMA LogsOfBoth ==
  ASSUME NEW d, NEW from \in Nat, from <= ForkBlockNumber, NEW to \in Nat, ForkBlockNumber < to
  PROVE  Logs(d, from, to) = Logs(d, from, ForkBlockNumber) \cup Logs(d, ForkBlockNumber + 1, to)
<1>1. ForkBlockNumber \in Nat
  BY ForkAssumption
<1>2. from..to = (from..ForkBlockNumber) \cup ((ForkBlockNumber + 1)..to)
  BY <1>1
<1> QED
  BY <1>2 DEF Logs

LEMMA LogsFound ==
  ASSUME NodeInv
  PROVE  AllLogsFound
<1>1. DataOK(data) /\ data.latest \in Nat /\ ForkBlockNumber \in Nat /\ NumbersOK(data)
  BY BaseFacts DEF NodeInv
<1> SUFFICES ASSUME NEW from \in 0..data.latest, NEW to \in 0..data.latest
             PROVE  GetLogs(data, from, to) =
                      UNION {{[tx |-> tx, number |-> n] : tx \in BlockOfHistory(n).txs} : n \in from..to}
  BY DEF AllLogsFound
<1>2. GetLogs(data, from, to) = Logs(data, from, to)
  <2>1. CASE from > ForkBlockNumber
    BY <2>1, <1>1, LocalLogsFound DEF GetLogs, IsRemote
  <2>2. CASE from <= ForkBlockNumber /\ to <= ForkBlockNumber
    <3>1. GetLogs(data, from, to) = RemoteLogs(from, to) \cup LocalLogs(data, ForkBlockNumber + 1, to)
      BY <2>2 DEF GetLogs, IsRemote
    <3>2. RemoteLogs(from, to) = Logs(data, from, to)
      BY <2>2, <1>1, RemoteLogsFound
    <3>3. (ForkBlockNumber + 1)..to = {}
      BY <2>2, <1>1
    <3>4. LocalLogs(data, ForkBlockNumber + 1, to) = {}
      BY <3>3 DEF LocalLogs
    <3> QED
      BY <3>1, <3>2, <3>4
  <2>3. CASE from <= ForkBlockNumber /\ to > ForkBlockNumber
    <3>1. ~(to <= ForkBlockNumber) /\ ForkBlockNumber + 1 \in Nat /\ ForkBlockNumber + 1 > ForkBlockNumber
          /\ ForkBlockNumber \in 0..ForkBlockNumber /\ from \in Nat /\ to \in Nat
      BY <2>3, <1>1
    <3>2. GetLogs(data, from, to) = RemoteLogs(from, ForkBlockNumber) \cup LocalLogs(data, ForkBlockNumber + 1, to)
      BY <2>3, <3>1 DEF GetLogs, IsRemote
    <3> QED
      BY <2>3, <3>1, <3>2, <1>1, RemoteLogsFound, LocalLogsFound, LogsOfBoth
  <2> QED
    BY <2>1, <2>2, <2>3, <1>1
<1>3. ASSUME NEW n \in from..to PROVE BlockOfHistory(n).txs = TxsOf(data, n)
  BY <1>1 DEF BlockOfHistory, TxsOf, IsRemote
<1> QED
  BY <1>2, <1>3 DEF Logs

(* Every range of blocks has all its logs, whatever was fetched before.     *)
THEOREM LogsAlwaysFound == Spec => []AllLogsFound
<1>1. NodeInv => AllLogsFound
  BY LogsFound
<1> QED
  BY <1>1, ForkInvariant, PTL

------------------------------------------------------------------------------
(* The history                                                             *)

(* While a request is served, nothing is answered yet.                      *)
Unanswered == request # Idle => answer = Nothing

LEMMA UnansweredStep ==
  ASSUME Unanswered, [Next]_vars
  PROVE  Unanswered'
<1>1. CASE UNCHANGED vars
  BY <1>1 DEF vars, Unanswered
<1>2. CASE \/ TakeSnapshot \/ RevertToSnapshot \/ BeginMine \/ BeginPending \/ BeginQuery
           \/ AskBlockByHash \/ AskTransaction
  BY <1>2 DEF TakeSnapshot, RevertToSnapshot, BeginMine, BeginPending, BeginQuery,
              AskBlockByHash, AskTransaction, Unanswered
<1>3. CASE AskBlock \/ AskBlockOf \/ AskReceipt
  BY <1>3 DEF AskBlock, AskBlockOf, AskReceipt, Ask, Unanswered
<1>4. CASE \/ PutAccountStep \/ PutContractCodeStep \/ PutContractStorageStep \/ ClearContractStorageStep
           \/ BeginMessage \/ EndMessage
  <2>1. Running /\ answer' = answer
    BY <1>4 DEF PutAccountStep, PutContractCodeStep, PutContractStorageStep, ClearContractStorageStep,
                BeginMessage, EndMessage, Write
  <2>2. request # Idle
    BY <2>1 DEF Running, Idle
  <2> QED
    BY <2>1, <2>2 DEF Unanswered
<1>5. CASE BeginTransaction \/ EndTransaction \/ BuildBlock \/ BeginCall
  <2>1. request.op \in {"mine", "query"} /\ answer' = answer
    BY <1>5 DEF BeginTransaction, EndTransaction, BuildBlock, BeginCall
  <2>2. request # Idle
    BY <2>1 DEF Idle
  <2> QED
    BY <2>1, <2>2 DEF Unanswered
<1>6. CASE FailMine \/ ReadAccount \/ FailRead \/ EndCall
  BY <1>6 DEF FailMine, ReadAccount, FailRead, EndCall, FinishQuery, Unanswered
<1> QED
  BY <1>1, <1>2, <1>3, <1>4, <1>5, <1>6 DEF Next

(* The list of blocks that clients are told about.                          *)
Past == [i \in 1..(VisibleBlock + 1) |-> BlockOfHistory(i - 1)]

LEMMA VisibleIsBlock ==
  ASSUME NodeInv
  PROVE  /\ VisibleBlock \in Nat /\ VisibleBlock \in ForkBlockNumber..data.latest
         /\ request = Idle \/ request.snapshot = Nothing => VisibleBlock = data.latest
<1>1. /\ data.latest \in Nat /\ ForkBlockNumber \in Nat /\ ForkBlockNumber <= data.latest
      /\ SnapshotsOK(manager, data, snapshots) /\ Len(snapshots) \in Nat
  BY BaseFacts DEF NodeInv
<1>2. CASE request = Idle \/ request.snapshot = Nothing
  BY <1>1, <1>2 DEF VisibleBlock, Pending
<1>3. CASE request # Idle /\ request.snapshot # Nothing
  <2>1. Len(snapshots) > 0 /\ request.snapshot = Len(snapshots)
    BY <1>3 DEF NodeInv, Rests, Mines, Queries, Calls, SnapshotTaken
  <2>2. Len(snapshots) \in 1..Len(snapshots) /\ VisibleBlock = snapshots[Len(snapshots)].latestBlock.number
    BY <2>1, <1>1, <1>3 DEF VisibleBlock, Pending
  <2>3. VisibleBlock \in ForkBlockNumber..data.latest
    BY <2>2, <1>1 DEF SnapshotsOK
  <2> QED
    BY <2>3, <1>1, <1>3
<1> QED
  BY <1>2, <1>3

LEMMA PastIsSeq ==
  ASSUME VisibleBlock \in Nat
  PROVE  /\ Past \in Seq({BlockOfHistory(n) : n \in 0..VisibleBlock}) /\ Len(Past) = VisibleBlock + 1
         /\ \A n \in 0..VisibleBlock : Past[n + 1] = BlockOfHistory(n)
<1> DEFINE S == {BlockOfHistory(n) : n \in 0..VisibleBlock}
           v == VisibleBlock
<1>1. \A i \in 1..(v + 1) : i - 1 \in 0..v /\ BlockOfHistory(i - 1) \in S
  OBVIOUS
<1>2. Past \in [1..(v + 1) -> S]
  BY <1>1 DEF Past
<1>3. v + 1 \in Nat
  OBVIOUS
<1> HIDE DEF S
<1>4. Past \in Seq(S) /\ Len(Past) = v + 1
  BY <1>2, <1>3
<1>5. \A n \in 0..v : n + 1 \in 1..(v + 1) /\ (n + 1) - 1 = n
  OBVIOUS
<1>6. \A n \in 0..v : Past[n + 1] = BlockOfHistory(n)
  BY <1>5 DEF Past
<1> QED
  BY <1>4, <1>6 DEF S

LEMMA SameHistory ==
  ASSUME NEW k \in Nat, SameUpTo(manager, data, manager', data', k), NEW n \in 0..k
  PROVE  BlockOfHistory(n)' = BlockOfHistory(n)
<1>1. ForkBlockNumber \in Nat
  BY ForkAssumption
<1>2. TxsOf(data', n) = TxsOf(data, n)
  BY DEF SameUpTo
<1>3. AccountsOf(manager', data', n) = AccountsOf(manager, data, n)
  <2>1. CASE n < ForkBlockNumber
    BY <2>1 DEF AccountsOf
  <2>2. CASE n >= ForkBlockNumber
    <3>1. n \in ForkBlockNumber..k
      BY <2>2, <1>1
    <3> QED
      BY <3>1, <1>1, <2>2 DEF AccountsOf, SameUpTo
  <2> QED
    BY <2>1, <2>2, <1>1
<1>4. BlockOfHistory(n) = [txs |-> TxsOf(data, n), accounts |-> AccountsOf(manager, data, n)]
  BY BlockOfHistoryIs
<1>5. BlockOfHistory(n)' = [txs |-> TxsOf(data', n), accounts |-> AccountsOf(manager', data', n)]
  <2>1. CASE n < ForkBlockNumber
    BY <1>1, <2>1 DEF BlockOfHistory, TxsOf, IsRemote, AccountsOf
  <2>2. CASE n = ForkBlockNumber
    BY <1>1, <2>2 DEF BlockOfHistory, TxsOf, IsRemote, AccountsOf, StateOf
  <2>3. CASE n > ForkBlockNumber
    BY <1>1, <2>3 DEF BlockOfHistory, TxsOf, IsRemote, AccountsOf, StateOf
  <2> QED
    BY <1>1, <2>1, <2>2, <2>3
<1> QED
  BY <1>2, <1>3, <1>4, <1>5

(* The latest remote state, with nothing changed here, is the remote one.   *)
LEMMA NothingChanged ==
  ASSUME NEW n \in 0..ForkBlockNumber
  PROVE  Resolved(NoState, n) = RemoteAccounts[n]
<1> DEFINE A == RemoteAccounts[n]
<1>1. A = [a \in Accounts |-> [balance |-> A[a].balance, code |-> A[a].code,
                               storage |-> [k \in Slots |-> A[a].storage[k]]]]
  BY ForkAssumption
<1>2. ASSUME NEW a \in Accounts
      PROVE  /\ NoState[a].balance = Unset /\ NoState[a].code = Unset /\ ~NoState[a].cleared
             /\ \A k \in Slots : NoState[a].storage[k] = Unset
  BY DEF NoState, AccountState
<1> HIDE DEF A
<1>3. ASSUME NEW a \in Accounts, NEW k \in Slots
      PROVE  StorageAt(NoState[a], A[a], k) = A[a].storage[k]
  BY <1>2 DEF StorageAt, OrRemote
<1>4. Resolved(NoState, n) = [a \in Accounts |-> [balance |-> A[a].balance, code |-> A[a].code,
                               storage |-> [k \in Slots |-> A[a].storage[k]]]]
  BY <1>2, <1>3 DEF Resolved, OrRemote, A
<1> QED
  BY <1>1, <1>4 DEF A

------------------------------------------------------------------------------
(* Questions about accounts and blocks                                     *)

(* What the history of the blocks is for the abstract specification.        *)
LEMMA PastOf ==
  ASSUME NodeInv
  PROVE  /\ H!Latest = VisibleBlock
         /\ \A n \in 0..VisibleBlock :
              H!Numbered(n) = [txs |-> TxsOf(data, n), accounts |-> AccountsOf(manager, data, n)]
<1>1. VisibleBlock \in Nat
  BY VisibleIsBlock
<1>2. Len(Past) = VisibleBlock + 1 /\ \A n \in 0..VisibleBlock : Past[n + 1] = BlockOfHistory(n)
  BY <1>1, PastIsSeq
<1>3. H!Latest = VisibleBlock
  BY <1>1, <1>2 DEF H!Latest, Past
<1>4. \A n \in 0..VisibleBlock : H!Numbered(n) = BlockOfHistory(n)
  BY <1>2 DEF H!Numbered, Past
<1> QED
  BY <1>3, <1>4, BlockOfHistoryIs

LEMMA HistoryStays ==
  ASSUME NodeInv, HistoryKept
  PROVE  Past' = Past
<1>1. VisibleBlock \in Nat /\ VisibleBlock' = VisibleBlock
  BY VisibleIsBlock DEF HistoryKept
<1>2. \A n \in 0..VisibleBlock : BlockOfHistory(n)' = BlockOfHistory(n)
  BY <1>1, SameHistory DEF HistoryKept
<1>3. \A i \in 1..(VisibleBlock + 1) : i - 1 \in 0..VisibleBlock
  BY <1>1
<1> QED
  BY <1>1, <1>2, <1>3 DEF Past

(* The account that is read is the one of the block that was asked for.     *)
LEMMA AccountRead ==
  ASSUME NodeInv, ReadAccount
  PROVE  H!RightAnswer
<1>1. Queries /\ BaseOK(manager, data, snapshots) /\ request # Idle
  BY RequestKinds DEF NodeInv, ReadAccount
<1>2. data.latest \in Nat /\ ForkBlockNumber \in Nat /\ ForkBlockNumber <= data.latest
  BY <1>1, BaseFacts
<1>3. CASE request.snapshot # Nothing
  BY <1>3 DEF ReadAccount, H!RightAnswer
<1>4. CASE request.snapshot = Nothing
  <2> DEFINE n == request.number
  <2>1. PICK a \in Accounts : Tell("account", <<n, a>>, GetAccount(manager, a))
    BY <1>4 DEF ReadAccount
  <2>2. InContext(manager, data, n, manager.state, request.stateRoot)
    BY <1>1 DEF Queries
  <2>3. n \in 0..data.latest
    BY <2>2, <1>2 DEF InContext
  <2>4. VisibleBlock = data.latest
    BY <1>4, VisibleIsBlock
  <2>5. GetAccount(manager, a) = AccountsOf(manager, data, n)[a]
    <3>1. CASE n < ForkBlockNumber
      <4>1. request.stateRoot # Nothing
        BY <2>2, <3>1, <1>2 DEF InContext
      <4>2. manager.state = NoState /\ manager.contextBlockNumber = n
        BY <2>2, <3>1, <4>1 DEF InContext
      <4>3. Resolved(NoState, n) = RemoteAccounts[n]
        BY <2>3, <3>1, <1>2, NothingChanged
      <4> QED
        BY <3>1, <4>2, <4>3 DEF GetAccount, AccountsOf
    <3>2. CASE ~(n < ForkBlockNumber)
      <4>1. manager.state = StateOf(manager, data, n) /\ manager.contextBlockNumber = ForkBlockNumber
        BY <2>2, <3>2 DEF InContext, Home
      <4> QED
        BY <3>2, <4>1 DEF GetAccount, AccountsOf
    <3> QED
      BY <3>1, <3>2
  <2>6. H!Latest = data.latest /\ H!Numbered(n).accounts = AccountsOf(manager, data, n)
    BY <2>3, <2>4, PastOf
  <2> HIDE DEF n
  <2>7. H!Tell("account", <<n, a>>, H!Numbered(n).accounts[a])
    BY <2>1, <2>5, <2>6 DEF Tell, H!Tell
  <2> QED
    BY <2>3, <2>6, <2>7 DEF H!RightAnswer
<1> QED
  BY <1>3, <1>4

LEMMA BlockAsked ==
  ASSUME NodeInv, AskBlock
  PROVE  H!RightAnswer
<1>1. request = Idle /\ DataOK(data) /\ data.latest \in Nat
  BY BaseFacts DEF AskBlock, Ask, NodeInv
<1>2. VisibleBlock = data.latest
  BY <1>1, VisibleIsBlock
<1>3. PICK n \in 0..MaxBlockNumber :
        Tell("block", n, IF BlockWithNumber(FetchBlockNumber(data, n), n) = Nothing THEN Nothing
                         ELSE BlockWithNumber(FetchBlockNumber(data, n), n).txs)
  BY DEF AskBlock
<1> DEFINE e == FetchBlockNumber(data, n)
           b == BlockWithNumber(e, n)
<1>4. n \in Nat
  OBVIOUS
<1>5. Fetched(data, e) /\ (n <= data.latest => n \in DOMAIN e.byNumber)
  BY <1>1, <1>4, FetchBlockNumberKeeps
<1> HIDE DEF e
<1>6. (IF b = Nothing THEN Nothing ELSE b.txs) = IF n <= H!Latest THEN H!Numbered(n).txs ELSE Nothing
  <2>1. H!Latest = data.latest
    BY <1>2, PastOf
  <2>2. CASE n <= data.latest
    <3>1. n \in 0..data.latest
      BY <1>1, <1>4, <2>2
    <3>2. H!Numbered(n).txs = TxsOf(data, n)
      BY <1>2, <3>1, PastOf
    <3>3. b = e.byNumber[n]
      BY <1>5, <2>2 DEF BlockWithNumber
    <3>4. NumbersOK(e) /\ n \in DOMAIN e.byNumber /\ TxsOf(e, n) = TxsOf(data, n)
      BY <1>5, <2>2, <3>1 DEF Fetched, DataOK, MapsOK
    <3>5. b.txs = TxsOf(data, n)
      BY <3>3, <3>4, TxsOfKnown
    <3>6. b \in Block
      <4>1. BaseOK(manager, e, snapshots)
        BY <1>5, BaseFacts, BaseKept DEF NodeInv, KeepsRoots
      <4> QED
        BY <3>3, <3>4, <4>1 DEF BaseOK, RootsOK
    <3>7. b # Nothing
      BY <3>6, RemoteAssumption DEF Block
    <3> HIDE DEF b
    <3> QED
      BY <2>1, <2>2, <3>2, <3>5, <3>7
  <2>3. CASE ~(n <= data.latest)
    <3>1. n \notin DOMAIN e.byNumber
      BY <1>1, <1>4, <1>5, <2>3 DEF Fetched, DataOK, MapsOK, NumbersOK
    <3> QED
      BY <2>1, <2>3, <3>1 DEF BlockWithNumber
  <2> QED
    BY <2>2, <2>3
<1>7. H!Tell("block", n, IF n <= H!Latest THEN H!Numbered(n).txs ELSE Nothing)
  BY <1>3, <1>6 DEF Tell, H!Tell, e
<1> QED
  BY <1>7 DEF H!RightAnswer

------------------------------------------------------------------------------
(* Questions about transactions                                            *)

LEMMA BlockOfOne ==
  ASSUME NodeInv, request = Idle, NEW tx
  PROVE  /\ \A n \in 0..data.latest : tx \in TxsOf(data, n) => H!BlockOf(tx) = n
         /\ (\A n \in 0..data.latest : tx \notin TxsOf(data, n)) => H!BlockOf(tx) = Nothing
<1>1. MinedOnce(data) /\ VisibleBlock = data.latest
  BY BaseFacts, VisibleIsBlock DEF NodeInv, DataOK, MapsOK
<1>2. H!Latest = data.latest /\ \A n \in 0..data.latest : H!Numbered(n).txs = TxsOf(data, n)
  BY <1>1, PastOf
<1>3. H!BlockOf(tx) = IF \E n \in 0..data.latest : tx \in TxsOf(data, n)
                        THEN CHOOSE n \in 0..data.latest : tx \in H!Numbered(n).txs
                        ELSE Nothing
  BY <1>2 DEF H!BlockOf
<1>4. ASSUME NEW n \in 0..data.latest, tx \in TxsOf(data, n) PROVE H!BlockOf(tx) = n
  <2> DEFINE c == CHOOSE m \in 0..data.latest : tx \in H!Numbered(m).txs
  <2>1. c \in 0..data.latest /\ tx \in H!Numbered(c).txs
    BY <1>2, <1>4
  <2>2. H!BlockOf(tx) = c
    BY <1>3, <1>4
  <2> HIDE DEF c
  <2>3. tx \in TxsOf(data, c)
    BY <1>2, <2>1
  <2>4. c = n
    BY <1>1, <1>4, <2>1, <2>3 DEF MinedOnce
  <2> QED
    BY <2>2, <2>4
<1> QED
  BY <1>3, <1>4

(* Each way to look a transaction up finds its one block, if there is one.  *)
FoundIn(d, tx, found, number) ==
  /\ \A n \in 0..d.latest : tx \in TxsOf(d, n) => found /\ number = n
  /\ found => \E n \in 0..d.latest : tx \in TxsOf(d, n)

LEMMA BlockIsFetched ==
  ASSUME NEW d, DataOK(d), NEW n \in 0..ForkBlockNumber
  PROVE  n \in DOMAIN FetchBlock(d, RemoteBlock(n)).byNumber
<1> DEFINE b == RemoteBlock(n)
<1>1. b.number = n
  BY DEF RemoteBlock
<1>2. CASE b \in d.byHash
  <2>1. PICK k \in DOMAIN d.byNumber : b = d.byNumber[k]
    BY <1>2 DEF DataOK, MapsOK, BlocksOK
  <2>2. k = n
    BY <1>1, <2>1 DEF DataOK, MapsOK, NumbersOK
  <2> QED
    BY <1>2, <2>1, <2>2 DEF FetchBlock
<1>3. CASE b \notin d.byHash
  <2>1. b \in RemoteBlocks
    BY RemoteTxsType DEF RemoteBlocks
  <2>2. FetchBlock(d, b) = ProcessRemoteBlock(d, b)
    BY <1>3, <2>1 DEF FetchBlock
  <2>3. n \notin DOMAIN d.byNumber
    <3>1. n \in DOMAIN d.byNumber => d.byNumber[n] = b
      BY RemoteTxsType DEF DataOK, MapsOK, NumbersOK
    <3> QED
      BY <3>1, <1>3 DEF DataOK, MapsOK, BlocksOK
  <2> QED
    BY <2>2, <2>3, RemoteBlockKept
<1> QED
  BY <1>2, <1>3

LEMMA BlockOfFound ==
  ASSUME NEW d, DataOK(d), NEW tx, NEW e, e = FetchBlockOf(d, tx)
  PROVE  FoundIn(d, tx, tx \in DOMAIN e.byTx, e.byTx[tx].number)
<1>1. Fetched(d, e)
  BY FetchBlockOfKeeps
<1>2. /\ NumbersOK(e) /\ TransactionsOK(e) /\ MinedOnce(d) /\ NumbersOK(d) /\ e.latest = d.latest
      /\ d.latest \in Nat /\ ForkBlockNumber \in Nat
      /\ \A n \in 0..d.latest : TxsOf(e, n) = TxsOf(d, n)
  BY <1>1, ForkAssumption DEF Fetched, DataOK, MapsOK, NumbersOK
<1>3. ASSUME tx \in DOMAIN e.byTx
      PROVE  \E n \in 0..d.latest : tx \in TxsOf(d, n) /\ e.byTx[tx].number = n
  <2>1. PICK n \in DOMAIN e.byNumber : tx \in e.byNumber[n].txs
    BY <1>2, <1>3 DEF TransactionsOK
  <2>2. e.byTx[tx] = e.byNumber[n] /\ e.byNumber[n].number = n /\ n \in 0..d.latest
    BY <1>2, <2>1 DEF TransactionsOK, NumbersOK
  <2>3. tx \in TxsOf(d, n)
    BY <1>2, <2>1, <2>2, TxsOfKnown
  <2> QED
    BY <2>2, <2>3
<1>4. ASSUME NEW n \in 0..d.latest, tx \in TxsOf(d, n) PROVE tx \in DOMAIN e.byTx
  <2>1. CASE n \in DOMAIN e.byNumber
    <3>1. tx \in e.byNumber[n].txs
      BY <1>2, <1>4, <2>1, TxsOfKnown
    <3> QED
      BY <2>1, <3>1, <1>2 DEF TransactionsOK
  <2>2. CASE n \notin DOMAIN e.byNumber
    <3>1. IsRemote(n) /\ n \in 0..ForkBlockNumber
      BY <1>2, <2>2 DEF NumbersOK, IsRemote
    <3>2. RemoteBlock(n) \in RemoteBlockOf(tx)
      BY <1>4, <3>1, RemoteTxsType DEF TxsOf, RemoteBlockOf, RemoteBlocks, RemoteBlock
    <3>3. RemoteBlock(n) = CHOOSE c \in RemoteBlockOf(tx) : TRUE
      BY <3>2, RemoteBlockOfOne
    <3>4. CASE tx \in DOMAIN d.byTx
      BY <3>4 DEF FetchBlockOf
    <3>5. CASE tx \notin DOMAIN d.byTx
      <4>1. e = FetchBlock(FetchTransaction(d, tx), RemoteBlock(n))
        BY <3>2, <3>3, <3>5 DEF FetchBlockOf
      <4>2. DataOK(FetchTransaction(d, tx))
        BY FetchTransactionKeeps DEF Fetched
      <4> QED
        BY <2>2, <3>1, <4>1, <4>2, BlockIsFetched
    <3> QED
      BY <3>4, <3>5
  <2> QED
    BY <2>1, <2>2
<1>5. ASSUME NEW n \in 0..d.latest, tx \in TxsOf(d, n) PROVE e.byTx[tx].number = n
  BY <1>2, <1>3, <1>4, <1>5 DEF MinedOnce
<1> QED
  BY <1>3, <1>4, <1>5 DEF FoundIn

LEMMA ReceiptFound ==
  ASSUME NEW d, DataOK(d), NEW tx, NEW e, e = FetchReceipt(d, tx)
  PROVE  FoundIn(d, tx, tx \in DOMAIN e.receipts, e.receipts[tx].number)
<1>1. Fetched(d, e)
  BY FetchReceiptKeeps
<1>2. /\ ReceiptsFound(e) /\ ReceiptsKept(e, e.latest) /\ NumbersOK(e) /\ MinedOnce(d) /\ e.latest = d.latest
      /\ d.latest \in Nat /\ ForkBlockNumber \in Nat
      /\ \A n \in 0..d.latest : TxsOf(e, n) = TxsOf(d, n)
  BY <1>1, ForkAssumption DEF Fetched, DataOK, MapsOK, NumbersOK
<1>3. ASSUME tx \in DOMAIN e.receipts
      PROVE  \E n \in 0..d.latest : tx \in TxsOf(d, n) /\ e.receipts[tx].number = n
  <2>1. PICK n \in 0..e.latest : tx \in TxsOf(e, n) /\ e.receipts[tx] = [tx |-> tx, number |-> n]
    BY <1>2, <1>3 DEF ReceiptsFound
  <2>2. e.receipts[tx].number = n
    BY <2>1
  <2> QED
    BY <2>1, <2>2, <1>2
<1>4. ASSUME NEW n \in 0..d.latest, tx \in TxsOf(d, n) PROVE tx \in DOMAIN e.receipts
  <2>1. CASE ~IsRemote(n)
    <3>1. n \in (ForkBlockNumber + 1)..e.latest
      BY <1>2, <2>1 DEF IsRemote
    <3>2. tx \in e.byNumber[n].txs
      <4>1. tx \in TxsOf(e, n)
        BY <1>2, <1>4
      <4> QED
        BY <2>1, <4>1 DEF TxsOf
    <3> QED
      BY <3>1, <3>2, <1>2 DEF ReceiptsKept
  <2>2. CASE IsRemote(n)
    <3>1. n \in 0..ForkBlockNumber
      BY <1>2, <2>2 DEF IsRemote
    <3>2. RemoteBlock(n) \in RemoteBlockOf(tx) /\ RemoteBlock(n).number = n
      BY <1>4, <2>2, <3>1, RemoteTxsType DEF TxsOf, RemoteBlockOf, RemoteBlocks, RemoteBlock
    <3>3. CASE tx \in DOMAIN d.receipts
      BY <3>3 DEF FetchReceipt
    <3>4. CASE tx \notin DOMAIN d.receipts
      <4> DEFINE t == FetchTransaction(d, tx)
                 r == Receipt(tx, CHOOSE c \in RemoteBlockOf(tx) : TRUE)
      <4>1. e = [t EXCEPT !.receipts = With(t.receipts, tx, r)]
        BY <2>2, <3>2, <3>4 DEF FetchReceipt
      <4>2. ShapeOK(t)
        BY FetchTransactionKeeps DEF Fetched, DataOK, MapsOK
      <4> HIDE DEF t, r
      <4>3. e.receipts = With(t.receipts, tx, r)
        BY <4>1, <4>2 DEF ShapeOK
      <4> QED
        BY <4>3 DEF With
    <3> QED
      BY <3>3, <3>4
  <2> QED
    BY <2>1, <2>2
<1>5. ASSUME NEW n \in 0..d.latest, tx \in TxsOf(d, n) PROVE e.receipts[tx].number = n
  BY <1>2, <1>3, <1>4, <1>5 DEF MinedOnce
<1> QED
  BY <1>3, <1>4, <1>5 DEF FoundIn

LEMMA TransactionAsked ==
  ASSUME NodeInv, request = Idle, NEW tx \in Txs, NEW found, NEW number, FoundIn(data, tx, found, number),
         Tell("transaction", tx, IF found THEN number ELSE Nothing)
  PROVE  H!RightAnswer
<1>1. (IF found THEN number ELSE Nothing) = H!BlockOf(tx)
  <2>1. CASE \E n \in 0..data.latest : tx \in TxsOf(data, n)
    <3>1. PICK n \in 0..data.latest : tx \in TxsOf(data, n)
      BY <2>1
    <3>2. found /\ number = n
      BY <3>1 DEF FoundIn
    <3>3. H!BlockOf(tx) = n
      BY <3>1, BlockOfOne
    <3> QED
      BY <3>2, <3>3
  <2>2. CASE \A n \in 0..data.latest : tx \notin TxsOf(data, n)
    <3>1. ~found
      BY <2>2 DEF FoundIn
    <3>2. H!BlockOf(tx) = Nothing
      BY <2>2, BlockOfOne
    <3> QED
      BY <3>1, <3>2
  <2> QED
    BY <2>1, <2>2
<1>2. H!Tell("transaction", tx, H!BlockOf(tx))
  BY <1>1 DEF Tell, H!Tell
<1> QED
  BY <1>2 DEF H!RightAnswer

LEMMA TransactionsAsked ==
  ASSUME NodeInv, AskBlockOf \/ AskReceipt
  PROVE  H!RightAnswer
<1>1. DataOK(data)
  BY BaseFacts DEF NodeInv
<1>2. CASE AskBlockOf
  <2>1. PICK tx \in Txs :
          LET e == FetchBlockOf(data, tx)
          IN  /\ request = Idle
              /\ Tell("transaction", tx, IF tx \in DOMAIN e.byTx THEN e.byTx[tx].number ELSE Nothing)
    BY <1>2 DEF AskBlockOf, Ask
  <2> DEFINE e == FetchBlockOf(data, tx)
  <2>2. FoundIn(data, tx, tx \in DOMAIN e.byTx, e.byTx[tx].number)
    BY <1>1, BlockOfFound
  <2> HIDE DEF e
  <2> QED
    BY <2>1, <2>2, TransactionAsked DEF e
<1>3. CASE AskReceipt
  <2>1. PICK tx \in Txs :
          LET e == FetchReceipt(data, tx)
          IN  /\ request = Idle
              /\ Tell("transaction", tx, IF tx \in DOMAIN e.receipts THEN e.receipts[tx].number ELSE Nothing)
    BY <1>3 DEF AskReceipt, Ask
  <2> DEFINE e == FetchReceipt(data, tx)
  <2>2. FoundIn(data, tx, tx \in DOMAIN e.receipts, e.receipts[tx].number)
    BY <1>1, ReceiptFound
  <2> HIDE DEF e
  <2> QED
    BY <2>1, <2>2, TransactionAsked DEF e
<1> QED
  BY <1>2, <1>3

------------------------------------------------------------------------------
(* The refinement                                                          *)

(* The first blocks of a history.                                           *)
LEMMA FirstOfPast ==
  ASSUME NEW v \in Nat, NEW w \in Nat, v <= w, NEW S, NEW long \in Seq(S), NEW short,
         Len(long) = w + 1, short \in Seq(S), Len(short) = v + 1,
         \A n \in 0..v : short[n + 1] = long[n + 1]
  PROVE  SubSeq(long, 1, v + 1) = short
<1>1. \A i \in 1..(v + 1) : long[i] \in S /\ short[i] = long[i]
  <2> SUFFICES ASSUME NEW i \in 1..(v + 1) PROVE long[i] \in S /\ short[i] = long[i]
    OBVIOUS
  <2>1. i - 1 \in 0..v /\ (i - 1) + 1 = i /\ i \in 1..Len(long)
    OBVIOUS
  <2>2. short[(i - 1) + 1] = long[(i - 1) + 1]
    BY <2>1
  <2> QED
    BY <2>1, <2>2, ElementOfSeq
<1> DEFINE k == v + 1
           sub == SubSeq(long, 1, k)
<1>2. k \in Int /\ 1 \in Int /\ 1 <= k /\ k - 1 + 1 = k
  OBVIOUS
<1>3. /\ sub \in Seq(S) /\ Len(sub) = (IF 1 <= k THEN k - 1 + 1 ELSE 0)
      /\ \A i \in 1..k - 1 + 1 : sub[i] = long[1 + i - 1]
  <2>1. \A i \in 1..k : long[i] \in S
    BY <1>1
  <2> HIDE DEF k
  <2> QED
    BY <1>2, <2>1, SubSeqProperties
<1>4. Len(sub) = k /\ \A i \in 1..k : sub[i] = long[i]
  <2> HIDE DEF sub
  <2> QED
    BY <1>2, <1>3
<1> HIDE DEF sub
<1>5. Len(sub) = Len(short) /\ \A i \in 1..Len(sub) : sub[i] = short[i]
  BY <1>1, <1>4
<1>6. sub = short
  BY <1>3, <1>5, SeqEqual
<1> QED
  BY <1>6 DEF sub

LEMMA PastPrime ==
  ASSUME VisibleBlock' \in Nat
  PROVE  /\ Past' \in Seq({BlockOfHistory(n)' : n \in 0..VisibleBlock'}) /\ Len(Past') = VisibleBlock' + 1
         /\ \A n \in 0..VisibleBlock' : Past'[n + 1] = BlockOfHistory(n)'
<1> DEFINE S == {BlockOfHistory(n)' : n \in 0..VisibleBlock'}
<1>1. PICK v \in Nat : v = VisibleBlock'
  OBVIOUS
<1>2. \A i \in 1..(v + 1) : i - 1 \in 0..v /\ BlockOfHistory(i - 1)' \in S
  BY <1>1
<1>3. Past' = [i \in 1..(v + 1) |-> BlockOfHistory(i - 1)']
  BY <1>1 DEF Past
<1>4. Past' \in [1..(v + 1) -> S]
  BY <1>2, <1>3
<1> HIDE DEF S
<1>5. Past' \in Seq(S) /\ Len(Past') = v + 1
  BY <1>4
<1>6. \A n \in 0..v : n + 1 \in 1..(v + 1) /\ (n + 1) - 1 = n
  OBVIOUS
<1>7. \A n \in 0..v : Past'[n + 1] = BlockOfHistory(n)'
  BY <1>3, <1>6
<1> QED
  BY <1>1, <1>5, <1>7 DEF S

(* Seen as sequences over the blocks of both states.                        *)
LEMMA PastBoth ==
  ASSUME VisibleBlock \in Nat, VisibleBlock' \in Nat
  PROVE  \E S : Past \in Seq(S) /\ Past' \in Seq(S)
<1> DEFINE A == {BlockOfHistory(n) : n \in 0..VisibleBlock}
           B == {BlockOfHistory(n)' : n \in 0..VisibleBlock'}
<1>1. Past \in Seq(A) /\ Past' \in Seq(B)
  BY PastIsSeq, PastPrime
<1> HIDE DEF A, B
<1>2. Past \in Seq(A \cup B) /\ Past' \in Seq(A \cup B)
  BY <1>1
<1> QED
  BY <1>2

------------------------------------------------------------------------------
(* The snapshots clients know of, as the abstract specification has them.   *)
Marks == [i \in 1..VisibleSnapshots |-> snapshots[i].latestBlock.number + 1]

LEMMA MarksFacts ==
  ASSUME NodeInv
  PROVE  /\ Len(snapshots) \in Nat /\ DOMAIN snapshots = 1..Len(snapshots)
         /\ VisibleSnapshots \in Nat /\ VisibleSnapshots <= Len(snapshots)
         /\ Pending => VisibleSnapshots = Len(snapshots) - 1 /\ request.snapshot = Len(snapshots)
         /\ ~Pending => VisibleSnapshots = Len(snapshots)
         /\ \A i \in 1..Len(snapshots) : snapshots[i].latestBlock.number + 1 \in Nat
<1>1. SnapshotsOK(manager, data, snapshots) /\ Len(snapshots) \in Nat /\ ForkBlockNumber \in Nat
  BY BaseFacts DEF NodeInv
<1>2. DOMAIN snapshots = 1..Len(snapshots)
  BY <1>1 DEF SnapshotsOK
<1>3. Pending => Len(snapshots) > 0 /\ request.snapshot = Len(snapshots)
  BY DEF Pending, NodeInv, Rests, Mines, Queries, Calls, SnapshotTaken
<1>4. \A i \in 1..Len(snapshots) : snapshots[i].latestBlock.number + 1 \in Nat
  BY <1>1 DEF SnapshotsOK
<1> QED
  BY <1>1, <1>2, <1>3, <1>4 DEF VisibleSnapshots

(* A step that leaves the snapshots alone, and takes none for its request.  *)
SnapshotsStay ==
  /\ UNCHANGED snapshots
  /\ Pending' = Pending
  /\ Pending => request'.snapshot = request.snapshot

(* A query of the pending block begins with a snapshot of its own.          *)
SnapshotHidden ==
  /\ ~Pending /\ Pending'
  /\ request'.snapshot = Len(snapshots) + 1
  /\ \E new : snapshots' = Append(snapshots, new)

(* And ends by going back to it.                                            *)
SnapshotGone ==
  /\ Pending /\ ~Pending'
  /\ snapshots' = SubSeq(snapshots, 1, request.snapshot - 1)

LEMMA ShorterSnapshots ==
  ASSUME NodeInv, NEW i \in 1..Len(snapshots), snapshots' = SubSeq(snapshots, 1, i - 1)
  PROVE  /\ Len(snapshots') = i - 1
         /\ \A k \in 1..(i - 1) : snapshots'[k] = snapshots[k]
<1>1. PICK S : snapshots \in Seq(S) /\ Len(snapshots) \in Nat
  BY BaseFacts DEF NodeInv, SnapshotsOK
<1>2. i - 1 \in 0..Len(snapshots)
  BY <1>1
<1>3. i - 1 \in Nat /\ i - 1 <= Len(snapshots)
  BY <1>1, <1>2
<1> DEFINE k == i - 1
<1>4. \A n \in 1..k : snapshots[n] \in S
  BY <1>1, <1>3, ElementOfSeq
<1> HIDE DEF k
<1>5. snapshots' = SubSeq(snapshots, 1, k) /\ k \in Nat
  BY <1>3 DEF k
<1>6. Len(snapshots') = k /\ \A n \in 1..k : snapshots'[n] = snapshots[n]
  <2>1. 1 \in Int /\ k \in Int
    BY <1>5
  <2>2. /\ Len(SubSeq(snapshots, 1, k)) = (IF 1 <= k THEN k - 1 + 1 ELSE 0)
        /\ \A n \in 1..k - 1 + 1 : SubSeq(snapshots, 1, k)[n] = snapshots[1 + n - 1]
    BY <1>4, <2>1, SubSeqProperties
  <2> QED
    BY <1>5, <2>2
<1> QED
  BY <1>6 DEF k

LEMMA LongerSnapshots ==
  ASSUME NodeInv, NEW new, snapshots' = Append(snapshots, new)
  PROVE  /\ Len(snapshots') = Len(snapshots) + 1
         /\ \A k \in 1..Len(snapshots) : snapshots'[k] = snapshots[k]
         /\ snapshots'[Len(snapshots) + 1] = new
<1>1. PICK S : snapshots \in Seq(S) /\ Len(snapshots) \in Nat
  BY BaseFacts DEF NodeInv, SnapshotsOK
<1> DEFINE T == S \cup {new}
<1>2. snapshots \in Seq(T) /\ new \in T
  BY <1>1, SeqMonotonic
<1> HIDE DEF T
<1> QED
  BY <1>1, <1>2, AppendProperties

LEMMA MarksStay ==
  ASSUME NodeInv, SnapshotsStay \/ SnapshotHidden \/ SnapshotGone
  PROVE  Marks' = Marks
<1> DEFINE n == VisibleSnapshots
<1>1. n \in Nat /\ n <= Len(snapshots) /\ Len(snapshots) \in Nat
  BY MarksFacts
<1>2. VisibleSnapshots' = n /\ \A i \in 1..n : snapshots'[i] = snapshots[i]
  <2>1. CASE SnapshotsStay
    <3>1. VisibleSnapshots' = VisibleSnapshots
      BY <2>1 DEF SnapshotsStay, VisibleSnapshots
    <3>2. snapshots' = snapshots
      BY <2>1 DEF SnapshotsStay
    <3> QED
      BY <3>1, <3>2
  <2>2. CASE SnapshotHidden
    <3>1. VisibleSnapshots' = Len(snapshots) + 1 - 1 /\ VisibleSnapshots = Len(snapshots)
      BY <2>2 DEF SnapshotHidden, VisibleSnapshots
    <3>2. \A k \in 1..Len(snapshots) : snapshots'[k] = snapshots[k]
      BY <2>2, LongerSnapshots DEF SnapshotHidden
    <3>3. VisibleSnapshots' = n /\ n = Len(snapshots)
      BY <1>1, <3>1
    <3> QED
      BY <3>2, <3>3
  <2>3. CASE SnapshotGone
    <3> DEFINE i == Len(snapshots)
    <3>1. n = i - 1 /\ i \in 1..Len(snapshots) /\ request.snapshot = i
      BY <1>1, <2>3, MarksFacts DEF SnapshotGone, VisibleSnapshots
    <3>2. snapshots' = SubSeq(snapshots, 1, i - 1)
      BY <2>3, <3>1 DEF SnapshotGone
    <3>3. Len(snapshots') = i - 1 /\ \A k \in 1..(i - 1) : snapshots'[k] = snapshots[k]
      BY <3>1, <3>2, ShorterSnapshots
    <3>4. VisibleSnapshots' = Len(snapshots')
      BY <2>3 DEF SnapshotGone, VisibleSnapshots
    <3> QED
      BY <3>1, <3>3, <3>4
  <2> QED
    BY <2>1, <2>2, <2>3
<1> HIDE DEF n
<1>3. Marks = [i \in 1..n |-> snapshots[i].latestBlock.number + 1]
  BY DEF Marks, n
<1>4. Marks' = [i \in 1..n |-> snapshots'[i].latestBlock.number + 1]
  BY <1>2 DEF Marks
<1> QED
  BY <1>2, <1>3, <1>4
------------------------------------------------------------------------------
(* What a step does to the snapshots and to a request to mine.              *)
LEMMA RequestGoesOn ==
  ASSUME NodeInv, UNCHANGED snapshots, request # Idle,
         \/ \E w : request' = [request EXCEPT !.writes = w]
         \/ \E n : request' = [request EXCEPT !.depth = n]
         \/ \E x, n, w : request' = [request EXCEPT !.txs = x, !.depth = n, !.writes = w]
  PROVE  SnapshotsStay /\ MiningAsked' = MiningAsked
<1>1. Mines \/ Queries \/ Calls
  BY DEF NodeInv, Rests
<1>2. request'.snapshot = request.snapshot /\ request'.op = request.op
  BY <1>1 DEF Mines, Queries, Calls
<1>3. request.op # "none"
  BY <1>1 DEF Mines, Queries, Calls
<1>4. Pending' = Pending
  <2>1. request # Idle /\ request' # Idle
    <3>1. Idle.op = "none" /\ request'.op # "none"
      BY <1>2, <1>3 DEF Idle
    <3> QED
      BY <3>1
  <2>2. Pending <=> request.snapshot # Nothing
    BY <2>1 DEF Pending
  <2>3. Pending' <=> request'.snapshot # Nothing
    BY <2>1 DEF Pending
  <2> QED
    BY <1>2, <2>2, <2>3 DEF Pending
<1>5. MiningAsked' = MiningAsked
  BY <1>2 DEF MiningAsked
<1> QED
  BY <1>2, <1>4, <1>5 DEF SnapshotsStay

LEMMA QueryFinished ==
  ASSUME NodeInv, NEW m, FinishQuery(m), request.op \in {"query", "call"}
  PROVE  (SnapshotsStay \/ SnapshotGone) /\ ~MiningAsked /\ ~MiningAsked'
<1>1. request # Idle /\ request' = Idle
  BY DEF FinishQuery, Idle
<1>2. ~MiningAsked /\ ~MiningAsked'
  BY <1>1 DEF MiningAsked, Idle
<1>3. ~Pending'
  BY <1>1 DEF Pending
<1>4. CASE request.snapshot = Nothing
  <2>1. ~Pending
    BY <1>4 DEF Pending
  <2>2. Pending' = Pending
    BY <1>3, <2>1 DEF Pending
  <2>3. UNCHANGED snapshots
    BY <1>4 DEF FinishQuery
  <2> QED
    BY <1>2, <2>1, <2>2, <2>3 DEF SnapshotsStay
<1>5. CASE request.snapshot # Nothing
  <2>1. Pending
    BY <1>1, <1>5 DEF Pending
  <2>2. snapshots' = SubSeq(snapshots, 1, request.snapshot - 1)
    BY <1>5 DEF FinishQuery, RevertedToSnapshot
  <2> QED
    BY <1>2, <1>3, <2>1, <2>2 DEF SnapshotGone
<1> QED
  BY <1>4, <1>5

LEMMA Asking ==
  ASSUME NodeInv, AskBlock \/ AskBlockByHash \/ AskTransaction \/ AskBlockOf \/ AskReceipt
  PROVE  SnapshotsStay /\ ~MiningAsked /\ ~MiningAsked'
<1>1. request = Idle /\ UNCHANGED <<snapshots, request>>
  BY DEF AskBlock, AskBlockByHash, AskTransaction, AskBlockOf, AskReceipt, Ask
<1> QED
  BY <1>1 DEF SnapshotsStay, Pending, MiningAsked, Idle

LEMMA Beginning ==
  ASSUME NodeInv, BeginPending \/ BeginQuery
  PROVE  (SnapshotsStay \/ SnapshotHidden) /\ ~MiningAsked /\ ~MiningAsked'
<1>1. request = Idle /\ ~Pending /\ ~MiningAsked
  BY DEF BeginPending, BeginQuery, Pending, MiningAsked, Idle
<1>2. CASE BeginQuery
  <2>1. request'.op = "query" /\ request'.snapshot = Nothing /\ UNCHANGED snapshots
    BY <1>2 DEF BeginQuery
  <2> QED
    BY <1>1, <2>1 DEF SnapshotsStay, Pending, MiningAsked
<1>3. CASE BeginPending
  <2>1. request' = Mining(Len(snapshots) + 1) /\ \E new : snapshots' = Append(snapshots, new)
    BY <1>3 DEF BeginPending, TakenSnapshot
  <2>2. request'.op = "mine" /\ request'.snapshot = Len(snapshots) + 1
    BY <2>1 DEF Mining
  <2>3. Len(snapshots) + 1 # Nothing
    BY MarksFacts, NothingIsNoNumber
  <2> QED
    BY <1>1, <2>1, <2>2, <2>3 DEF SnapshotHidden, Pending, MiningAsked, Idle
<1> QED
  BY <1>2, <1>3

(* Steps of a request under way: what is told and asked stays.              *)
LEMMA GoingOn ==
  ASSUME NodeInv,
         \/ PutAccountStep \/ PutContractCodeStep \/ PutContractStorageStep \/ ClearContractStorageStep
         \/ BeginMessage \/ EndMessage \/ BeginTransaction \/ EndTransaction \/ BeginCall
  PROVE  SnapshotsStay /\ MiningAsked' = MiningAsked /\ answer' = answer
<1>1. CASE \/ PutAccountStep \/ PutContractCodeStep \/ PutContractStorageStep \/ ClearContractStorageStep
  <2>1. /\ Running /\ UNCHANGED <<snapshots, answer>>
        /\ \E w : request' = [request EXCEPT !.writes = w]
    BY <1>1 DEF PutAccountStep, PutContractCodeStep, PutContractStorageStep, ClearContractStorageStep, Write
  <2>2. request # Idle
    BY <2>1 DEF Running, Idle
  <2> QED
    BY <2>1, <2>2, RequestGoesOn
<1>2. CASE BeginMessage \/ EndMessage
  <2>1. /\ Running /\ UNCHANGED <<snapshots, answer>>
        /\ \E n : request' = [request EXCEPT !.depth = n]
    BY <1>2 DEF BeginMessage, EndMessage
  <2>2. request # Idle
    BY <2>1 DEF Running, Idle
  <2> QED
    BY <2>1, <2>2, RequestGoesOn
<1>3. CASE BeginTransaction
  <2>1. /\ request.op = "mine" /\ UNCHANGED <<snapshots, answer>>
        /\ \E tx : request' = [request EXCEPT !.txs = @ \cup {tx}, !.depth = 1, !.writes = 0]
    BY <1>3 DEF BeginTransaction
  <2>2. request # Idle
    BY <2>1 DEF Idle
  <2>3. PICK tx : request' = [request EXCEPT !.txs = request.txs \cup {tx}, !.depth = 1, !.writes = 0]
    BY <2>1
  <2>4. \E x, n, w : request' = [request EXCEPT !.txs = x, !.depth = n, !.writes = w]
    BY <2>3
  <2> QED
    BY <2>1, <2>2, <2>4, RequestGoesOn
<1>4. CASE EndTransaction
  <2>1. /\ request.op = "mine" /\ UNCHANGED <<snapshots, answer>>
        /\ \E n : request' = [request EXCEPT !.depth = n]
    BY <1>4 DEF EndTransaction
  <2>2. request # Idle
    BY <2>1 DEF Idle
  <2> QED
    BY <2>1, <2>2, RequestGoesOn
<1>5. CASE BeginCall
  <2>1. /\ request.op = "query" /\ request'.op = "call" /\ request'.snapshot = request.snapshot
        /\ UNCHANGED <<snapshots, answer>>
    BY <1>5 DEF BeginCall
  <2> QED
    BY <2>1 DEF SnapshotsStay, Pending, MiningAsked, Idle
<1> QED
  BY <1>1, <1>2, <1>3, <1>4, <1>5
------------------------------------------------------------------------------
(* The steps that change the history, and those that may                    *)

(* All that the abstract specification sees.                                *)
Stays == Past' = Past /\ Marks' = Marks /\ MiningAsked' = MiningAsked /\ answer' = answer

LEMMA BlockOrMore ==
  ASSUME NodeInv, Unanswered, BuildBlock
  PROVE  H!HistoryNext \/ Stays
<1>1. /\ VisibleBlock' \in {VisibleBlock, VisibleBlock + 1}
      /\ SameUpTo(manager, data, manager', data', VisibleBlock) /\ VisibleBlock \in Nat
      /\ answer' = answer /\ request.op = "mine" /\ UNCHANGED snapshots
  BY BuildBlockStep, VisibleIsBlock DEF BuildBlock
<1>2. request # Idle
  BY <1>1 DEF Idle
<1>3. CASE request.snapshot # Nothing
  <2>1. request'.op = "query" /\ request'.snapshot = request.snapshot
    BY <1>3 DEF BuildBlock
  <2>2. request' # Idle
    BY <2>1 DEF Idle
  <2>3. SnapshotsStay /\ VisibleBlock' = VisibleBlock /\ ~MiningAsked /\ ~MiningAsked'
    BY <1>1, <1>2, <1>3, <2>1, <2>2 DEF SnapshotsStay, VisibleBlock, Pending, MiningAsked
  <2>4. Past' = Past /\ Marks' = Marks
    BY <1>1, <2>3, HistoryStays, MarksStay DEF HistoryKept
  <2>5. MiningAsked' = MiningAsked
    BY <2>3 DEF MiningAsked
  <2> QED
    BY <1>1, <2>4, <2>5 DEF Stays
<1>4. CASE request.snapshot = Nothing
  <2>1. request' = Idle
    BY <1>4 DEF BuildBlock
  <2>2. SnapshotsStay /\ MiningAsked /\ ~MiningAsked'
    BY <1>1, <1>4, <2>1 DEF SnapshotsStay, Pending, MiningAsked, Idle
  <2>3. Marks' = Marks
    BY <2>2, MarksStay
  <2>4. CASE VisibleBlock' = VisibleBlock
    <3>1. Past' = Past
      BY <1>1, <2>4, HistoryStays DEF HistoryKept
    <3>2. H!FailMining
      BY <1>1, <2>2, <2>3, <3>1 DEF H!FailMining, Past, Marks
    <3> QED
      BY <3>2 DEF H!HistoryNext
  <2>5. CASE VisibleBlock' = VisibleBlock + 1
    <3>2. PICK v \in Nat : v = VisibleBlock
      BY <1>1
    <3>3. v + 1 \in Nat /\ VisibleBlock' = v + 1 /\ v <= v + 1
      BY <2>5, <3>2
    <3>4. PICK S : Past \in Seq(S) /\ Past' \in Seq(S)
      BY <3>2, <3>3, PastBoth
    <3>5. Len(Past) = v + 1 /\ \A n \in 0..v : Past[n + 1] = BlockOfHistory(n)
      BY <3>2, PastIsSeq
    <3>6. Len(Past') = v + 2 /\ \A n \in 0..(v + 1) : Past'[n + 1] = BlockOfHistory(n)'
      BY <3>3, PastPrime
    <3>7. \A n \in 0..v : BlockOfHistory(n)' = BlockOfHistory(n)
      BY <1>1, <3>2, SameHistory
    <3>8. \A n \in 0..v : Past[n + 1] = Past'[n + 1]
      <4> SUFFICES ASSUME NEW n \in 0..v
                   PROVE  Past[n + 1] = Past'[n + 1]
        OBVIOUS
      <4>1. n \in 0..(v + 1)
        OBVIOUS
      <4>2. Past'[n + 1] = BlockOfHistory(n)'
        BY <3>6, <4>1
      <4> QED
        BY <3>5, <3>7, <4>2
    <3>9. SubSeq(Past', 1, v + 1) = Past
      <4>1. Len(Past') = (v + 1) + 1
        BY <3>6
      <4> QED
        BY <3>3, <3>4, <3>5, <3>8, <4>1, FirstOfPast
    <3>10. Len(Past') = Len(Past) + 1 /\ SubSeq(Past', 1, Len(Past)) = Past
      BY <3>5, <3>6, <3>9
    <3>11. H!Extends(Past', Past)
      BY <3>10 DEF H!Extends
    <3>12. H!AddBlock
      BY <1>1, <2>2, <2>3, <3>11 DEF H!AddBlock, Past, Marks
    <3> QED
      BY <3>12 DEF H!HistoryNext
  <2> QED
    BY <1>1, <2>4, <2>5
<1> QED
  BY <1>3, <1>4

(* The blocks up to one that stays.                                         *)
LEMMA PastShortened ==
  ASSUME NodeInv, NEW w \in Nat, VisibleBlock' = w, w <= VisibleBlock,
         SameUpTo(manager, data, manager', data', w)
  PROVE  Past' = SubSeq(Past, 1, w + 1)
<1>1. PICK v \in Nat : v = VisibleBlock
  BY VisibleIsBlock
<1>2. w <= v
  BY <1>1
<1>3. PICK S : Past \in Seq(S) /\ Past' \in Seq(S)
  BY <1>1, PastBoth
<1>4. Len(Past) = v + 1 /\ \A n \in 0..v : Past[n + 1] = BlockOfHistory(n)
  BY <1>1, PastIsSeq
<1>5. Len(Past') = w + 1 /\ \A n \in 0..w : Past'[n + 1] = BlockOfHistory(n)'
  BY PastPrime
<1>6. \A n \in 0..w : BlockOfHistory(n)' = BlockOfHistory(n)
  BY SameHistory
<1>7. \A n \in 0..w : Past'[n + 1] = Past[n + 1]
  <2>1. \A n \in 0..w : n \in 0..v
    BY <1>2
  <2> QED
    BY <2>1, <1>4, <1>5, <1>6
<1> QED
  BY <1>2, <1>3, <1>4, <1>5, <1>7, FirstOfPast

LEMMA RevertIsRevert ==
  ASSUME NodeInv, RevertToSnapshot
  PROVE  H!HistoryNext
<1>1. /\ Rests /\ BaseOK(manager, data, snapshots) /\ request = Idle /\ request' = Idle /\ answer' = Nothing
  BY RequestKinds DEF NodeInv, RevertToSnapshot
<1>2. PICK i \in DOMAIN snapshots : RevertedToSnapshot(i, manager)
  BY DEF RevertToSnapshot
<1>3. i \in 1..Len(snapshots) /\ Len(snapshots) \in Nat
  BY <1>2, MarksFacts
<1>4. StoreOK(manager) /\ KeepsRoots(manager, manager) /\ manager.checkpoints = <<>> /\ Home(manager)
  BY <1>1, BaseFacts DEF KeepsRoots, Rests
<1>5. /\ ~Pending /\ ~Pending' /\ ~MiningAsked /\ ~MiningAsked'
  BY <1>1 DEF Pending, MiningAsked, Idle
<1> DEFINE w == snapshots[i].latestBlock.number
<1>6. /\ VisibleBlock' = w /\ w \in ForkBlockNumber..data.latest
      /\ SameUpTo(manager, data, manager', data', w)
  BY <1>1, <1>2, <1>3, <1>4, Reverted
<1>7. VisibleBlock = data.latest /\ data.latest \in Nat /\ ForkBlockNumber \in Nat
  BY <1>1, <1>5, BaseFacts DEF VisibleBlock
<1>8. w \in Nat /\ w <= VisibleBlock
  BY <1>6, <1>7
<1>9. VisibleSnapshots = Len(snapshots) /\ VisibleSnapshots' = Len(snapshots')
  BY <1>5 DEF VisibleSnapshots
<1>10. Len(snapshots') = i - 1 /\ \A k \in 1..(i - 1) : snapshots'[k] = snapshots[k]
  BY <1>2, <1>3, ShorterSnapshots DEF RevertedToSnapshot
<1>11. Marks[i] = w + 1 /\ DOMAIN Marks = 1..Len(snapshots) /\ Marks \in Seq(Nat) /\ Len(Marks) = Len(snapshots)
  <2>1. \A k \in 1..Len(snapshots) : snapshots[k].latestBlock.number + 1 \in Nat
    BY MarksFacts
  <2>2. Marks \in [1..Len(snapshots) -> Nat] /\ Marks[i] = w + 1
    BY <1>3, <1>9, <2>1 DEF Marks
  <2> HIDE DEF w
  <2> QED
    BY <1>3, <2>2
<1> HIDE DEF w
<1>12. Past' = SubSeq(Past, 1, Marks[i])
  BY <1>6, <1>8, <1>11, PastShortened
<1>13. Marks' = SubSeq(Marks, 1, i - 1)
  <2> DEFINE k == i - 1
             short == SubSeq(Marks, 1, k)
  <2>1. k \in Nat /\ k <= Len(snapshots) /\ 1 \in Int /\ k \in Int
    BY <1>3
  <2>2. \A n \in 1..k : n \in 1..Len(snapshots)
    BY <1>3, <2>1
  <2>3. \A n \in 1..k : Marks[n] \in Nat
    BY <1>11, <2>2, ElementOfSeq
  <2>4. Marks' = [n \in 1..k |-> snapshots'[n].latestBlock.number + 1]
    BY <1>9, <1>10 DEF Marks
  <2>5. \A n \in 1..k : snapshots'[n] = snapshots[n]
    BY <1>10
  <2>6. \A n \in 1..k : Marks[n] = snapshots[n].latestBlock.number + 1
    BY <1>9, <2>2 DEF Marks
  <2> HIDE DEF k
  <2>7. Marks' = [n \in 1..k |-> Marks[n]]
    BY <2>4, <2>5, <2>6
  <2>8. /\ short \in Seq(Nat) /\ Len(short) = (IF 1 <= k THEN k - 1 + 1 ELSE 0)
        /\ \A n \in 1..k - 1 + 1 : short[n] = Marks[1 + n - 1]
    BY <2>1, <2>3, SubSeqProperties
  <2> HIDE DEF short
  <2>9. Len(short) = k /\ \A n \in 1..k : short[n] = Marks[n]
    BY <2>1, <2>8
  <2>10. Marks' \in Seq(Nat) /\ Len(Marks') = k /\ \A n \in 1..k : Marks'[n] = Marks[n]
    BY <2>1, <2>3, <2>7
  <2>11. Marks' = short
    BY <2>8, <2>9, <2>10, SeqEqual
  <2> QED
    BY <2>11 DEF short, k
<1>14. H!RevertBlocks
  <2>1. i \in DOMAIN Marks
    BY <1>3, <1>11
  <2>2. MiningAsked' = MiningAsked
    BY <1>5 DEF MiningAsked
  <2>3. \E k \in DOMAIN Marks : Past' = SubSeq(Past, 1, Marks[k]) /\ Marks' = SubSeq(Marks, 1, k - 1)
    BY <1>12, <1>13, <2>1
  <2> QED
    BY <1>1, <1>5, <2>2, <2>3 DEF H!RevertBlocks, Past, Marks
<1> QED
  BY <1>14 DEF H!HistoryNext

LEMMA SnapshotIsSnapshot ==
  ASSUME NodeInv, TakeSnapshot
  PROVE  H!HistoryNext
<1>1. /\ Rests /\ BaseOK(manager, data, snapshots) /\ request = Idle /\ request' = Idle /\ TakenSnapshot
      /\ manager' = GetStateRoot(manager) /\ answer' = Nothing
  BY RequestKinds DEF NodeInv, TakeSnapshot
<1>2. ~Pending /\ ~Pending' /\ ~MiningAsked /\ ~MiningAsked'
  BY <1>1 DEF Pending, MiningAsked, Idle
<1>3. StoreOK(manager')
  BY <1>1, BaseFacts, GetStateRootKeeps
<1>4. snapshots'[Len(snapshots) + 1].latestBlock.number = data.latest
  BY <1>1, <1>3, Taken DEF Rests
<1>5. /\ Len(snapshots') = Len(snapshots) + 1 /\ Len(snapshots) \in Nat
      /\ \A k \in 1..Len(snapshots) : snapshots'[k] = snapshots[k]
  BY <1>1, LongerSnapshots, MarksFacts DEF TakenSnapshot
<1>6. Past' = Past
  BY TakeSnapshotStep, HistoryStays
<1>7. VisibleBlock = data.latest /\ data.latest \in Nat /\ Len(Past) = data.latest + 1
  <2>1. VisibleBlock = data.latest /\ data.latest \in Nat
    BY <1>1, <1>2, BaseFacts DEF VisibleBlock
  <2> QED
    BY <2>1, PastIsSeq
<1>8. VisibleSnapshots = Len(snapshots) /\ VisibleSnapshots' = Len(snapshots) + 1
  BY <1>2, <1>5 DEF VisibleSnapshots
<1>9. Marks' = Append(Marks, Len(Past))
  <2> DEFINE n == Len(snapshots)
             e == data.latest + 1
             long == Append(Marks, e)
  <2>1. n \in Nat /\ e \in Nat
    BY <1>5, <1>7
  <2>2. \A k \in 1..n : snapshots[k].latestBlock.number + 1 \in Nat
    BY MarksFacts
  <2>3. Marks = [k \in 1..n |-> snapshots[k].latestBlock.number + 1]
    BY <1>8 DEF Marks
  <2>4. Marks' = [k \in 1..(n + 1) |-> snapshots'[k].latestBlock.number + 1]
    BY <1>8 DEF Marks
  <2>5. \A k \in 1..(n + 1) : snapshots'[k].latestBlock.number + 1 = IF k = n + 1 THEN e ELSE Marks[k]
    <3> SUFFICES ASSUME NEW k \in 1..(n + 1)
                 PROVE  snapshots'[k].latestBlock.number + 1 = IF k = n + 1 THEN e ELSE Marks[k]
      OBVIOUS
    <3>1. CASE k = n + 1
      BY <1>4, <3>1
    <3>2. CASE k # n + 1
      <4>1. k \in 1..n
        BY <2>1, <3>2
      <4> QED
        BY <1>5, <2>3, <3>2, <4>1
    <3> QED
      BY <3>1, <3>2
  <2> HIDE DEF n, e
  <2>6. Marks \in [1..n -> Nat]
    BY <2>2, <2>3
  <2>7. Marks \in Seq(Nat) /\ Len(Marks) = n
    BY <2>1, <2>6
  <2>8. \A k \in 1..(n + 1) : (IF k = n + 1 THEN e ELSE Marks[k]) \in Nat
    BY <2>1, <2>6
  <2>9. Marks' \in [1..(n + 1) -> Nat] /\ \A k \in 1..(n + 1) : Marks'[k] = IF k = n + 1 THEN e ELSE Marks[k]
    BY <2>4, <2>5, <2>8
  <2>10. Marks' \in Seq(Nat) /\ Len(Marks') = n + 1
    BY <2>1, <2>9
  <2>11. /\ long \in Seq(Nat) /\ Len(long) = n + 1
         /\ \A k \in 1..n : long[k] = Marks[k]
         /\ long[n + 1] = e
    BY <2>1, <2>7, AppendProperties
  <2> HIDE DEF long
  <2>12. \A k \in 1..(n + 1) : Marks'[k] = long[k]
    BY <2>1, <2>9, <2>11
  <2>13. Marks' = long
    BY <2>10, <2>11, <2>12, SeqEqual
  <2> QED
    BY <1>7, <2>13 DEF long, e
<1>10. H!TakeSnapshot
  <2>1. MiningAsked' = MiningAsked
    BY <1>2 DEF MiningAsked
  <2> QED
    BY <1>1, <1>2, <1>6, <1>9, <2>1 DEF H!TakeSnapshot, Past, Marks
<1> QED
  BY <1>10 DEF H!HistoryNext

LEMMA MiningBegins ==
  ASSUME NodeInv, BeginMine, HistoryKept
  PROVE  H!HistoryNext
<1>1. request = Idle /\ request' = Mining(Nothing) /\ UNCHANGED snapshots /\ answer' = Nothing
  BY DEF BeginMine
<1>2. ~MiningAsked /\ MiningAsked' /\ ~Pending /\ ~Pending'
  BY <1>1 DEF MiningAsked, Pending, Mining, Idle
<1>3. Past' = Past /\ Marks' = Marks
  <2>1. SnapshotsStay
    BY <1>1, <1>2 DEF SnapshotsStay, Pending
  <2> QED
    BY <2>1, HistoryStays, MarksStay
<1>4. H!BeginMining
  BY <1>1, <1>2, <1>3 DEF H!BeginMining, Past, Marks
<1> QED
  BY <1>4 DEF H!HistoryNext

LEMMA MiningFails ==
  ASSUME NodeInv, FailMine, HistoryKept
  PROVE  H!HistoryNext \/ Stays
<1>1. request.op = "mine" /\ request # Idle /\ request' = Idle /\ answer' = answer
  BY DEF FailMine, Idle
<1>2. ~MiningAsked' /\ ~Pending'
  BY <1>1 DEF MiningAsked, Pending, Idle
<1>3. CASE request.snapshot = Nothing
  <2>1. SnapshotsStay /\ MiningAsked
    BY <1>1, <1>2, <1>3 DEF FailMine, SnapshotsStay, Pending, MiningAsked
  <2>2. Past' = Past /\ Marks' = Marks
    BY <2>1, HistoryStays, MarksStay
  <2>3. H!FailMining
    BY <1>1, <1>2, <2>1, <2>2 DEF H!FailMining, Past, Marks
  <2> QED
    BY <2>3 DEF H!HistoryNext
<1>4. CASE request.snapshot # Nothing
  <2>1. SnapshotGone /\ ~MiningAsked
    BY <1>1, <1>2, <1>4 DEF FailMine, RevertedToSnapshot, SnapshotGone, Pending, MiningAsked
  <2>2. MiningAsked' = MiningAsked
    BY <1>2, <2>1 DEF MiningAsked
  <2>3. Past' = Past /\ Marks' = Marks
    BY <2>1, HistoryStays, MarksStay
  <2> QED
    BY <1>1, <2>2, <2>3 DEF Stays
<1> QED
  BY <1>3, <1>4

LEMMA AnsweredRight ==
  ASSUME NodeInv, HistoryKept, H!RightAnswer, ~MiningAsked, ~MiningAsked',
         SnapshotsStay \/ SnapshotHidden \/ SnapshotGone
  PROVE  H!HistoryNext
<1>1. Past' = Past /\ Marks' = Marks /\ MiningAsked' = MiningAsked
  BY HistoryStays, MarksStay DEF MiningAsked
<1>2. H!Answer
  BY <1>1 DEF H!Answer, Past, Marks
<1> QED
  BY <1>2 DEF H!HistoryNext

LEMMA HistoryStep ==
  ASSUME NodeInv, Unanswered, Next
  PROVE  H!HistoryNext \/ Stays
<1>1. CASE BuildBlock
  BY <1>1, BlockOrMore
<1>2. CASE RevertToSnapshot
  BY <1>2, RevertIsRevert
<1>3. CASE HistoryKept
  <2>1. CASE AskBlock \/ AskBlockOf \/ AskReceipt
    BY <1>3, <2>1, BlockAsked, TransactionsAsked, Asking, AnsweredRight
  <2>2. CASE AskBlockByHash \/ AskTransaction
    <3>1. H!RightAnswer
      BY <2>2 DEF AskBlockByHash, AskTransaction, H!RightAnswer
    <3> QED
      BY <1>3, <2>2, <3>1, Asking, AnsweredRight
  <2>3. CASE BeginPending \/ BeginQuery
    <3>1. H!RightAnswer
      BY <2>3 DEF BeginPending, BeginQuery, H!RightAnswer
    <3> QED
      BY <1>3, <2>3, <3>1, Beginning, AnsweredRight
  <2>4. CASE ReadAccount
    BY <1>3, <2>4, AccountRead, QueryFinished, AnsweredRight DEF ReadAccount
  <2>5. CASE FailRead \/ EndCall
    <3>1. PICK m : FinishQuery(m) /\ request.op \in {"query", "call"} /\ answer' = answer
      BY <2>5 DEF FailRead, EndCall
    <3>2. (SnapshotsStay \/ SnapshotGone) /\ ~MiningAsked /\ ~MiningAsked'
      BY <3>1, QueryFinished
    <3>3. MiningAsked' = MiningAsked
      BY <3>2 DEF MiningAsked
    <3>4. Past' = Past /\ Marks' = Marks
      BY <1>3, <3>2, HistoryStays, MarksStay
    <3> QED
      BY <3>1, <3>3, <3>4 DEF Stays
  <2>6. CASE \/ PutAccountStep \/ PutContractCodeStep \/ PutContractStorageStep \/ ClearContractStorageStep
             \/ BeginMessage \/ EndMessage \/ BeginTransaction \/ EndTransaction \/ BeginCall
    BY <1>3, <2>6, GoingOn, HistoryStays, MarksStay DEF Stays
  <2> QED
    BY <1>1, <1>2, <1>3, <2>1, <2>2, <2>3, <2>4, <2>5, <2>6,
       SnapshotIsSnapshot, MiningBegins, MiningFails DEF Next
<1> QED
  BY <1>1, <1>2, <1>3, NodeSteps

LEMMA HistoryStarts ==
  ASSUME NodeInit
  PROVE  H!HistoryInit
<1>1. NodeInv /\ answer = Nothing /\ request = Idle /\ snapshots = <<>>
  BY NodeInvInit DEF NodeInit
<1>2. Past # <<>>
  <2>1. VisibleBlock \in Nat
    BY <1>1, VisibleIsBlock
  <2>2. Len(Past) = VisibleBlock + 1
    BY <2>1, PastIsSeq
  <2> QED
    BY <2>1, <2>2
<1>3. Marks = <<>> /\ ~MiningAsked
  <2>1. VisibleSnapshots = 0
    BY <1>1 DEF VisibleSnapshots, Pending
  <2> QED
    BY <1>1, <2>1 DEF Marks, MiningAsked, Idle
<1> QED
  BY <1>1, <1>2, <1>3 DEF H!HistoryInit, Past, Marks

(* Every answer about an account, a block or a transaction is the one its   *)
(* block in the history of the node gives; only a request to mine adds a    *)
(* block to that history, and only a revert to a snapshot cuts it, to what  *)
(* it was when the snapshot was taken.                                      *)
THEOREM ForkedNodeImplementsHistory == Spec => ImplementsHistory
<1>1. NodeInit => H!HistoryInit /\ NodeInv /\ Unanswered
  BY HistoryStarts, NodeInvInit DEF NodeInit, Unanswered
<1>2. NodeInv /\ Unanswered /\ [Next]_vars => Unanswered'
  BY UnansweredStep
<1>3. NodeInv /\ Unanswered /\ [Next]_vars => [H!HistoryNext]_(H!vars)
  <2>1. ASSUME NodeInv, Unanswered, Next PROVE [H!HistoryNext]_(H!vars)
    BY <2>1, HistoryStep DEF H!vars, Past, Marks, Stays
  <2>2. ASSUME UNCHANGED vars PROVE UNCHANGED H!vars
    BY <2>2 DEF vars, H!vars, VisibleBlock, VisibleSnapshots, Pending, MiningAsked, BlockOfHistory
  <2> QED
    BY <2>1, <2>2
<1> QED
  BY <1>1, <1>2, <1>3, ForkInvariant, PTL DEF Spec, ImplementsHistory, H!HistorySpec
==============================================================================
