-------------------------- MODULE HardhatNodeProofs --------------------------
(***************************************************************************)
(* The node, for any senders, transactions, bounds and any resolution of   *)
(* the clock: whatever is mined, asked for, undone and gone back to, the   *)
(* state is that of the latest block, every snapshot can be gone back to,  *)
(* and each block is later than the one before it, but for what was taken  *)
(* off the clock. What its chain holds: each sender's transactions once,   *)
(* in the order of their nonces, as many as its account says. And that     *)
(* what is undone, a question or a send that failed, leaves no trace.      *)
(***************************************************************************)
EXTENDS HardhatNode, TxPoolProofs, SequenceTheorems, FiniteSetTheorems

Accts == [Senders -> Account]

Block == [timestamp : Int, txs : Seq(Txs), stateRoot : Accts]

BlockUnderWay ==
  [timestamp : Int, newOffset : Int, gasUsed : Nat, txs : Seq(Txs),
   heap : [Senders -> SUBSET OrderedTransaction], accounts : Accts]

Snapshot ==
  [id : Nat, date : Nat, latestBlock : Block, height : Nat, stateRoot : Accts,
   txPoolSnapshotId : Nat, offset : Int, nextBlockTimestamp : Int, putBack : Nat]

(* The clock the node shows has reached the latest block, but for what was  *)
(* taken off it since, and a timestamp that is set lies behind that block.  *)
ClockOK(latest, clock, shift, next, back) ==
  latest.timestamp <= clock + shift + back /\ (next # 0 => latest.timestamp < next)

(* What a new block may be older than the one before it.                    *)
NotTooOld(older, back) == older # 0 /\ older <= back

ChainOK ==
  /\ chain \in Seq(Block) /\ Len(chain) > 0
  /\ now \in Nat /\ offset \in Int /\ nextBlockTimestamp \in Int /\ putBack \in Nat
  /\ StateOfLatestBlock
  /\ ClockOK(LatestBlock, CeilSeconds(now), offset, nextBlockTimestamp, putBack)

SnapshotOK(s) ==
  /\ s.height \in 1 .. Len(chain)
  /\ chain[s.height] = s.latestBlock
  /\ s.latestBlock.stateRoot = s.stateRoot
  /\ s.txPoolSnapshotId \in DOMAIN poolSnapshots
  /\ poolSnapshots[s.txPoolSnapshotId].accounts = s.stateRoot
  /\ ClockOK(s.latestBlock, CeilSeconds(s.date), s.offset, s.nextBlockTimestamp, s.putBack)

(* Later snapshots are of longer chains and later pools.                    *)
SnapshotsOK ==
  /\ snapshots \in Seq(Snapshot) /\ nextSnapshotId \in Nat
  /\ \A i \in DOMAIN snapshots : SnapshotOK(snapshots[i]) /\ snapshots[i].id < nextSnapshotId
  /\ \A i, j \in DOMAIN snapshots : i < j =>
       /\ snapshots[i].id < snapshots[j].id
       /\ snapshots[i].height <= snapshots[j].height
       /\ snapshots[i].txPoolSnapshotId < snapshots[j].txPoolSnapshotId

(* A block is built from what is pending, on the latest block.              *)
BuildingOK ==
  building # NoBlock =>
    /\ building \in BlockUnderWay
    /\ request.op \in {"mine", "send", "query", "include", "drain"}
    /\ NotTooOld(LatestBlock.timestamp - building.timestamp, putBack)
    /\ building.timestamp <= CeilSeconds(now) + building.newOffset
    /\ \A s \in Senders :
         /\ building.heap[s] \subseteq pool.pending[s]
         /\ accounts[s].nonce <= building.accounts[s].nonce
         /\ accounts[s].nonce .. building.accounts[s].nonce - 1 \subseteq Nonces(pool.pending[s])

(* The snapshot of a request is the last one, and nothing below it changes  *)
(* while the request is served.                                             *)
WayBackOK ==
  LET n == Len(snapshots)
      s == snapshots[n]
  IN  /\ n > 0
      /\ request.snapshotId = s.id
      /\ request.before.chain = SubSeq(chain, 1, s.height)
      /\ request.before.pool = poolSnapshots[s.txPoolSnapshotId].pool
      /\ request.before.accounts = s.stateRoot
      /\ request.before.snapshots = SubSeq(snapshots, 1, n - 1)
      /\ request.before.nextBlockTimestamp = s.nextBlockTimestamp
      /\ request.before.time = CeilSeconds(s.date) + s.offset

UndoneOps == {"query", "answer query", "add", "include", "drain"}

RequestOK ==
  /\ "op" \in DOMAIN request
  /\ request.op \in {"none", "mine", "send", "query", "answer query", "add", "include", "drain"}
  /\ "snapshotId" \in DOMAIN request =>
       \E i \in DOMAIN snapshots : snapshots[i].id = request.snapshotId
  /\ request.op = "mine" =>
       request.timestamp \in Int /\ (request.timestamp # 0 => LatestBlock.timestamp < request.timestamp)
  /\ request.op = "add" => request.tx \in Txs
  /\ request.op \in UndoneOps => {"snapshotId", "before"} \subseteq DOMAIN request /\ WayBackOK

NodeInv == PoolInv /\ ChainOK /\ SnapshotsOK /\ BuildingOK /\ RequestOK
------------------------------------------------------------------------------
(* Seconds, rounded up                                                      *)
LEMMA CeilBounds ==
  ASSUME NEW t \in Int
  PROVE  /\ CeilSeconds(t) \in Int
         /\ t <= TicksPerSecond * CeilSeconds(t)
         /\ TicksPerSecond * CeilSeconds(t) < t + TicksPerSecond
BY NodeAssumption DEF CeilSeconds

LEMMA NoMultipleBelow ==
  ASSUME NEW k \in Int, TicksPerSecond * k < TicksPerSecond
  PROVE  k <= 0
BY NodeAssumption

LEMMA CeilMonotone ==
  ASSUME NEW t \in Int
  PROVE  CeilSeconds(t) <= CeilSeconds(t + 1)
<1> DEFINE p == CeilSeconds(t)
           q == CeilSeconds(t + 1)
<1>1. /\ p \in Int /\ q \in Int /\ TicksPerSecond \in Nat
      /\ TicksPerSecond * p < t + TicksPerSecond /\ t + 1 <= TicksPerSecond * q
  BY CeilBounds, NodeAssumption
<1> HIDE DEF p, q
<1>2. TicksPerSecond * (p - q) = TicksPerSecond * p - TicksPerSecond * q
  BY <1>1
<1>3. p - q <= 0
  BY <1>1, <1>2, NoMultipleBelow
<1> QED
  BY <1>1, <1>3 DEF p, q

(* Going back by the rounded time since never sets the clock too far back.  *)
LEMMA CeilOfSum ==
  ASSUME NEW a \in Int, NEW b \in Int
  PROVE  CeilSeconds(b) <= CeilSeconds(a) + CeilSeconds(b - a)
<1> DEFINE p == CeilSeconds(a)
           q == CeilSeconds(b - a)
           r == CeilSeconds(b)
<1>1. /\ p \in Int /\ q \in Int /\ r \in Int /\ TicksPerSecond \in Nat
      /\ a <= TicksPerSecond * p /\ b - a <= TicksPerSecond * q
      /\ TicksPerSecond * r < b + TicksPerSecond
  BY CeilBounds, NodeAssumption
<1> HIDE DEF p, q, r
<1>2. TicksPerSecond * (r - p - q) = TicksPerSecond * r - TicksPerSecond * p - TicksPerSecond * q
  BY <1>1
<1>3. r - p - q <= 0
  BY <1>1, <1>2, NoMultipleBelow
<1> QED
  BY <1>1, <1>3 DEF p, q, r

(* ... and puts it forward by a second at most.                             *)
LEMMA CeilOfSumAtMost ==
  ASSUME NEW a \in Int, NEW b \in Int
  PROVE  CeilSeconds(a) + CeilSeconds(b - a) <= CeilSeconds(b) + 1
<1> DEFINE p == CeilSeconds(a)
           q == CeilSeconds(b - a)
           r == CeilSeconds(b)
<1>1. /\ p \in Int /\ q \in Int /\ r \in Int /\ TicksPerSecond \in Nat
      /\ TicksPerSecond * p < a + TicksPerSecond /\ TicksPerSecond * q < b - a + TicksPerSecond
      /\ b <= TicksPerSecond * r
  BY CeilBounds, NodeAssumption
<1> HIDE DEF p, q, r
<1>2. TicksPerSecond * (p + q - r - 1)
        = TicksPerSecond * p + TicksPerSecond * q - TicksPerSecond * r - TicksPerSecond
  BY <1>1
<1>3. p + q - r - 1 <= 0
  BY <1>1, <1>2, NoMultipleBelow
<1> QED
  BY <1>1, <1>3 DEF p, q, r
------------------------------------------------------------------------------
(* What does not touch a part of the state keeps what is said of it.        *)
LEMMA ChainFrame ==
  ASSUME ChainOK, UNCHANGED <<chain, now, clockVars, accounts>>
  PROVE  ChainOK'
BY DEF ChainOK, clockVars, StateOfLatestBlock, LatestBlock, ClockOK, CeilSeconds

LEMMA SnapshotsFrame ==
  ASSUME SnapshotsOK, UNCHANGED <<chain, poolSnapshots, snapshots, nextSnapshotId>>
  PROVE  SnapshotsOK'
BY DEF SnapshotsOK, SnapshotOK, ClockOK, CeilSeconds

LEMMA LatestBlockType ==
  ASSUME ChainOK
  PROVE  /\ Len(chain) \in Nat \ {0}
         /\ LatestBlock \in Block
         /\ LatestBlock.timestamp \in Int
         /\ LatestBlock.stateRoot = accounts
<1>1. Len(chain) \in Nat \ {0} /\ LatestBlock \in Block
  BY DEF ChainOK, LatestBlock
<1> QED
  BY <1>1 DEF ChainOK, StateOfLatestBlock, Block

LEMMA SnapshotType ==
  ASSUME SnapshotsOK, NEW i \in DOMAIN snapshots
  PROVE  /\ snapshots[i] \in Snapshot
         /\ snapshots[i].id \in Nat
         /\ i \in Nat /\ i <= Len(snapshots) /\ i > 0
<1>1. snapshots[i] \in Snapshot /\ i \in 1 .. Len(snapshots) /\ Len(snapshots) \in Nat
  BY DEF SnapshotsOK
<1> QED
  BY <1>1 DEF Snapshot

LEMMA TakenSnapshot ==
  ASSUME NodeInv, TakeSnapshot, UNCHANGED <<chain, now, clockVars>>
  PROVE  /\ SnapshotsOK'
         /\ ChainOK'
         /\ LET n == Len(snapshots')
            IN  /\ n > 0
                /\ snapshots'[n].id = nextSnapshotId
                /\ SubSeq(snapshots', 1, n - 1) = snapshots
                /\ SubSeq(chain', 1, snapshots'[n].height) = chain
                /\ poolSnapshots'[snapshots'[n].txPoolSnapshotId].pool = pool
                /\ snapshots'[n].stateRoot = accounts
                /\ snapshots'[n].nextBlockTimestamp = nextBlockTimestamp
                /\ snapshots'[n].date = now /\ snapshots'[n].offset = offset
<1> DEFINE new == [id |-> nextSnapshotId, date |-> now, latestBlock |-> LatestBlock, height |-> Len(chain),
                   stateRoot |-> accounts, txPoolSnapshotId |-> nextPoolSnapshotId,
                   offset |-> offset, nextBlockTimestamp |-> nextBlockTimestamp, putBack |-> putBack]
<1>1. /\ new \in Snapshot
      /\ new.id = nextSnapshotId /\ new.date = now /\ new.latestBlock = LatestBlock
      /\ new.height = Len(chain) /\ new.stateRoot = accounts
      /\ new.txPoolSnapshotId = nextPoolSnapshotId /\ new.offset = offset
      /\ new.nextBlockTimestamp = nextBlockTimestamp /\ new.putBack = putBack
  BY LatestBlockType DEF NodeInv, ChainOK, SnapshotsOK, PoolInv, PoolOK, Snapshot, Accts
<1>2. /\ snapshots' = Append(snapshots, new) /\ nextSnapshotId' = nextSnapshotId + 1
      /\ DOMAIN poolSnapshots' = DOMAIN poolSnapshots \cup {nextPoolSnapshotId}
      /\ poolSnapshots'[nextPoolSnapshotId] = [pool |-> pool, accounts |-> accounts]
      /\ \A id \in DOMAIN poolSnapshots : id # nextPoolSnapshotId => poolSnapshots'[id] = poolSnapshots[id]
      /\ UNCHANGED <<chain, accounts, now, clockVars>>
  BY DEF TakeSnapshot, SnapshotPool
<1> HIDE DEF new
<1>3. /\ snapshots \in Seq(Snapshot) /\ Len(snapshots) \in Nat /\ nextSnapshotId \in Nat
      /\ \A id \in DOMAIN poolSnapshots : id \in Nat /\ id < nextPoolSnapshotId
      /\ nextPoolSnapshotId \in Nat
  BY DEF NodeInv, SnapshotsOK, PoolInv
<1>4. /\ snapshots' \in Seq(Snapshot) /\ Len(snapshots') = Len(snapshots) + 1
      /\ DOMAIN snapshots' = 1 .. Len(snapshots) + 1
      /\ snapshots'[Len(snapshots) + 1] = new
      /\ \A i \in DOMAIN snapshots : snapshots'[i] = snapshots[i]
      /\ DOMAIN snapshots = 1 .. Len(snapshots)
  BY <1>1, <1>2, <1>3
<1>5. ChainOK'
  BY <1>2, ChainFrame DEF NodeInv
<1>6. \A i \in DOMAIN snapshots' : SnapshotOK(snapshots[i])' /\ snapshots'[i].id < nextSnapshotId'
  <2> SUFFICES ASSUME NEW i \in DOMAIN snapshots'
               PROVE  SnapshotOK(snapshots[i])' /\ snapshots'[i].id < nextSnapshotId'
    OBVIOUS
  <2>1. CASE i = Len(snapshots) + 1
    <3>1. ClockOK(new.latestBlock, CeilSeconds(new.date), new.offset, new.nextBlockTimestamp, new.putBack)
      BY <1>1 DEF NodeInv, ChainOK
    <3> QED
      BY <2>1, <3>1, <1>1, <1>2, <1>3, <1>4, LatestBlockType DEF NodeInv, SnapshotOK, LatestBlock, CeilSeconds
  <2>2. CASE i \in DOMAIN snapshots
    <3>1. SnapshotOK(snapshots[i]) /\ snapshots[i].id < nextSnapshotId /\ snapshots[i].id \in Nat
      BY <2>2, SnapshotType DEF NodeInv, SnapshotsOK
    <3> QED
      BY <2>2, <3>1, <1>2, <1>3, <1>4 DEF SnapshotOK
  <2> QED
    BY <2>1, <2>2, <1>3, <1>4
<1>7. \A i, j \in DOMAIN snapshots' : i < j =>
       /\ snapshots'[i].id < snapshots'[j].id
       /\ snapshots'[i].height <= snapshots'[j].height
       /\ snapshots'[i].txPoolSnapshotId < snapshots'[j].txPoolSnapshotId
  <2> SUFFICES ASSUME NEW i \in DOMAIN snapshots', NEW j \in DOMAIN snapshots', i < j
               PROVE  /\ snapshots'[i].id < snapshots'[j].id
                      /\ snapshots'[i].height <= snapshots'[j].height
                      /\ snapshots'[i].txPoolSnapshotId < snapshots'[j].txPoolSnapshotId
    OBVIOUS
  <2>1. i \in DOMAIN snapshots /\ snapshots'[i] = snapshots[i]
    BY <1>3, <1>4
  <2>2. CASE j = Len(snapshots) + 1
    <3>1. SnapshotOK(snapshots[i]) /\ snapshots[i].id < nextSnapshotId
      BY <2>1 DEF NodeInv, SnapshotsOK
    <3> QED
      BY <2>1, <2>2, <3>1, <1>1, <1>3, <1>4 DEF SnapshotOK
  <2>3. CASE j \in DOMAIN snapshots
    BY <2>1, <2>3, <1>4 DEF NodeInv, SnapshotsOK
  <2> QED
    BY <2>2, <2>3, <1>3, <1>4
<1>8. SnapshotsOK'
  BY <1>2, <1>3, <1>4, <1>6, <1>7 DEF SnapshotsOK
<1>9. SubSeq(snapshots', 1, Len(snapshots)) = snapshots /\ SubSeq(chain, 1, Len(chain)) = chain
  BY <1>1, <1>2, <1>3 DEF NodeInv, ChainOK
<1> QED
  BY <1>1, <1>2, <1>3, <1>4, <1>5, <1>8, <1>9

(* What a revert leaves of the snapshots.                                   *)
LEMMA EarlierSnapshots ==
  ASSUME SnapshotsOK, NEW i \in DOMAIN snapshots
  PROVE  /\ SnapshotsBefore(i) \in Seq(Snapshot)
         /\ DOMAIN SnapshotsBefore(i) = 1 .. i - 1
         /\ \A j \in 1 .. i - 1 : /\ SnapshotsBefore(i)[j] = snapshots[j]
                                  /\ j \in DOMAIN snapshots
<1>1. snapshots \in Seq(Snapshot) /\ i \in 1 .. Len(snapshots) /\ Len(snapshots) \in Nat
  BY DEF SnapshotsOK
<1>2. /\ SubSeq(snapshots, 1, i - 1) \in Seq(Snapshot)
      /\ Len(SubSeq(snapshots, 1, i - 1)) = i - 1
      /\ \A j \in 1 .. i - 1 : SubSeq(snapshots, 1, i - 1)[j] = snapshots[j]
  BY <1>1
<1> QED
  BY <1>1, <1>2 DEF SnapshotsBefore

LEMMA SnapshotRemoved ==
  ASSUME SnapshotsOK, NEW i \in DOMAIN snapshots, snapshots' = SnapshotsBefore(i),
         UNCHANGED <<chain, poolSnapshots, nextSnapshotId>>
  PROVE  SnapshotsOK'
<1>1. /\ snapshots' \in Seq(Snapshot) /\ DOMAIN snapshots' = 1 .. i - 1
      /\ \A j \in DOMAIN snapshots' : snapshots'[j] = snapshots[j] /\ j \in DOMAIN snapshots
  BY EarlierSnapshots
<1>2. \A j \in DOMAIN snapshots' : SnapshotOK(snapshots[j])' /\ snapshots'[j].id < nextSnapshotId'
  BY <1>1 DEF SnapshotsOK, SnapshotOK, ClockOK, CeilSeconds
<1>3. \A j, k \in DOMAIN snapshots' : j < k =>
       /\ snapshots'[j].id < snapshots'[k].id
       /\ snapshots'[j].height <= snapshots'[k].height
       /\ snapshots'[j].txPoolSnapshotId < snapshots'[k].txPoolSnapshotId
  BY <1>1 DEF SnapshotsOK
<1> QED
  BY <1>1, <1>2, <1>3 DEF SnapshotsOK

LEMMA RevertedToSnapshot ==
  ASSUME NodeInv, NEW i \in DOMAIN snapshots, RevertToSnapshot(i), now' = now
  PROVE  ChainOK' /\ SnapshotsOK'
<1> DEFINE s == snapshots[i]
<1>1. /\ chain' = SubSeq(chain, 1, s.height)
      /\ accounts' = poolSnapshots[s.txPoolSnapshotId].accounts
      /\ DOMAIN poolSnapshots' = {id \in DOMAIN poolSnapshots : id < s.txPoolSnapshotId}
      /\ \A id \in DOMAIN poolSnapshots' : poolSnapshots'[id] = poolSnapshots[id]
      /\ offset' = s.offset + CeilSeconds(s.date - now)
      /\ nextBlockTimestamp' = s.nextBlockTimestamp /\ putBack' = s.putBack
      /\ snapshots' = SnapshotsBefore(i)
      /\ nextSnapshotId' = nextSnapshotId
  BY DEF RevertToSnapshot, RevertPool, OffsetBackTo
<1>2. SnapshotOK(s) /\ s \in Snapshot /\ chain \in Seq(Block) /\ now \in Nat
  BY SnapshotType DEF NodeInv, SnapshotsOK, ChainOK
<1>3. /\ s.height \in 1 .. Len(chain) /\ s.date \in Nat /\ s.offset \in Int
      /\ s.nextBlockTimestamp \in Int /\ s.putBack \in Nat /\ s.latestBlock \in Block
      /\ s.latestBlock.timestamp \in Int
  BY <1>2 DEF SnapshotOK, Snapshot, Block
<1>4. /\ chain' \in Seq(Block) /\ Len(chain') = s.height
      /\ \A k \in 1 .. s.height : chain'[k] = chain[k]
  BY <1>1, <1>2, <1>3
<1>5. ChainOK'
  <2>1. LatestBlock' = s.latestBlock
    BY <1>2, <1>3, <1>4 DEF LatestBlock, SnapshotOK
  <2>2. StateOfLatestBlock'
    BY <2>1, <1>1, <1>2 DEF StateOfLatestBlock, SnapshotOK
  <2> DEFINE c == CeilSeconds(now)
             d == CeilSeconds(s.date)
             e == CeilSeconds(s.date - now)
             t == s.latestBlock.timestamp
             o == s.offset
             back == s.putBack
  <2>3. c \in Int /\ d \in Int /\ e \in Int /\ d <= c + e
    <3>1. s.date \in Int /\ now \in Int /\ s.date - now \in Int
      BY <1>2, <1>3
    <3> HIDE DEF s
    <3> QED
      BY <3>1, CeilBounds, CeilOfSum
  <2>4. /\ t \in Int /\ o \in Int /\ back \in Nat /\ t <= d + o + back
        /\ s.nextBlockTimestamp # 0 => t < s.nextBlockTimestamp
    BY <1>2, <1>3 DEF SnapshotOK, ClockOK
  <2>5. o + e \in Int /\ t <= c + (o + e) + back
    <3> HIDE DEF c, d, e, t, o, back
    <3> QED
      BY <2>3, <2>4
  <2>6. /\ offset' = o + e /\ putBack' = back /\ nextBlockTimestamp' = s.nextBlockTimestamp
        /\ LatestBlock'.timestamp = t /\ (CeilSeconds(now))' = c
    BY <2>1, <1>1 DEF CeilSeconds
  <2>7. /\ chain' \in Seq(Block) /\ Len(chain') > 0 /\ now' \in Nat /\ nextBlockTimestamp' \in Int
    BY <1>1, <1>2, <1>3, <1>4
  <2> HIDE DEF c, d, e, t, o, back
  <2> QED
    BY <2>2, <2>4, <2>5, <2>6, <2>7 DEF ChainOK, ClockOK
<1>6. SnapshotsOK'
  <2>1. /\ snapshots' \in Seq(Snapshot) /\ DOMAIN snapshots' = 1 .. i - 1
        /\ \A j \in DOMAIN snapshots' : snapshots'[j] = snapshots[j] /\ j \in DOMAIN snapshots
    BY <1>1, EarlierSnapshots DEF NodeInv
  <2>2. ASSUME NEW j \in DOMAIN snapshots'
        PROVE  SnapshotOK(snapshots[j])' /\ snapshots'[j].id < nextSnapshotId'
    <3>1. /\ SnapshotOK(snapshots[j]) /\ snapshots[j].id < nextSnapshotId
          /\ snapshots[j].height <= s.height
          /\ snapshots[j].txPoolSnapshotId < s.txPoolSnapshotId
      BY <2>1, SnapshotType DEF NodeInv, SnapshotsOK
    <3>2. snapshots[j].height \in 1 .. Len(chain')
      BY <3>1, <1>3, <1>4 DEF SnapshotOK
    <3>3. chain'[snapshots[j].height] = chain[snapshots[j].height]
      BY <3>2, <1>3, <1>4
    <3>4. /\ snapshots[j].txPoolSnapshotId \in DOMAIN poolSnapshots'
          /\ poolSnapshots'[snapshots[j].txPoolSnapshotId] = poolSnapshots[snapshots[j].txPoolSnapshotId]
      BY <3>1, <1>1 DEF SnapshotOK
    <3> HIDE DEF s
    <3> QED
      BY <3>1, <3>2, <3>3, <3>4, <2>1, <1>1 DEF SnapshotOK, ClockOK, CeilSeconds
  <2>3. \A j, k \in DOMAIN snapshots' : j < k =>
         /\ snapshots'[j].id < snapshots'[k].id
         /\ snapshots'[j].height <= snapshots'[k].height
         /\ snapshots'[j].txPoolSnapshotId < snapshots'[k].txPoolSnapshotId
    BY <2>1 DEF NodeInv, SnapshotsOK
  <2> QED
    BY <2>1, <2>2, <2>3, <1>1 DEF NodeInv, SnapshotsOK
<1> QED
  BY <1>5, <1>6

(* The snapshot a request or a caller names.                                *)
LEMMA SnapshotFound ==
  ASSUME NEW id, \E i \in DOMAIN snapshots : snapshots[i].id = id
  PROVE  SnapshotIndex(id) \in DOMAIN snapshots /\ snapshots[SnapshotIndex(id)].id = id
BY DEF SnapshotIndex
------------------------------------------------------------------------------
(* Building a block                                                         *)
MiningOps == {"mine", "send", "query", "include", "drain"}

LEMMA TimestampChosen ==
  ASSUME ChainOK, NEW asked \in Int, asked # 0 => LatestBlock.timestamp < asked
  PROVE  LET time == TimestampAndOffset(asked)
         IN  /\ time.timestamp \in Int /\ time.newOffset \in Int
             /\ time.timestamp = CeilSeconds(now) + time.newOffset
             /\ LatestBlock.timestamp <= time.timestamp + putBack
             /\ asked # 0 \/ nextBlockTimestamp # 0 => LatestBlock.timestamp < time.timestamp
<1>1. /\ LatestBlock.timestamp \in Int /\ offset \in Int /\ nextBlockTimestamp \in Int /\ now \in Int
      /\ putBack \in Nat
      /\ LatestBlock.timestamp <= CeilSeconds(now) + offset + putBack
      /\ nextBlockTimestamp # 0 => LatestBlock.timestamp < nextBlockTimestamp
  BY LatestBlockType DEF ChainOK, ClockOK
<1>2. CeilSeconds(now) \in Int /\ CurrentTimestamp = CeilSeconds(now)
  BY <1>1, CeilBounds DEF CurrentTimestamp, CeilSeconds
<1>3. CASE asked # 0
  BY <1>1, <1>2, <1>3 DEF TimestampAndOffset
<1>4. CASE asked = 0 /\ nextBlockTimestamp # 0
  BY <1>1, <1>2, <1>4 DEF TimestampAndOffset
<1>5. CASE asked = 0 /\ nextBlockTimestamp = 0
  BY <1>1, <1>2, <1>5 DEF TimestampAndOffset
<1> QED
  BY <1>3, <1>4, <1>5

LEMMA BlockStarted ==
  ASSUME NodeInv, NEW asked \in Int, asked # 0 => LatestBlock.timestamp < asked,
         StartBlock(asked), request.op \in MiningOps,
         UNCHANGED <<poolVars, chain, now, clockVars, request>>
  PROVE  BuildingOK'
<1> DEFINE time == TimestampAndOffset(asked)
           late == IF time.timestamp = LatestBlock.timestamp THEN 1 ELSE 0
           free == asked = 0 /\ nextBlockTimestamp = 0
           t == time.timestamp + late
           o == time.newOffset + IF free THEN late ELSE 0
<1>1. /\ time.timestamp \in Int /\ time.newOffset \in Int
      /\ time.timestamp = CeilSeconds(now) + time.newOffset
      /\ LatestBlock.timestamp <= time.timestamp + putBack
      /\ ~free => LatestBlock.timestamp < time.timestamp
      /\ LatestBlock.timestamp \in Int /\ CeilSeconds(now) \in Int /\ putBack \in Nat
  <2>1. ChainOK /\ now \in Int /\ putBack \in Nat
    BY DEF NodeInv, ChainOK
  <2>2. LatestBlock.timestamp \in Int /\ CeilSeconds(now) \in Int
    BY <2>1, LatestBlockType, CeilBounds
  <2> QED
    BY <2>1, <2>2, TimestampChosen
<1>2. building' = NewBlock(t, o)
  BY DEF StartBlock
<1> HIDE DEF time
<1>3. /\ t \in Int /\ o \in Int /\ t <= CeilSeconds(now) + o
      /\ NotTooOld(LatestBlock.timestamp - t, putBack)
  BY <1>1 DEF NotTooOld
<1> HIDE DEF t, o
<1>4. /\ building' \in BlockUnderWay
      /\ building'.timestamp = t /\ building'.newOffset = o
      /\ building'.heap = pool.pending /\ building'.accounts = accounts
  BY <1>2, <1>3 DEF NewBlock, BlockUnderWay, NodeInv, PoolInv, PoolOK, PoolState, Accts
<1>5. \A s \in Senders : accounts[s].nonce \in Nat
  BY TxAssumption DEF NodeInv, PoolInv, PoolOK, Account
<1> QED
  BY <1>3, <1>4, <1>5 DEF BuildingOK, MiningOps, poolVars, clockVars, LatestBlock, CeilSeconds

LEMMA SenderSkipped ==
  ASSUME NodeInv, SkipSender
  PROVE  BuildingOK'
<1>1. PICK otx \in HeapTops : building' = [building EXCEPT !.heap[otx.data.from] = {}]
  BY DEF SkipSender
<1>2. /\ BuildingOK /\ building # NoBlock
      /\ UNCHANGED <<pool, accounts, chain, now, putBack, request>>
  BY DEF NodeInv, SkipSender, poolVars, clockVars
<1>3. building \in BlockUnderWay
  BY <1>2 DEF BuildingOK
<1>4. /\ building' \in BlockUnderWay
      /\ building'.timestamp = building.timestamp /\ building'.newOffset = building.newOffset
      /\ building'.accounts = building.accounts
      /\ \A s \in Senders : building'.heap[s] \subseteq building.heap[s]
  BY <1>1, <1>3 DEF BlockUnderWay
<1> QED
  BY <1>2, <1>4 DEF BuildingOK, LatestBlock, CeilSeconds

(* What is executed is pending, has the next nonce and can be paid.         *)
LEMMA ExecutedAccounts ==
  ASSUME NEW accts \in Accts, NEW tx \in Txs, Accepts(accts, tx), BaseFee <= tx.gasLimit
  PROVE  /\ Executed(accts, tx) \in Accts
         /\ tx.from \in Senders
         /\ Executed(accts, tx)[tx.from].nonce = tx.nonce + 1
         /\ \A s \in Senders \ {tx.from} : Executed(accts, tx)[s] = accts[s]
<1> DEFINE price == tx.gasPrice
           limit == tx.gasLimit
           have == accts[tx.from].balance
           left == have - MinTxFee * price - tx.value
<1>1. /\ tx.from \in Senders /\ tx.nonce \in 0 .. MaxNonce /\ limit \in Nat
      /\ price \in Nat /\ tx.value \in Nat /\ MaxNonce \in Nat /\ BaseFee \in Nat /\ MinTxFee \in Nat
      /\ MinTxFee <= limit /\ Balances \subseteq Nat
  BY TxAssumption, NodeAssumption
<1>2. /\ accts[tx.from] \in Account /\ have \in Balances /\ have \in Nat
      /\ accts[tx.from].nonce = tx.nonce
      /\ limit * price + tx.value <= have
  BY <1>1 DEF Accepts, UpfrontCost, Accts, Account
<1>3. left \in 0 .. have
  <2> HIDE DEF price, limit, have
  <2>1. MinTxFee * price <= limit * price /\ MinTxFee * price \in Nat /\ limit * price \in Nat
    BY <1>1
  <2> QED
    BY <2>1, <1>1, <1>2
<1>4. left \in Balances
  BY <1>2, <1>3, NodeAssumption
<1>5. Executed(accts, tx) = [accts EXCEPT ![tx.from] = [nonce |-> tx.nonce + 1, balance |-> left]]
  BY <1>2 DEF Executed, GasUsed
<1>6. [nonce |-> tx.nonce + 1, balance |-> left] \in Account
  BY <1>1, <1>4 DEF Account
<1> HIDE DEF left
<1> QED
  BY <1>1, <1>5, <1>6 DEF Accts

LEMMA TransactionExecuted ==
  ASSUME NodeInv, ExecuteTransaction
  PROVE  BuildingOK'
<1>1. PICK otx \in HeapTops :
        /\ Accepts(building.accounts, otx.data)
        /\ building' = [building EXCEPT
                          !.heap[otx.data.from] = @ \ {otx},
                          !.txs = Append(@, otx.data),
                          !.gasUsed = @ + GasUsed(otx.data),
                          !.accounts = Executed(@, otx.data)]
  BY DEF ExecuteTransaction
<1>2. /\ BuildingOK /\ building # NoBlock
      /\ UNCHANGED <<pool, accounts, chain, now, putBack, request>>
  BY DEF NodeInv, ExecuteTransaction, poolVars, clockVars
<1>3. /\ building \in BlockUnderWay
      /\ \A s \in Senders :
         /\ building.heap[s] \subseteq pool.pending[s]
         /\ accounts[s].nonce <= building.accounts[s].nonce
         /\ accounts[s].nonce .. building.accounts[s].nonce - 1 \subseteq Nonces(pool.pending[s])
  BY <1>2 DEF BuildingOK
<1> DEFINE tx == otx.data
<1>4. PICK sender \in Senders : otx \in building.heap[sender]
  BY DEF HeapTops
<1>5. /\ otx \in OrderedTransaction /\ tx \in Txs /\ tx.from = sender /\ BaseFee <= tx.gasLimit
      /\ otx \in pool.pending[sender] /\ tx.nonce \in Nat
  BY <1>3, <1>4, NonceType DEF BlockUnderWay, NodeInv, PoolInv, PoolOK
<1>6. building.accounts \in Accts /\ building.gasUsed \in Nat /\ building.txs \in Seq(Txs)
  BY <1>3 DEF BlockUnderWay
<1>7. /\ Executed(building.accounts, tx) \in Accts
      /\ Executed(building.accounts, tx)[sender].nonce = tx.nonce + 1
      /\ \A s \in Senders \ {sender} : Executed(building.accounts, tx)[s] = building.accounts[s]
  BY <1>1, <1>5, <1>6, ExecutedAccounts
<1>8. Append(building.txs, tx) \in Seq(Txs) /\ building.gasUsed + GasUsed(tx) \in Nat
  BY <1>5, <1>6, NodeAssumption DEF GasUsed
<1>9. /\ building' \in BlockUnderWay
      /\ building'.timestamp = building.timestamp /\ building'.newOffset = building.newOffset
      /\ building'.accounts = Executed(building.accounts, tx)
      /\ \A s \in Senders : building'.heap[s] \subseteq building.heap[s]
  <2> DEFINE h == [building.heap EXCEPT ![sender] = @ \ {otx}]
             a == Executed(building.accounts, tx)
             l == Append(building.txs, tx)
             g == building.gasUsed + GasUsed(tx)
  <2>1. h \in [Senders -> SUBSET OrderedTransaction] /\ \A s \in Senders : h[s] \subseteq building.heap[s]
    BY <1>3, <1>4 DEF BlockUnderWay
  <2>2. building' = [building EXCEPT !.heap = h, !.txs = l, !.gasUsed = g, !.accounts = a]
    BY <1>1, <1>3, <1>5 DEF BlockUnderWay
  <2>3. a \in Accts /\ l \in Seq(Txs) /\ g \in Nat
    BY <1>7, <1>8
  <2> HIDE DEF h, a, l, g
  <2>4. /\ building' \in BlockUnderWay
        /\ building'.timestamp = building.timestamp /\ building'.newOffset = building.newOffset
        /\ building'.accounts = a /\ building'.heap = h
    BY <2>1, <2>2, <2>3, <1>3 DEF BlockUnderWay
  <2> QED
    BY <2>1, <2>4 DEF a
<1>10. \A s \in Senders :
         /\ accounts[s].nonce <= building'.accounts[s].nonce
         /\ accounts[s].nonce .. building'.accounts[s].nonce - 1 \subseteq Nonces(pool.pending[s])
  <2> SUFFICES ASSUME NEW s \in Senders
               PROVE  /\ accounts[s].nonce <= building'.accounts[s].nonce
                      /\ accounts[s].nonce .. building'.accounts[s].nonce - 1 \subseteq Nonces(pool.pending[s])
    OBVIOUS
  <2>1. accounts[s].nonce \in Nat
    BY TxAssumption DEF NodeInv, PoolInv, PoolOK, Account
  <2>2. CASE s = sender
    <3>1. building.accounts[s].nonce = tx.nonce
      BY <2>2, <1>1, <1>5 DEF Accepts
    <3>2. tx.nonce \in Nonces(pool.pending[s])
      BY <2>2, <1>5 DEF Nonces
    <3>3. accounts[s].nonce <= tx.nonce /\ accounts[s].nonce .. tx.nonce - 1 \subseteq Nonces(pool.pending[s])
      BY <3>1, <1>3
    <3>4. building'.accounts[s].nonce = tx.nonce + 1
      BY <2>2, <1>7, <1>9
    <3> QED
      BY <3>2, <3>3, <3>4, <2>1, <1>5
  <2>3. CASE s # sender
    BY <2>3, <1>3, <1>7, <1>9
  <2> QED
    BY <2>2, <2>3
<1> QED
  BY <1>2, <1>3, <1>9, <1>10 DEF BuildingOK, LatestBlock, CeilSeconds

(* The block is on the chain: for the pool, BlockMined.                     *)
LEMMA BlockFinished ==
  ASSUME NodeInv, FinishBlock
  PROVE  BlockMined /\ ChainOK' /\ SnapshotsOK'
<1> DEFINE block == [timestamp |-> building.timestamp, txs |-> building.txs,
                     stateRoot |-> building.accounts]
<1>1. /\ building # NoBlock /\ BuildingOK
      /\ chain' = Append(chain, block)
      /\ accounts' = building.accounts
      /\ pool' = UpdatePendingAndQueued(pool, building.accounts)
      /\ offset' = building.newOffset /\ nextBlockTimestamp' = 0 /\ putBack' = 0
      /\ UNCHANGED <<poolSnapshots, nextPoolSnapshotId, nextOrderId, now, snapshots, nextSnapshotId>>
  BY DEF FinishBlock, PoolAfterBlock, snapshotVars, NodeInv
<1>2. /\ building \in BlockUnderWay
      /\ building.timestamp <= CeilSeconds(now) + building.newOffset
      /\ building.accounts \in Accts /\ building.newOffset \in Int /\ building.timestamp \in Int
  BY <1>1 DEF BuildingOK, BlockUnderWay
<1>3. BlockMined
  BY <1>1, <1>2 DEF BuildingOK, BlockMined, Accts
<1>4. block \in Block /\ block.timestamp = building.timestamp /\ block.stateRoot = building.accounts
  BY <1>2 DEF Block, BlockUnderWay
<1> HIDE DEF block
<1>5. chain \in Seq(Block) /\ Len(chain) \in Nat \ {0} /\ now \in Nat /\ CeilSeconds(now) \in Int
  BY LatestBlockType, CeilBounds DEF NodeInv, ChainOK
<1>6. /\ chain' \in Seq(Block) /\ Len(chain') = Len(chain) + 1
      /\ chain'[Len(chain) + 1] = block
      /\ \A i \in 1 .. Len(chain) : chain'[i] = chain[i]
  BY <1>1, <1>4, <1>5
<1>7. LatestBlock' = block
  BY <1>6 DEF LatestBlock
<1>8. ChainOK'
  <2>1. (CeilSeconds(now))' = CeilSeconds(now)
    BY <1>1 DEF CeilSeconds
  <2> QED
    BY <2>1, <1>1, <1>2, <1>4, <1>5, <1>6, <1>7 DEF ChainOK, ClockOK, StateOfLatestBlock
<1>9. SnapshotsOK'
  <2>1. \A i \in DOMAIN snapshots : SnapshotOK(snapshots[i])'
    BY <1>1, <1>5, <1>6 DEF NodeInv, SnapshotsOK, SnapshotOK, ClockOK, CeilSeconds
  <2> QED
    BY <2>1, <1>1 DEF NodeInv, SnapshotsOK
<1> QED
  BY <1>3, <1>8, <1>9
------------------------------------------------------------------------------
(* Requests                                                                 *)
LEMMA IdleNode ==
  ASSUME NodeInv, ~Busy
  PROVE  request = Idle /\ request.op = "none" /\ building = NoBlock
<1>1. request = Idle /\ request.op = "none"
  BY DEF Busy, Idle
<1> QED
  BY <1>1 DEF NodeInv, BuildingOK

LEMMA IdleAgain ==
  ASSUME request' = Idle
  PROVE  RequestOK'
BY DEF RequestOK, UndoneOps, Idle

LEMMA WayBackFrame ==
  ASSUME WayBackOK, UNCHANGED <<snapshots, poolSnapshots, chain>>,
         request'.snapshotId = request.snapshotId, request'.before = request.before
  PROVE  WayBackOK'
BY DEF WayBackOK, CeilSeconds

LEMMA RequestFrame ==
  ASSUME RequestOK, UNCHANGED <<request, chain, snapshots, poolSnapshots>>
  PROVE  RequestOK'
<1>1. WayBackOK => WayBackOK'
  BY WayBackFrame
<1> QED
  BY <1>1 DEF RequestOK, LatestBlock

(* Every step of the node is a step of the pool or leaves the pool alone.   *)
LEMMA PoolStep == NodeInv /\ [NodeNext]_nodeVars => [TxPoolNext]_poolVars
<1> SUFFICES ASSUME NodeInv, [NodeNext]_nodeVars PROVE [TxPoolNext]_poolVars
  OBVIOUS
<1>1. ASSUME NEW i, RevertToSnapshot(i)
      PROVE  TxPoolNext
  BY <1>1 DEF RevertToSnapshot, RevertPool, TxPoolNext
<1>2. ASSUME NEW reason, Undo(reason)
      PROVE  [TxPoolNext]_poolVars
  BY <1>1, <1>2 DEF Undo
<1>3. TakeSnapshot => TxPoolNext
  BY DEF TakeSnapshot, TxPoolNext
<1>4. CASE ServeRequest
  <2>1. CASE AddWithPending
    BY <2>1 DEF AddWithPending, NodeInv, RequestOK, TxPoolNext
  <2>2. CASE MineForRequest
    BY <2>2 DEF MineForRequest
  <2>3. CASE NothingToMine
    BY <2>3, <1>2 DEF NothingToMine
  <2>4. CASE FinishSending
    BY <2>4 DEF FinishSending
  <2>5. CASE AnswerQuery
    BY <2>5, <1>2 DEF AnswerQuery
  <2>6. CASE SkipSender
    BY <2>6 DEF SkipSender
  <2>7. CASE ExecuteTransaction
    BY <2>7 DEF ExecuteTransaction
  <2>8. CASE FailBlock
    BY <2>8, <1>2 DEF FailBlock
  <2>9. CASE FinishBlock
    BY <2>9, BlockFinished DEF TxPoolNext
  <2> QED
    BY <1>4, <2>1, <2>2, <2>3, <2>4, <2>5, <2>6, <2>7, <2>8, <2>9 DEF ServeRequest
<1>5. CASE AcceptRequest
  <2>1. ASSUME NEW tx \in Txs, SendToPool(tx) \/ SendAndMine(tx) \/ SendAndMinePending(tx)
        PROVE  TxPoolNext
    BY <2>1, <1>3 DEF SendToPool, SendAndMine, SendAndMinePending, TxPoolNext
  <2>2. ASSUME NEW t, Mine(t) \/ SetNextBlockTimestamp(t)
        PROVE  UNCHANGED poolVars
    BY <2>2 DEF Mine, SetNextBlockTimestamp
  <2>3. QueryPending \/ EvmSnapshot => TxPoolNext
    BY <1>3 DEF QueryPending, EvmSnapshot
  <2>4. ASSUME NEW id, EvmRevert(id)
        PROVE  TxPoolNext
    BY <2>4, <1>1 DEF EvmRevert
  <2>5. ASSUME NEW x, SetAutomine(x) \/ IncreaseTime(x)
        PROVE  UNCHANGED poolVars
    BY <2>5 DEF SetAutomine, IncreaseTime
  <2>6. ASSUME NEW limit \in GasLimits, EvmSetBlockGasLimit(limit)
        PROVE  TxPoolNext
    BY <2>6 DEF EvmSetBlockGasLimit, TxPoolNext
  <2> QED
    BY <1>5, <2>1, <2>2, <2>3, <2>4, <2>5, <2>6 DEF AcceptRequest
<1>6. CASE Tick
  BY <1>6 DEF Tick
<1>7. CASE UNCHANGED nodeVars
  BY <1>7 DEF nodeVars
<1> QED
  BY <1>4, <1>5, <1>6, <1>7 DEF NodeNext
------------------------------------------------------------------------------
(* Every step keeps what is said of the node.                               *)
LEMMA NodeInvInit == NodeInit => NodeInv
<1> SUFFICES ASSUME NodeInit PROVE NodeInv
  OBVIOUS
<1>1. PoolInv
  BY PoolInvInit DEF NodeInit
<1>2. accounts \in Accts
  BY DEF NodeInit, TxPoolInit, Accts
<1>3. /\ chain = << [timestamp |-> CurrentTimestamp, txs |-> <<>>, stateRoot |-> accounts] >>
      /\ now = FirstTick /\ offset = 0 /\ nextBlockTimestamp = 0 /\ putBack = 0
      /\ snapshots = <<>> /\ nextSnapshotId = 1 /\ building = NoBlock /\ request = Idle
  BY DEF NodeInit
<1>4. now \in Nat /\ CurrentTimestamp \in Int /\ CurrentTimestamp = CeilSeconds(now)
  BY <1>3, NodeAssumption, CeilBounds DEF CurrentTimestamp, CeilSeconds
<1>5. /\ chain \in Seq(Block) /\ Len(chain) = 1 /\ chain[1].timestamp = CurrentTimestamp
      /\ chain[1].stateRoot = accounts
  BY <1>2, <1>3, <1>4 DEF Block
<1>6. ChainOK
  BY <1>3, <1>4, <1>5 DEF ChainOK, StateOfLatestBlock, LatestBlock, ClockOK
<1>7. SnapshotsOK
  BY <1>3 DEF SnapshotsOK
<1>8. BuildingOK /\ RequestOK
  BY <1>3 DEF BuildingOK, RequestOK, UndoneOps, Idle
<1> QED
  BY <1>1, <1>6, <1>7, <1>8 DEF NodeInv

(* A request that fails, or a question that is answered.                    *)
LEMMA RequestUndone ==
  ASSUME NodeInv, NEW reason, Undo(reason)
  PROVE  ChainOK' /\ SnapshotsOK' /\ BuildingOK' /\ RequestOK'
<1>1. BuildingOK' /\ RequestOK' /\ now' = now
  BY IdleAgain DEF Undo, BuildingOK
<1>2. CASE "snapshotId" \in DOMAIN request
  <2> DEFINE i == SnapshotIndex(request.snapshotId)
  <2>1. i \in DOMAIN snapshots
    BY <1>2, SnapshotFound DEF NodeInv, RequestOK
  <2>2. RevertToSnapshot(i)
    BY <1>2 DEF Undo
  <2> HIDE DEF i
  <2> QED
    BY <2>1, <2>2, <1>1, RevertedToSnapshot
<1>3. CASE "snapshotId" \notin DOMAIN request
  <2>1. UNCHANGED <<poolVars, chain, clockVars, snapshotVars, now>>
    BY <1>3, <1>1 DEF Undo
  <2> QED
    BY <2>1, <1>1, ChainFrame, SnapshotsFrame DEF NodeInv, poolVars, clockVars, snapshotVars
<1> QED
  BY <1>2, <1>3

(* What a request does next when its block is in the chain.                 *)
LEMMA RequestGoesOn ==
  ASSUME NodeInv, FinishBlock
  PROVE  RequestOK'
<1>1. /\ building # NoBlock /\ BuildingOK /\ RequestOK /\ SnapshotsOK /\ ChainOK
      /\ request' = AfterBlock
      /\ chain' = Append(chain, [timestamp |-> building.timestamp, txs |-> building.txs,
                                 stateRoot |-> building.accounts])
      /\ UNCHANGED <<snapshots, poolSnapshots>>
  BY DEF NodeInv, FinishBlock, snapshotVars
<1>2. request.op \in {"mine", "send", "query", "include", "drain"}
  BY <1>1 DEF BuildingOK
<1>3. CASE request.op \in {"mine", "send"}
  <2>1. request' = Idle
    BY <1>1, <1>3 DEF AfterBlock
  <2> QED
    BY <2>1, IdleAgain
<1>4. CASE request.op \in {"query", "include", "drain"}
  <2>1. \/ request.op = "query" /\ request' = [request EXCEPT !.op = "answer query"]
        \/ request.op \in {"include", "drain"} /\ request' = [request EXCEPT !.op = "drain"]
        \/ request.op \in {"include", "drain"} /\ request' = request
    BY <1>1, <1>4 DEF AfterBlock
  <2>2. {"op", "snapshotId", "before"} \subseteq DOMAIN request /\ WayBackOK
    BY <1>1, <1>4 DEF RequestOK, UndoneOps
  <2>3. /\ DOMAIN request' = DOMAIN request /\ request'.op \in {"answer query", "include", "drain"}
        /\ request'.snapshotId = request.snapshotId
        /\ request'.before = request.before
    BY <2>1, <2>2
  <2>4. WayBackOK'
    <3>1. Len(snapshots) > 0 /\ Len(snapshots) \in DOMAIN snapshots /\ Len(snapshots) \in Nat
      BY <2>2, <1>1 DEF WayBackOK, SnapshotsOK
    <3>2. SnapshotOK(snapshots[Len(snapshots)])
      BY <3>1, <1>1 DEF SnapshotsOK
    <3> DEFINE h == snapshots[Len(snapshots)].height
               b == [timestamp |-> building.timestamp, txs |-> building.txs,
                     stateRoot |-> building.accounts]
    <3>3. h \in 1 .. Len(chain) /\ chain \in Seq(Block) /\ Len(chain) \in Nat
      BY <3>2, <1>1 DEF SnapshotOK, ChainOK
    <3>4. b \in Block
      BY <1>1 DEF BuildingOK, BlockUnderWay, Block
    <3>5. SubSeq(chain', 1, h) = SubSeq(chain, 1, h)
      <4>1. chain' = Append(chain, b)
        BY <1>1
      <4> HIDE DEF h, b
      <4> QED
        BY <4>1, <3>3, <3>4
    <3> QED
      BY <3>5, <2>2, <2>3, <1>1 DEF WayBackOK, CeilSeconds
  <2> QED
    BY <2>2, <2>3, <2>4, <1>1 DEF RequestOK
<1> QED
  BY <1>2, <1>3, <1>4

LEMMA Served ==
  ASSUME NodeInv, ServeRequest
  PROVE  ChainOK' /\ SnapshotsOK' /\ BuildingOK' /\ RequestOK'
<1>1. ASSUME UNCHANGED <<poolVars, chain, now, clockVars, snapshotVars, request>>, BuildingOK'
      PROVE  ChainOK' /\ SnapshotsOK' /\ BuildingOK' /\ RequestOK'
  BY <1>1, ChainFrame, SnapshotsFrame, RequestFrame DEF NodeInv, poolVars, clockVars, snapshotVars
<1>2. CASE AddWithPending
  <2>1. /\ request.op = "add" /\ request' = [request EXCEPT !.op = "include"]
        /\ UNCHANGED <<chain, now, clockVars, snapshots, nextSnapshotId, building,
                       poolSnapshots, accounts>>
    BY <1>2 DEF AddWithPending, AddTransaction, snapshotVars
  <2>2. RequestOK /\ building = NoBlock
    BY <2>1 DEF NodeInv, BuildingOK
  <2>3. {"op", "snapshotId", "before"} \subseteq DOMAIN request /\ WayBackOK
    BY <2>1, <2>2 DEF RequestOK, UndoneOps
  <2>4. /\ DOMAIN request' = DOMAIN request /\ request'.op = "include"
        /\ request'.snapshotId = request.snapshotId /\ request'.before = request.before
    BY <2>1, <2>3
  <2>5. WayBackOK'
    BY <2>1, <2>3, <2>4, WayBackFrame
  <2>6. RequestOK'
    BY <2>1, <2>2, <2>3, <2>4, <2>5 DEF RequestOK
  <2> QED
    BY <2>1, <2>2, <2>6, ChainFrame, SnapshotsFrame DEF NodeInv, BuildingOK
<1>3. CASE MineForRequest
  <2>1. PICK asked \in Int :
          /\ asked # 0 => LatestBlock.timestamp < asked
          /\ StartBlock(asked)
          /\ request.op \in MiningOps
    <3>1. CASE request.op = "mine" /\ StartBlock(request.timestamp)
      BY <3>1 DEF NodeInv, RequestOK, MiningOps
    <3>2. CASE request.op \in {"send", "query", "include", "drain"} /\ StartBlock(0)
      BY <3>2 DEF MiningOps
    <3> QED
      BY <1>3, <3>1, <3>2 DEF MineForRequest
  <2>2. UNCHANGED <<poolVars, chain, now, clockVars, snapshotVars, request>>
    BY <1>3 DEF MineForRequest
  <2>3. BuildingOK'
    BY <2>1, <2>2, BlockStarted
  <2> QED
    BY <2>2, <2>3, <1>1
<1>4. CASE NothingToMine
  BY <1>4, RequestUndone DEF NothingToMine
<1>5. CASE FinishSending
  <2>1. /\ request.op = "drain" /\ building' = building /\ building = NoBlock /\ request' = Idle
        /\ snapshots' = SnapshotsBefore(SnapshotIndex(request.snapshotId))
        /\ nextSnapshotId' = nextSnapshotId
        /\ UNCHANGED <<poolSnapshots, accounts, chain, now, clockVars>>
    BY <1>5 DEF FinishSending, RemoveSnapshot, poolVars
  <2>2. SnapshotIndex(request.snapshotId) \in DOMAIN snapshots
    BY <2>1, SnapshotFound DEF NodeInv, RequestOK, UndoneOps
  <2> QED
    BY <2>1, <2>2, SnapshotRemoved, ChainFrame, IdleAgain DEF NodeInv, BuildingOK
<1>6. CASE AnswerQuery
  BY <1>6, RequestUndone DEF AnswerQuery
<1>7. CASE SkipSender
  <2>1. UNCHANGED <<poolVars, chain, now, clockVars, snapshotVars, request>>
    BY <1>7 DEF SkipSender
  <2> QED
    BY <2>1, <1>1, <1>7, SenderSkipped
<1>8. CASE ExecuteTransaction
  <2>1. UNCHANGED <<poolVars, chain, now, clockVars, snapshotVars, request>>
    BY <1>8 DEF ExecuteTransaction
  <2> QED
    BY <2>1, <1>1, <1>8, TransactionExecuted
<1>9. CASE FailBlock
  BY <1>9, RequestUndone DEF FailBlock
<1>10. CASE FinishBlock
  <2>1. BuildingOK'
    BY <1>10 DEF FinishBlock, BuildingOK
  <2> QED
    BY <2>1, <1>10, BlockFinished, RequestGoesOn
<1> QED
  BY <1>2, <1>3, <1>4, <1>5, <1>6, <1>7, <1>8, <1>9, <1>10 DEF ServeRequest

(* The snapshot a request takes is its way back.                            *)
LEMMA WayBackTaken ==
  ASSUME NodeInv, TakeSnapshot, UNCHANGED <<chain, now, clockVars>>,
         request'.snapshotId = nextSnapshotId, request'.before = NodeState
  PROVE  /\ ChainOK' /\ SnapshotsOK' /\ WayBackOK'
         /\ \E i \in DOMAIN snapshots' : snapshots'[i].id = nextSnapshotId
<1> DEFINE n == Len(snapshots')
<1>1. /\ SnapshotsOK' /\ ChainOK'
      /\ n > 0 /\ snapshots'[n].id = nextSnapshotId
      /\ SubSeq(snapshots', 1, n - 1) = snapshots
      /\ SubSeq(chain', 1, snapshots'[n].height) = chain
      /\ poolSnapshots'[snapshots'[n].txPoolSnapshotId].pool = pool
      /\ snapshots'[n].stateRoot = accounts
      /\ snapshots'[n].nextBlockTimestamp = nextBlockTimestamp
      /\ snapshots'[n].date = now /\ snapshots'[n].offset = offset
  BY TakenSnapshot
<1>2. n \in DOMAIN snapshots'
  BY <1>1 DEF SnapshotsOK
<1>3. /\ NodeState.chain = chain /\ NodeState.pool = pool /\ NodeState.accounts = accounts
      /\ NodeState.snapshots = snapshots /\ NodeState.nextBlockTimestamp = nextBlockTimestamp
      /\ NodeState.time = CeilSeconds(now) + offset
  BY DEF NodeState, CurrentTimestamp, CeilSeconds
<1> QED
  BY <1>1, <1>2, <1>3 DEF WayBackOK, CeilSeconds

LEMMA Accepted ==
  ASSUME NodeInv, AcceptRequest
  PROVE  ChainOK' /\ SnapshotsOK' /\ BuildingOK' /\ RequestOK'
<1> DEFINE Kept == ChainOK' /\ SnapshotsOK' /\ BuildingOK' /\ RequestOK'
<1>1. ASSUME ~Busy
      PROVE  request = Idle /\ building = NoBlock /\ RequestOK /\ NodeInv
  BY <1>1, IdleNode DEF NodeInv
<1>2. ASSUME ~Busy, building' = building, request' = request
      PROVE  BuildingOK' /\ RequestOK'
  BY <1>1, <1>2, IdleAgain DEF BuildingOK
<1>3. ASSUME NEW tx \in Txs, SendToPool(tx)
      PROVE  Kept
  BY <1>2, <1>3, ChainFrame, SnapshotsFrame DEF SendToPool, AddTransaction, snapshotVars, NodeInv
<1>4. ASSUME NEW tx \in Txs, SendAndMine(tx)
      PROVE  Kept
  <2>1. /\ building' = NoBlock /\ request' = [op |-> "send"]
        /\ UNCHANGED <<chain, now, clockVars, snapshots, nextSnapshotId, poolSnapshots, accounts>>
    BY <1>1, <1>4 DEF SendAndMine, AddTransaction, snapshotVars
  <2> QED
    BY <2>1, ChainFrame, SnapshotsFrame DEF NodeInv, RequestOK, UndoneOps, BuildingOK
<1>5. ASSUME NEW tx \in Txs, SendAndMinePending(tx)
      PROVE  Kept
  <2>1. /\ building' = NoBlock /\ TakeSnapshot
        /\ request' = [op |-> "add", tx |-> tx, snapshotId |-> nextSnapshotId, before |-> NodeState]
        /\ UNCHANGED <<chain, now, clockVars>>
    BY <1>1, <1>5 DEF SendAndMinePending
  <2>2. /\ DOMAIN request' = {"op", "tx", "snapshotId", "before"} /\ request'.op = "add"
        /\ request'.tx \in Txs
        /\ request'.snapshotId = nextSnapshotId /\ request'.before = NodeState
    BY <2>1
  <2> QED
    BY <2>1, <2>2, WayBackTaken DEF RequestOK, BuildingOK
<1>6. ASSUME NEW t \in Int, Mine(t)
      PROVE  Kept
  <2>1. /\ building' = NoBlock /\ request' = [op |-> "mine", timestamp |-> t]
        /\ t # 0 => t > LatestBlock.timestamp
        /\ UNCHANGED <<poolVars, chain, now, clockVars, snapshotVars>>
    BY <1>1, <1>6 DEF Mine
  <2>2. LatestBlock' = LatestBlock /\ LatestBlock.timestamp \in Int
    BY <2>1, LatestBlockType DEF LatestBlock, NodeInv
  <2>3. RequestOK'
    BY <2>1, <2>2 DEF RequestOK, UndoneOps
  <2> QED
    BY <2>1, <2>3, ChainFrame, SnapshotsFrame DEF NodeInv, BuildingOK, poolVars, snapshotVars
<1>7. ASSUME NEW t \in Int, SetNextBlockTimestamp(t)
      PROVE  Kept
  <2>1. /\ t > LatestBlock.timestamp /\ nextBlockTimestamp' = t
        /\ UNCHANGED <<poolVars, chain, now, offset, putBack, snapshotVars, building, request>>
    BY <1>7 DEF SetNextBlockTimestamp
  <2>2. SnapshotsOK' /\ BuildingOK' /\ RequestOK'
    BY <2>1, <1>2, <1>7, SnapshotsFrame DEF NodeInv, poolVars, snapshotVars, SetNextBlockTimestamp
  <2>3. ChainOK'
    BY <2>1, LatestBlockType
       DEF NodeInv, ChainOK, StateOfLatestBlock, LatestBlock, ClockOK, CeilSeconds, poolVars
  <2> QED
    BY <2>2, <2>3
<1>8. ASSUME QueryPending PROVE Kept
  <2>1. /\ building' = NoBlock /\ TakeSnapshot
        /\ request' = [op |-> "query", snapshotId |-> nextSnapshotId, before |-> NodeState]
        /\ UNCHANGED <<chain, now, clockVars>>
    BY <1>1, <1>8 DEF QueryPending
  <2>2. /\ DOMAIN request' = {"op", "snapshotId", "before"} /\ request'.op = "query"
        /\ request'.snapshotId = nextSnapshotId /\ request'.before = NodeState
    BY <2>1
  <2> QED
    BY <2>1, <2>2, WayBackTaken DEF RequestOK, BuildingOK
<1>9. ASSUME EvmSnapshot PROVE Kept
  <2>1. TakeSnapshot /\ UNCHANGED <<chain, now, clockVars>>
    BY <1>9 DEF EvmSnapshot
  <2> QED
    BY <2>1, <1>2, <1>9, TakenSnapshot DEF EvmSnapshot
<1>10. ASSUME NEW id, EvmRevert(id)
       PROVE  Kept
  <2> DEFINE i == SnapshotIndex(id)
  <2>1. i \in DOMAIN snapshots /\ RevertToSnapshot(i) /\ now' = now
    BY <1>10, SnapshotFound DEF EvmRevert
  <2> HIDE DEF i
  <2> QED
    BY <2>1, <1>2, <1>10, RevertedToSnapshot DEF EvmRevert
<1>11. ASSUME NEW enabled, SetAutomine(enabled)
       PROVE  Kept
  BY <1>2, <1>11, ChainFrame, SnapshotsFrame
     DEF SetAutomine, NodeInv, poolVars, snapshotVars
<1>12. ASSUME NEW increment \in Increments, IncreaseTime(increment)
       PROVE  Kept
  <2>1. /\ offset' = offset + increment /\ increment \in Int
        /\ putBack' = putBack + IF increment < 0 THEN -increment ELSE 0
        /\ UNCHANGED <<poolVars, chain, now, nextBlockTimestamp, snapshotVars, building, request>>
    BY <1>12, NodeAssumption DEF IncreaseTime
  <2>2. SnapshotsOK' /\ BuildingOK' /\ RequestOK'
    BY <2>1, <1>2, <1>12, SnapshotsFrame DEF NodeInv, poolVars, snapshotVars, IncreaseTime
  <2>3. ChainOK'
    <3>1. /\ LatestBlock.timestamp \in Int /\ CeilSeconds(now) \in Int /\ offset \in Int
          /\ putBack \in Nat
          /\ LatestBlock.timestamp <= CeilSeconds(now) + offset + putBack
      <4>1. ChainOK /\ now \in Int
        BY DEF NodeInv, ChainOK
      <4> QED
        BY <4>1, LatestBlockType, CeilBounds DEF ChainOK, ClockOK
    <3>2. LatestBlock' = LatestBlock /\ (CeilSeconds(now))' = CeilSeconds(now)
      BY <2>1 DEF LatestBlock, CeilSeconds
    <3> HIDE DEF Kept
    <3> QED
      BY <2>1, <3>1, <3>2
         DEF NodeInv, ChainOK, StateOfLatestBlock, ClockOK, poolVars
  <2> QED
    BY <2>2, <2>3
<1>13. ASSUME NEW limit, EvmSetBlockGasLimit(limit)
       PROVE  Kept
  BY <1>2, <1>13, ChainFrame, SnapshotsFrame
     DEF EvmSetBlockGasLimit, SetBlockGasLimit, NodeInv, snapshotVars
<1>14. \A jump \in Jumps : LatestBlock.timestamp + jump \in Int
  BY NodeAssumption, LatestBlockType DEF NodeInv
<1> HIDE DEF Kept
<1>15. (\E tx \in Txs : SendToPool(tx) \/ SendAndMine(tx) \/ SendAndMinePending(tx)) => Kept
  BY <1>3, <1>4, <1>5
<1>16. (\E jump \in Jumps : \/ Mine(LatestBlock.timestamp + jump)
                            \/ SetNextBlockTimestamp(LatestBlock.timestamp + jump)) => Kept
  BY <1>6, <1>7, <1>14
<1>17. Mine(0) => Kept
  BY <1>6
<1>18. (\E id \in 1 .. nextSnapshotId - 1 : EvmRevert(id)) => Kept
  BY <1>10
<1>19. (\E enabled \in BOOLEAN : SetAutomine(enabled)) => Kept
  BY <1>11
<1>20. (\E increment \in Increments : IncreaseTime(increment)) => Kept
  BY <1>12
<1>21. (\E limit \in GasLimits : EvmSetBlockGasLimit(limit)) => Kept
  BY <1>13
<1>22. Kept
  BY <1>8, <1>9, <1>15, <1>16, <1>17, <1>18, <1>19, <1>20, <1>21 DEF AcceptRequest
<1> QED
  BY <1>22 DEF Kept

(* Time only moves what is known of the clock; blocks may be under way.     *)
LEMMA ClockTicks ==
  ASSUME NodeInv, Tick
  PROVE  ChainOK' /\ SnapshotsOK' /\ BuildingOK' /\ RequestOK'
<1>1. /\ now' = now + 1
      /\ UNCHANGED <<poolVars, chain, offset, nextBlockTimestamp, putBack, snapshots, nextSnapshotId, building, request>>
  BY DEF Tick, clockVars, snapshotVars
<1>2. LatestBlock' = LatestBlock
  BY <1>1 DEF LatestBlock
<1>3. /\ (CeilSeconds(now))' \in Int /\ CeilSeconds(now) \in Int
      /\ CeilSeconds(now) <= (CeilSeconds(now))'
  <2>1. now \in Int /\ now + 1 \in Int
    BY DEF NodeInv, ChainOK
  <2>2. (CeilSeconds(now))' = CeilSeconds(now + 1)
    BY <1>1 DEF CeilSeconds
  <2> QED
    BY <2>1, <2>2, CeilBounds, CeilMonotone
<1>4. ChainOK'
  BY <1>1, <1>2, <1>3, LatestBlockType
     DEF NodeInv, ChainOK, StateOfLatestBlock, ClockOK, poolVars
<1>5. BuildingOK'
  <2> SUFFICES ASSUME building # NoBlock
               PROVE  building.timestamp <= (CeilSeconds(now))' + building.newOffset /\ BuildingOK
    BY <1>1, <1>2 DEF BuildingOK, poolVars
  <2>1. /\ building.timestamp \in Int /\ building.newOffset \in Int
        /\ building.timestamp <= CeilSeconds(now) + building.newOffset
    BY DEF NodeInv, BuildingOK, BlockUnderWay
  <2> QED
    BY <2>1, <1>3 DEF NodeInv
<1> QED
  BY <1>1, <1>4, <1>5, SnapshotsFrame, RequestFrame DEF NodeInv, poolVars

LEMMA NodeInvStep == NodeInv /\ [NodeNext]_nodeVars => NodeInv'
<1> SUFFICES ASSUME NodeInv, [NodeNext]_nodeVars PROVE NodeInv'
  OBVIOUS
<1>1. PoolInv'
  BY PoolStep, PoolInvStep DEF NodeInv
<1>2. CASE UNCHANGED nodeVars
  <2>1. UNCHANGED <<poolVars, chain, now, clockVars, snapshotVars, building, request>>
    BY <1>2 DEF nodeVars
  <2>2. BuildingOK'
    BY <2>1 DEF NodeInv, BuildingOK, LatestBlock, CeilSeconds, poolVars, clockVars
  <2> QED
    BY <1>1, <2>1, <2>2, ChainFrame, SnapshotsFrame, RequestFrame
       DEF NodeInv, poolVars, clockVars, snapshotVars
<1> QED
  BY <1>1, <1>2, Served, Accepted, ClockTicks DEF NodeNext, NodeInv

(* The node, its pool and its snapshots are in order whatever is sent,      *)
(* mined, asked for, undone and gone back to.                               *)
THEOREM NodeInvariant == NodeSpec => []NodeInv
<1>1. NodeInit => NodeInv
  BY NodeInvInit
<1>2. NodeInv /\ [NodeNext]_nodeVars => NodeInv'
  BY NodeInvStep
<1> QED
  BY <1>1, <1>2, PTL DEF NodeSpec
------------------------------------------------------------------------------
(* The accounts the node answers from are those of the latest block.        *)
THEOREM StateStaysOfLatestBlock == NodeSpec => []StateOfLatestBlock
<1>1. NodeInv => StateOfLatestBlock
  BY DEF NodeInv, ChainOK
<1> QED
  BY <1>1, NodeInvariant, PTL

(* Every snapshot that is left can be gone back to.                         *)
THEOREM SnapshotsStayUsable == NodeSpec => []SnapshotsUsable
<1>1. NodeInv => SnapshotsUsable
  <2> SUFFICES ASSUME NodeInv, NEW i \in DOMAIN snapshots
               PROVE  LET snapshot == snapshots[i]
                      IN  /\ snapshot.height <= Len(chain)
                          /\ chain[snapshot.height] = snapshot.latestBlock
                          /\ snapshot.latestBlock.stateRoot = snapshot.stateRoot
                          /\ snapshot.txPoolSnapshotId \in DOMAIN poolSnapshots
                          /\ poolSnapshots[snapshot.txPoolSnapshotId].accounts = snapshot.stateRoot
    BY DEF SnapshotsUsable
  <2>1. SnapshotOK(snapshots[i]) /\ Len(chain) \in Nat
    BY DEF NodeInv, SnapshotsOK, ChainOK
  <2> QED
    BY <2>1 DEF SnapshotOK
<1> QED
  BY <1>1, NodeInvariant, PTL

(* The node uses its pool as the pool is specified, so what is proved of    *)
(* the pool holds in the node.                                              *)
THEOREM NodeImplementsTxPool == NodeSpec => ImplementsTxPool
<1>1. NodeInit => TxPoolInit
  BY DEF NodeInit
<1>2. NodeInv /\ [NodeNext]_nodeVars => [TxPoolNext]_poolVars
  BY PoolStep
<1> QED
  BY <1>1, <1>2, NodeInvariant, PTL DEF NodeSpec, TxPoolSpec, ImplementsTxPool

(* In the node too, what is pending can be mined one after the other.       *)
THEOREM NodePendingWithoutGaps == NodeSpec => []PendingWithoutGaps
BY NodeImplementsTxPool, PendingStaysWithoutGaps, PTL DEF ImplementsTxPool

(* In the node too, what is queued waits for another transaction.           *)
THEOREM NodeQueuedWait == NodeSpec => []QueuedWaitForOthers
BY NodeImplementsTxPool, QueuedAlwaysWait, PTL DEF ImplementsTxPool

(* In the node too, what is found by its hash is in the pool.               *)
THEOREM NodeFindsPooled == NodeSpec => []FoundByHashIsPooled
BY NodeImplementsTxPool, FoundByHashStaysPooled, PTL DEF ImplementsTxPool

(* Whatever the node mines, only a revert takes away what could still be    *)
(* executed.                                                                *)
THEOREM NodeKeepsViable == NodeSpec => NothingViableLost
BY NodeImplementsTxPool, ViableKept, PTL DEF ImplementsTxPool

(* The snapshot a request goes back to is the last one: no two snapshots    *)
(* have one id.                                                             *)
LEMMA LastSnapshot ==
  ASSUME SnapshotsOK, WayBackOK
  PROVE  SnapshotIndex(request.snapshotId) = Len(snapshots)
<1> DEFINE n == Len(snapshots)
           i == SnapshotIndex(request.snapshotId)
<1>1. n \in DOMAIN snapshots /\ n \in Nat /\ snapshots[n].id = request.snapshotId
  BY DEF WayBackOK, SnapshotsOK
<1>2. i \in DOMAIN snapshots /\ snapshots[i].id = request.snapshotId
  BY <1>1, SnapshotFound
<1> HIDE DEF i
<1>3. i \in Nat /\ i <= n /\ snapshots[n].id \in Nat
  BY <1>1, <1>2, SnapshotType
<1>4. i < n => snapshots[i].id < snapshots[n].id
  BY <1>1, <1>2 DEF SnapshotsOK
<1> QED
  BY <1>1, <1>2, <1>3, <1>4 DEF i

(* What a request undoes leaves everything as it was when it took its       *)
(* snapshot.                                                                *)
LEMMA Undone ==
  ASSUME NodeInv, request.op \in UndoneOps, NEW reason, Undo(reason)
  PROVE  LeftAsBefore
<1> DEFINE n == Len(snapshots)
           s == snapshots[n]
<1>1. "snapshotId" \in DOMAIN request /\ WayBackOK /\ SnapshotsOK /\ ChainOK
  BY DEF NodeInv, RequestOK
<1>2. RevertToSnapshot(n) /\ now' = now
  BY <1>1, LastSnapshot DEF Undo
<1>3. n \in DOMAIN snapshots
  BY <1>1 DEF WayBackOK, SnapshotsOK
<1>4. SnapshotOK(s) /\ s \in Snapshot
  BY <1>1, <1>3 DEF SnapshotsOK
<1>5. /\ chain' = SubSeq(chain, 1, s.height)
      /\ pool' = poolSnapshots[s.txPoolSnapshotId].pool
      /\ accounts' = s.stateRoot
      /\ nextBlockTimestamp' = s.nextBlockTimestamp
      /\ offset' = s.offset + CeilSeconds(s.date - now)
      /\ snapshots' = SubSeq(snapshots, 1, n - 1)
  BY <1>2, <1>4 DEF RevertToSnapshot, RevertPool, SnapshotsBefore, SnapshotOK, OffsetBackTo
<1>6. /\ s.date \in Int /\ s.offset \in Int /\ now \in Int /\ s.date - now \in Int
  BY <1>1, <1>4 DEF Snapshot, ChainOK
<1>7. CurrentTimestamp' = CeilSeconds(now)
  BY <1>2 DEF CurrentTimestamp, CeilSeconds
<1>8. /\ request.before.chain = SubSeq(chain, 1, s.height)
      /\ request.before.pool = poolSnapshots[s.txPoolSnapshotId].pool
      /\ request.before.accounts = s.stateRoot
      /\ request.before.snapshots = SubSeq(snapshots, 1, n - 1)
      /\ request.before.nextBlockTimestamp = s.nextBlockTimestamp
      /\ request.before.time = CeilSeconds(s.date) + s.offset
  BY <1>1 DEF WayBackOK
<1>9. (CurrentTimestamp + offset)' - request.before.time \in {0, 1}
  <2> DEFINE p == CeilSeconds(now)
             q == CeilSeconds(s.date - now)
             r == CeilSeconds(s.date)
  <2>1. /\ p \in Int /\ q \in Int /\ r \in Int
        /\ r <= p + q /\ p + q <= r + 1
    <3> HIDE DEF s
    <3> QED
      BY <1>6, CeilBounds, CeilOfSum, CeilOfSumAtMost
  <2> DEFINE o == s.offset
  <2>2. (CurrentTimestamp + offset)' = p + (o + q) /\ request.before.time = r + o /\ o \in Int
    BY <1>5, <1>6, <1>7, <1>8
  <2> HIDE DEF p, q, r, o
  <2>3. (p + (o + q)) - (r + o) \in {0, 1}
    BY <2>1, <2>2
  <2> QED
    BY <2>2, <2>3
<1> QED
  BY <1>5, <1>8, <1>9 DEF LeftAsBefore

(* Mining the pending block to look at it leaves chain, state, pool,        *)
(* snapshots and the next timestamp as they were, and the clock too, but    *)
(* for rounding.                                                            *)
THEOREM QueriesNeverLeaveTrace == NodeSpec => QueriesLeaveNoTrace
<1> DEFINE NoTrace ==
      request.op \in {"query", "answer query"} /\ request' = Idle => LeftAsBefore
<1>1. ASSUME NodeInv, request.op \in {"query", "answer query"}, NEW reason, Undo(reason)
      PROVE  NoTrace
  BY <1>1, Undone DEF UndoneOps
<1>2. ASSUME NodeInv, NodeNext, request.op \in {"query", "answer query"}, request' = Idle
      PROVE  \E reason : Undo(reason)
  <2> HIDE DEF NoTrace
  <2>1. request # Idle /\ Busy
    <3>1. Idle.op = "none"
      BY DEF Idle
    <3>2. request.op # "none"
      BY <1>2
    <3> QED
      BY <3>1, <3>2 DEF Busy
  <2>2. CASE ServeRequest
    <3>1. ~AddWithPending /\ ~FinishSending /\ ~NothingToMine
      BY <1>2 DEF AddWithPending, FinishSending, NothingToMine
    <3>2. ~MineForRequest /\ ~SkipSender /\ ~ExecuteTransaction
      BY <1>2, <2>1 DEF MineForRequest, SkipSender, ExecuteTransaction
    <3>3. ~FinishBlock
      <4> SUFFICES ASSUME FinishBlock PROVE FALSE
        OBVIOUS
      <4>1. request.op = "query" /\ request' = [request EXCEPT !.op = "answer query"]
        BY <1>2 DEF FinishBlock, AfterBlock, NodeInv, BuildingOK
      <4>2. "op" \in DOMAIN request
        BY <1>2 DEF NodeInv, RequestOK
      <4>3. request'.op = "answer query" /\ Idle.op = "none"
        BY <4>1, <4>2 DEF Idle
      <4> QED
        BY <4>3, <1>2
    <3> QED
      BY <2>2, <3>1, <3>2, <3>3 DEF ServeRequest, FailBlock, AnswerQuery
  <2>3. ~AcceptRequest
    BY <2>1 DEF AcceptRequest, SendToPool, SendAndMine, SendAndMinePending, Mine, QueryPending,
                EvmSnapshot, EvmRevert, SetAutomine, SetNextBlockTimestamp, IncreaseTime,
                EvmSetBlockGasLimit
  <2>4. ~Tick
    BY <1>2, <2>1 DEF Tick
  <2> QED
    BY <1>2, <2>2, <2>3, <2>4 DEF NodeNext
<1>3. NodeInv /\ [NodeNext]_nodeVars => [NoTrace]_nodeVars
  <2> SUFFICES ASSUME NodeInv, NodeNext,
                      request.op \in {"query", "answer query"}, request' = Idle
               PROVE  NoTrace
    OBVIOUS
  <2> HIDE DEF NoTrace
  <2> QED
    BY <1>1, <1>2
<1> QED
  BY <1>3, NodeInvariant, PTL DEF NodeSpec, QueriesLeaveNoTrace

------------------------------------------------------------------------------
(* Nonces: what a block uses of each sender, and what the chain has used.   *)
PositionsOf(s, txs) == {j \in DOMAIN txs : txs[j].from = s}
NoncesOf(s, txs) == {txs[j].nonce : j \in PositionsOf(s, txs)}

(* The transactions of a sender lead from one nonce of its account to       *)
(* another, using each nonce between them once.                             *)
LeadsTo(s, txs, before, after) ==
  /\ NoncesOf(s, txs) = before .. after - 1
  /\ after = before + Cardinality(PositionsOf(s, txs))

UsedUpTo(s, i) == UNION {NoncesOf(s, chain[k].txs) : k \in 1 .. i}

(* What a snapshot goes back to is again such a chain, so this is said of   *)
(* every block and not of the last one only.                                *)
NoncesOK ==
  \A s \in Senders :
    /\ \A i \in DOMAIN chain : UsedUpTo(s, i) = 0 .. chain[i].stateRoot[s].nonce - 1
    /\ \A i \in 2 .. Len(chain) :
         chain[i].stateRoot[s].nonce = chain[i - 1].stateRoot[s].nonce + Cardinality(PositionsOf(s, chain[i].txs))

BlockNoncesOK ==
  building # NoBlock =>
    \A s \in Senders : LeadsTo(s, building.txs, accounts[s].nonce, building.accounts[s].nonce)

LEMMA PositionsFinite ==
  ASSUME NEW txs \in Seq(Txs), NEW s
  PROVE  /\ IsFiniteSet(PositionsOf(s, txs))
         /\ Cardinality(PositionsOf(s, txs)) \in Nat
<1>1. PositionsOf(s, txs) \in SUBSET (1 .. Len(txs)) /\ Len(txs) \in Nat
  BY DEF PositionsOf
<1>2. IsFiniteSet(1 .. Len(txs))
  BY <1>1, FS_Interval
<1> QED
  BY <1>1, <1>2, FS_Subset, FS_CardinalityType

LEMMA NoTransactions ==
  ASSUME NEW s, NEW n \in Nat
  PROVE  LeadsTo(s, <<>>, n, n)
<1>1. PositionsOf(s, <<>>) = {} /\ NoncesOf(s, <<>>) = {}
  BY DEF PositionsOf, NoncesOf
<1>2. n .. n - 1 = {}
  OBVIOUS
<1> QED
  BY <1>1, <1>2, FS_EmptySet DEF LeadsTo

LEMMA NextTransaction ==
  ASSUME NEW txs \in Seq(Txs), NEW tx \in Txs, NEW s, NEW before \in Nat, NEW after \in Nat,
         LeadsTo(s, txs, before, after), tx.from = s => tx.nonce = after
  PROVE  LeadsTo(s, Append(txs, tx), before, IF tx.from = s THEN after + 1 ELSE after)
<1> DEFINE more == Append(txs, tx)
           n == Len(txs) + 1
<1>1. /\ n \in Nat /\ DOMAIN txs = 1 .. n - 1 /\ DOMAIN more = 1 .. n /\ n \notin DOMAIN txs
      /\ more[n] = tx /\ \A j \in DOMAIN txs : more[j] = txs[j]
      /\ DOMAIN more = DOMAIN txs \cup {n}
  OBVIOUS
<1>2. IsFiniteSet(PositionsOf(s, txs)) /\ Cardinality(PositionsOf(s, txs)) \in Nat
  BY PositionsFinite
<1>3. n \notin PositionsOf(s, txs)
  BY <1>1 DEF PositionsOf
<1> HIDE DEF more, n
<1>4. CASE tx.from = s
  <2>1. PositionsOf(s, more) = PositionsOf(s, txs) \cup {n}
    BY <1>1, <1>4 DEF PositionsOf
  <2>2. Cardinality(PositionsOf(s, more)) = Cardinality(PositionsOf(s, txs)) + 1
    BY <1>2, <1>3, <2>1, FS_AddElement
  <2>3. NoncesOf(s, more) = NoncesOf(s, txs) \cup {after}
    BY <1>1, <1>3, <1>4, <2>1 DEF NoncesOf, PositionsOf
  <2>4. before <= after
    BY <1>2 DEF LeadsTo
  <2>5. before .. after = (before .. after - 1) \cup {after}
    BY <2>4
  <2>6. (after + 1) - 1 = after
    OBVIOUS
  <2> QED
    BY <1>2, <1>4, <2>2, <2>3, <2>5, <2>6 DEF LeadsTo, more
<1>5. CASE tx.from # s
  <2>1. PositionsOf(s, more) = PositionsOf(s, txs)
    BY <1>1, <1>5 DEF PositionsOf
  <2>2. NoncesOf(s, more) = NoncesOf(s, txs)
    BY <1>1, <2>1 DEF NoncesOf, PositionsOf
  <2> QED
    BY <1>5, <2>1, <2>2 DEF LeadsTo, more
<1> QED
  BY <1>4, <1>5
------------------------------------------------------------------------------
(* How a step changes the chain and the block that is being built.          *)
LEMMA RevertedChain ==
  ASSUME NodeInv, NEW i \in DOMAIN snapshots, RevertToSnapshot(i)
  PROVE  \E height \in 1 .. Len(chain) : chain' = SubSeq(chain, 1, height)
<1>1. SnapshotOK(snapshots[i])
  BY DEF NodeInv, SnapshotsOK
<1> QED
  BY <1>1 DEF SnapshotOK, RevertToSnapshot

LEMMA UndoneChain ==
  ASSUME NodeInv, NEW reason, Undo(reason)
  PROVE  chain' = chain \/ \E height \in 1 .. Len(chain) : chain' = SubSeq(chain, 1, height)
<1>1. CASE "snapshotId" \in DOMAIN request
  <2> DEFINE i == SnapshotIndex(request.snapshotId)
  <2>1. i \in DOMAIN snapshots
    BY <1>1, SnapshotFound DEF NodeInv, RequestOK
  <2>2. RevertToSnapshot(i)
    BY <1>1 DEF Undo
  <2> HIDE DEF i
  <2> QED
    BY <2>1, <2>2, RevertedChain
<1>2. CASE "snapshotId" \notin DOMAIN request
  BY <1>2 DEF Undo
<1> QED
  BY <1>1, <1>2

ChainKept ==
  chain' = chain \/ \E height \in 1 .. Len(chain) : chain' = SubSeq(chain, 1, height)

LEMMA AcceptedChain ==
  ASSUME AcceptRequest
  PROVE  ~Busy /\ building' = building /\ (chain' = chain \/ \E id : EvmRevert(id))
<1> DEFINE Same == ~Busy /\ building' = building /\ chain' = chain
<1>1. ASSUME NEW tx, SendToPool(tx) \/ SendAndMine(tx) \/ SendAndMinePending(tx)
      PROVE  Same
  BY <1>1 DEF SendToPool, SendAndMine, SendAndMinePending
<1>2. ASSUME NEW t, Mine(t) \/ SetNextBlockTimestamp(t)
      PROVE  Same
  BY <1>2 DEF Mine, SetNextBlockTimestamp
<1>3. QueryPending \/ EvmSnapshot => Same
  BY DEF QueryPending, EvmSnapshot
<1>4. ASSUME NEW x, SetAutomine(x) \/ IncreaseTime(x) \/ EvmSetBlockGasLimit(x)
      PROVE  Same
  BY <1>4 DEF SetAutomine, IncreaseTime, EvmSetBlockGasLimit
<1>5. ASSUME NEW id, EvmRevert(id)
      PROVE  ~Busy /\ building' = building
  BY <1>5 DEF EvmRevert
<1> HIDE DEF Same
<1>6. Same \/ \E id : EvmRevert(id)
  BY <1>1, <1>2, <1>3, <1>4 DEF AcceptRequest
<1> QED
  BY <1>5, <1>6 DEF Same

LEMMA ChainSteps ==
  ASSUME NodeInv, [NodeNext]_nodeVars
  PROVE  ChainKept \/ FinishBlock
<1>1. ASSUME NEW reason, Undo(reason) PROVE ChainKept
  BY <1>1, UndoneChain DEF ChainKept
<1>2. ASSUME NEW id, EvmRevert(id) PROVE ChainKept
  <2> DEFINE i == SnapshotIndex(id)
  <2>1. i \in DOMAIN snapshots /\ RevertToSnapshot(i)
    BY <1>2, SnapshotFound DEF EvmRevert
  <2> HIDE DEF i
  <2> QED
    BY <2>1, RevertedChain DEF ChainKept
<1>3. chain' = chain => ChainKept
  BY DEF ChainKept
<1>4. CASE ServeRequest
  BY <1>1, <1>3, <1>4
     DEF ServeRequest, AddWithPending, MineForRequest, NothingToMine, FinishSending, AnswerQuery,
         SkipSender, ExecuteTransaction, FailBlock
<1>5. CASE AcceptRequest
  BY <1>2, <1>3, <1>5, AcceptedChain
<1>6. CASE Tick \/ UNCHANGED nodeVars
  BY <1>3, <1>6 DEF Tick, nodeVars
<1> QED
  BY <1>4, <1>5, <1>6 DEF NodeNext

(* A new block is older than the one before it by no more than was taken    *)
(* off the clock since: what the clock shows has otherwise reached the      *)
(* latest block, whatever it was moved by and gone back to.                 *)
THEOREM TimestampsAlwaysIncrease == NodeSpec => TimestampsIncrease
<1> DEFINE Later ==
      Len(chain') > Len(chain) =>
        LET older == LatestBlock.timestamp - LatestBlock'.timestamp
        IN  older # 0 /\ older <= putBack
<1>1. ASSUME NodeInv, FinishBlock
      PROVE  Later
  <2>1. /\ building # NoBlock /\ BuildingOK /\ chain \in Seq(Block)
        /\ chain' = Append(chain, [timestamp |-> building.timestamp, txs |-> building.txs,
                                   stateRoot |-> building.accounts])
    BY <1>1 DEF NodeInv, ChainOK, FinishBlock
  <2>2. LatestBlock'.timestamp = building.timestamp
    BY <2>1 DEF LatestBlock
  <2> QED
    BY <2>1, <2>2 DEF BuildingOK, NotTooOld
<1>2. ASSUME NodeInv, ChainKept
      PROVE  Later
  <2>1. Len(chain') <= Len(chain) /\ Len(chain') \in Nat /\ Len(chain) \in Nat
    BY <1>2, LatestBlockType DEF ChainKept, NodeInv, ChainOK
  <2> QED
    BY <2>1
<1>3. NodeInv /\ [NodeNext]_nodeVars => [Later]_nodeVars
  <2> HIDE DEF Later
  <2> QED
    BY <1>1, <1>2, ChainSteps
<1> QED
  BY <1>3, NodeInvariant, PTL DEF NodeSpec, TimestampsIncrease

LEMMA BuildingSteps ==
  ASSUME NodeInv, [NodeNext]_nodeVars
  PROVE  \/ building' = NoBlock
         \/ UNCHANGED <<building, accounts>>
         \/ MineForRequest \/ SkipSender \/ ExecuteTransaction
<1>1. CASE ServeRequest
  <2>1. (\E reason : Undo(reason)) \/ FinishBlock => building' = NoBlock
    BY DEF Undo, FinishBlock
  <2>2. AddWithPending \/ FinishSending => UNCHANGED <<building, accounts>>
    BY DEF AddWithPending, AddTransaction, FinishSending, poolVars
  <2> QED
    BY <1>1, <2>1, <2>2 DEF ServeRequest, NothingToMine, AnswerQuery, FailBlock
<1>2. CASE AcceptRequest
  BY <1>2, AcceptedChain, IdleNode
<1>3. CASE Tick \/ UNCHANGED nodeVars
  BY <1>3 DEF Tick, nodeVars, poolVars
<1> QED
  BY <1>1, <1>2, <1>3 DEF NodeNext

LEMMA BlockNoncesStep ==
  ASSUME NodeInv, BlockNoncesOK, [NodeNext]_nodeVars
  PROVE  BlockNoncesOK'
<1>1. CASE building' = NoBlock
  BY <1>1 DEF BlockNoncesOK
<1>2. CASE UNCHANGED <<building, accounts>>
  BY <1>2 DEF BlockNoncesOK
<1>3. CASE MineForRequest
  <2>1. /\ building'.txs = <<>> /\ building'.accounts = accounts /\ accounts' = accounts
    BY <1>3 DEF MineForRequest, StartBlock, NewBlock, poolVars
  <2>2. \A s \in Senders : accounts[s].nonce \in Nat
    BY ListsOfSender DEF NodeInv
  <2> QED
    BY <2>1, <2>2, NoTransactions DEF BlockNoncesOK
<1>4. CASE SkipSender
  <2>1. /\ building # NoBlock /\ building \in BlockUnderWay /\ accounts' = accounts
        /\ \E s : building' = [building EXCEPT !.heap[s] = {}]
    BY <1>4 DEF SkipSender, NodeInv, BuildingOK, poolVars
  <2>2. building'.txs = building.txs /\ building'.accounts = building.accounts
    BY <2>1 DEF BlockUnderWay
  <2> QED
    BY <2>1, <2>2 DEF BlockNoncesOK
<1>5. CASE ExecuteTransaction
  <2>1. PICK otx \in HeapTops :
          /\ Accepts(building.accounts, otx.data)
          /\ building' = [building EXCEPT
                            !.heap[otx.data.from] = @ \ {otx},
                            !.txs = Append(@, otx.data),
                            !.gasUsed = @ + GasUsed(otx.data),
                            !.accounts = Executed(@, otx.data)]
    BY <1>5 DEF ExecuteTransaction
  <2> DEFINE tx == otx.data
  <2>2. /\ building # NoBlock /\ building \in BlockUnderWay /\ accounts' = accounts
        /\ building.accounts \in Accts /\ building.txs \in Seq(Txs)
    BY <1>5 DEF ExecuteTransaction, NodeInv, BuildingOK, BlockUnderWay, poolVars
  <2>3. PICK sender \in Senders : otx \in building.heap[sender]
    BY DEF HeapTops
  <2>4. tx \in Txs /\ BaseFee <= tx.gasLimit /\ tx.nonce \in Nat
    <3>1. otx \in OrderedTransaction /\ otx \in pool.pending[sender]
      BY <2>2, <2>3 DEF BlockUnderWay, NodeInv, BuildingOK
    <3> QED
      BY <3>1, NonceType DEF NodeInv, PoolInv, PoolOK
  <2>5. /\ building'.txs = Append(building.txs, tx)
        /\ building'.accounts = Executed(building.accounts, tx)
    BY <2>1, <2>2 DEF BlockUnderWay
  <2>6. /\ Executed(building.accounts, tx)[tx.from].nonce = tx.nonce + 1
        /\ \A s \in Senders \ {tx.from} : Executed(building.accounts, tx)[s] = building.accounts[s]
    BY <2>1, <2>2, <2>4, ExecutedAccounts
  <2>7. building.accounts[tx.from].nonce = tx.nonce
    BY <2>1 DEF Accepts
  <2> HIDE DEF tx
  <2>8. ASSUME NEW s \in Senders
        PROVE  LeadsTo(s, building'.txs, accounts[s].nonce, building'.accounts[s].nonce)
    <3>1. /\ accounts[s].nonce \in Nat /\ building.accounts[s].nonce \in Nat
          /\ LeadsTo(s, building.txs, accounts[s].nonce, building.accounts[s].nonce)
      BY <2>2, ListsOfSender, TxAssumption DEF NodeInv, BlockNoncesOK, Accts, Account
    <3>2. LeadsTo(s, Append(building.txs, tx), accounts[s].nonce,
                  IF tx.from = s THEN building.accounts[s].nonce + 1 ELSE building.accounts[s].nonce)
      BY <3>1, <2>2, <2>4, <2>7, NextTransaction
    <3>3. building'.accounts[s].nonce
            = IF tx.from = s THEN building.accounts[s].nonce + 1 ELSE building.accounts[s].nonce
      BY <2>5, <2>6, <2>7
    <3> QED
      BY <3>2, <3>3, <2>5
  <2> QED
    BY <2>2, <2>8 DEF BlockNoncesOK
<1> QED
  BY <1>1, <1>2, <1>3, <1>4, <1>5, BuildingSteps

(* A chain that goes back to an earlier block has used what it had then.    *)
LEMMA NoncesKept ==
  ASSUME ChainOK, NoncesOK, ChainKept
  PROVE  NoncesOK'
<1>1. CASE chain' = chain
  BY <1>1 DEF NoncesOK, UsedUpTo
<1>2. CASE \E height \in 1 .. Len(chain) : chain' = SubSeq(chain, 1, height)
  <2>1. PICK height \in 1 .. Len(chain) : chain' = SubSeq(chain, 1, height)
    BY <1>2
  <2>2. chain \in Seq(Block) /\ Len(chain) \in Nat
    BY DEF ChainOK
  <2>3. /\ chain' \in Seq(Block) /\ Len(chain') = height /\ DOMAIN chain' = 1 .. height
        /\ \A i \in 1 .. height : chain'[i] = chain[i]
        /\ DOMAIN chain = 1 .. Len(chain)
    BY <2>1, <2>2
  <2>4. ASSUME NEW s \in Senders, NEW i \in DOMAIN chain'
        PROVE  (UsedUpTo(s, i))' = 0 .. chain'[i].stateRoot[s].nonce - 1
    <3>1. i \in DOMAIN chain /\ chain'[i] = chain[i] /\ \A k \in 1 .. i : chain'[k] = chain[k]
      BY <2>1, <2>2, <2>3
    <3>2. UsedUpTo(s, i)' = UsedUpTo(s, i)
      BY <3>1 DEF UsedUpTo
    <3> QED
      BY <3>1, <3>2 DEF NoncesOK
  <2>5. ASSUME NEW s \in Senders, NEW i \in 2 .. Len(chain')
        PROVE  chain'[i].stateRoot[s].nonce
                 = chain'[i - 1].stateRoot[s].nonce + Cardinality(PositionsOf(s, chain'[i].txs))
    <3>1. i \in 2 .. Len(chain) /\ chain'[i] = chain[i] /\ chain'[i - 1] = chain[i - 1]
      BY <2>1, <2>2, <2>3
    <3> QED
      BY <3>1 DEF NoncesOK
  <2> QED
    BY <2>4, <2>5 DEF NoncesOK
<1> QED
  BY <1>1, <1>2 DEF ChainKept

(* The block that was built takes up where the latest one ended.            *)
LEMMA NoncesMined ==
  ASSUME NodeInv, NoncesOK, BlockNoncesOK, FinishBlock
  PROVE  NoncesOK'
<1> DEFINE block == [timestamp |-> building.timestamp, txs |-> building.txs,
                     stateRoot |-> building.accounts]
           n == Len(chain)
<1>1. /\ building # NoBlock /\ building \in BlockUnderWay
      /\ chain' = Append(chain, block)
      /\ accounts = chain[n].stateRoot
  BY DEF FinishBlock, NodeInv, BuildingOK, ChainOK, StateOfLatestBlock, LatestBlock
<1>2. block \in Block /\ block.txs = building.txs /\ block.stateRoot = building.accounts
  BY <1>1 DEF Block, BlockUnderWay
<1> HIDE DEF block
<1>3. chain \in Seq(Block) /\ n \in Nat \ {0}
  BY LatestBlockType DEF NodeInv, ChainOK
<1>4. /\ Len(chain') = n + 1 /\ DOMAIN chain' = 1 .. n + 1 /\ DOMAIN chain = 1 .. n
      /\ chain'[n + 1] = block
      /\ \A i \in 1 .. n : chain'[i] = chain[i]
  BY <1>1, <1>2, <1>3
<1>5. ASSUME NEW s \in Senders, NEW i \in DOMAIN chain'
      PROVE  (UsedUpTo(s, i))' = 0 .. chain'[i].stateRoot[s].nonce - 1
  <2>1. CASE i \in 1 .. n
    <3>1. \A k \in 1 .. i : chain'[k] = chain[k]
      BY <2>1, <1>3, <1>4
    <3>2. UsedUpTo(s, i)' = UsedUpTo(s, i)
      BY <3>1 DEF UsedUpTo
    <3> QED
      BY <2>1, <3>2, <1>4 DEF NoncesOK
  <2>2. CASE i = n + 1
    <3> DEFINE before == accounts[s].nonce
               after == building.accounts[s].nonce
    <3>1. LeadsTo(s, building.txs, before, after) /\ before \in Nat /\ after \in Nat
      BY <1>1, ListsOfSender, TxAssumption DEF BlockNoncesOK, NodeInv, BlockUnderWay, Accts, Account
    <3>2. UsedUpTo(s, n) = 0 .. before - 1
      BY <1>1, <1>3, <1>4 DEF NoncesOK
    <3>3. UsedUpTo(s, i)' = UsedUpTo(s, n) \cup NoncesOf(s, building.txs)
      <4>1. 1 .. n + 1 = (1 .. n) \cup {n + 1}
        BY <1>3
      <4>2. UNION {NoncesOf(s, chain'[k].txs) : k \in 1 .. n + 1}
              = (UNION {NoncesOf(s, chain'[k].txs) : k \in 1 .. n}) \cup NoncesOf(s, chain'[n + 1].txs)
        BY <4>1
      <4>3. UNION {NoncesOf(s, chain'[k].txs) : k \in 1 .. n} = UNION {NoncesOf(s, chain[k].txs) : k \in 1 .. n}
        BY <1>4
      <4> QED
        BY <2>2, <4>2, <4>3, <1>2, <1>4 DEF UsedUpTo
    <3>4. before <= after
      BY <1>1 DEF NodeInv, BuildingOK
    <3>5. 0 .. after - 1 = (0 .. before - 1) \cup (before .. after - 1)
      BY <3>1, <3>4
    <3>6. chain'[i].stateRoot[s].nonce = after
      BY <2>2, <1>2, <1>4
    <3> QED
      BY <3>1, <3>2, <3>3, <3>5, <3>6 DEF LeadsTo
  <2> QED
    BY <2>1, <2>2, <1>3, <1>4
<1>6. ASSUME NEW s \in Senders, NEW i \in 2 .. Len(chain')
      PROVE  chain'[i].stateRoot[s].nonce
               = chain'[i - 1].stateRoot[s].nonce + Cardinality(PositionsOf(s, chain'[i].txs))
  <2>1. CASE i \in 2 .. n
    <3>1. chain'[i] = chain[i] /\ chain'[i - 1] = chain[i - 1]
      BY <2>1, <1>3, <1>4
    <3> QED
      BY <2>1, <3>1 DEF NoncesOK
  <2>2. CASE i = n + 1
    <3>1. chain'[i] = block /\ chain'[i - 1] = chain[n]
      BY <2>2, <1>3, <1>4
    <3> QED
      BY <3>1, <1>1, <1>2 DEF BlockNoncesOK, LeadsTo
  <2> QED
    BY <2>1, <2>2, <1>3, <1>4
<1> QED
  BY <1>5, <1>6 DEF NoncesOK

LEMMA NoncesInit == NodeInit => NoncesOK /\ BlockNoncesOK
<1> SUFFICES ASSUME NodeInit PROVE NoncesOK /\ BlockNoncesOK
  OBVIOUS
<1>1. /\ chain = << [timestamp |-> CurrentTimestamp, txs |-> <<>>, stateRoot |-> accounts] >>
      /\ building = NoBlock
      /\ \A s \in Senders : accounts[s].nonce = 0
  BY DEF NodeInit, TxPoolInit
<1>2. DOMAIN chain = {1} /\ Len(chain) = 1 /\ chain[1].txs = <<>> /\ chain[1].stateRoot = accounts
  BY <1>1
<1>3. ASSUME NEW s \in Senders, NEW i \in DOMAIN chain
      PROVE  UsedUpTo(s, i) = 0 .. chain[i].stateRoot[s].nonce - 1
  <2>1. i = 1 /\ 1 .. i = {1} /\ 0 .. 0 - 1 = {}
    BY <1>2
  <2>2. NoncesOf(s, <<>>) = {}
    BY DEF NoncesOf, PositionsOf
  <2> QED
    BY <2>1, <2>2, <1>1, <1>2 DEF UsedUpTo
<1> QED
  BY <1>1, <1>2, <1>3 DEF NoncesOK, BlockNoncesOK

ChainInv == NodeInv /\ NoncesOK /\ BlockNoncesOK

LEMMA ChainInvStep == ChainInv /\ [NodeNext]_nodeVars => ChainInv'
<1> SUFFICES ASSUME ChainInv, [NodeNext]_nodeVars PROVE ChainInv'
  OBVIOUS
<1>1. NodeInv' /\ BlockNoncesOK'
  BY NodeInvStep, BlockNoncesStep DEF ChainInv
<1>2. NoncesOK'
  BY ChainSteps, NoncesKept, NoncesMined DEF ChainInv, NodeInv
<1> QED
  BY <1>1, <1>2 DEF ChainInv

(* Every nonce that an account has used is in the chain, once, whatever is  *)
(* mined, undone and mined again.                                           *)
THEOREM ChainInvariant == NodeSpec => []ChainInv
<1>1. NodeInit => ChainInv
  BY NodeInvInit, NoncesInit DEF ChainInv
<1>2. ChainInv /\ [NodeNext]_nodeVars => ChainInv'
  BY ChainInvStep
<1> QED
  BY <1>1, <1>2, PTL DEF NodeSpec

LEMMA IncludedNonces ==
  ASSUME ChainInv, NEW s \in Senders
  PROVE  {tx.nonce : tx \in {t \in Txs : t.from = s /\ Included(t)}} = 0 .. accounts[s].nonce - 1
<1> DEFINE n == Len(chain)
           N == {tx.nonce : tx \in {t \in Txs : t.from = s /\ Included(t)}}
<1>1. chain \in Seq(Block) /\ n \in Nat \ {0} /\ DOMAIN chain = 1 .. n /\ accounts = chain[n].stateRoot
  BY LatestBlockType DEF ChainInv, NodeInv, ChainOK, StateOfLatestBlock, LatestBlock
<1>2. UsedUpTo(s, n) = 0 .. accounts[s].nonce - 1
  BY <1>1 DEF ChainInv, NoncesOK
<1>3. \A i \in DOMAIN chain : chain[i] \in Block /\ chain[i].txs \in Seq(Txs)
  <2>1. \A i \in DOMAIN chain : chain[i] \in Block
    BY <1>1
  <2> QED
    BY <2>1 DEF Block
<1>4. \A i \in DOMAIN chain : \A j \in DOMAIN chain[i].txs : chain[i].txs[j] \in Txs
  BY <1>3
<1>5. N \subseteq UsedUpTo(s, n)
  BY <1>1 DEF UsedUpTo, NoncesOf, PositionsOf, Included
<1>6. UsedUpTo(s, n) \subseteq N
  BY <1>1, <1>4 DEF UsedUpTo, NoncesOf, PositionsOf, Included
<1> QED
  BY <1>2, <1>5, <1>6

(* The transactions of a sender are mined in the order of their nonces,     *)
(* each nonce once, and what was mined is not pending any more.             *)
THEOREM NoncesAlwaysUsedInOrder == NodeSpec => []NoncesUsedInOrder
<1>1. ChainInv => NoncesUsedInOrder
  <2> SUFFICES ASSUME ChainInv, NEW s \in Senders
               PROVE  LET Count(i) == Cardinality({j \in DOMAIN chain[i].txs : chain[i].txs[j].from = s})
                      IN  /\ {tx.nonce : tx \in {t \in Txs : t.from = s /\ Included(t)}} = 0 .. accounts[s].nonce - 1
                          /\ \A i \in 2 .. Len(chain) :
                               chain[i].stateRoot[s].nonce = chain[i - 1].stateRoot[s].nonce + Count(i)
                          /\ \A otx \in pool.pending[s] : ~Included(otx.data)
    BY DEF NoncesUsedInOrder
  <2>1. \A i \in 2 .. Len(chain) :
          chain[i].stateRoot[s].nonce
            = chain[i - 1].stateRoot[s].nonce
                + Cardinality({j \in DOMAIN chain[i].txs : chain[i].txs[j].from = s})
    BY DEF ChainInv, NoncesOK, PositionsOf
  <2>2. ASSUME NEW otx \in pool.pending[s]
        PROVE  ~Included(otx.data)
    <3>1. /\ accounts[s].nonce \in Nat /\ otx \in OrderedTransaction
          /\ accounts[s].nonce <= otx.data.nonce /\ otx.data.from = s
      BY ListsOfSender DEF ChainInv, NodeInv, PoolInv, PoolOK, ListsOK, Lists
    <3>2. otx.data \in Txs /\ otx.data.nonce \in Nat
      BY <3>1, NonceType
    <3>3. otx.data.nonce \notin 0 .. accounts[s].nonce - 1
      BY <3>1, <3>2
    <3> QED
      BY <3>1, <3>2, <3>3, IncludedNonces
  <2> QED
    BY <2>1, <2>2, IncludedNonces
<1> QED
  BY <1>1, ChainInvariant, PTL
------------------------------------------------------------------------------
(* Sending while others are in the pool                                     *)
SendOps == {"add", "include", "drain"}

(* Once only the others are left to mine, its transaction is in the chain.  *)
SendOK ==
  request.op \in SendOps =>
    /\ "tx" \in DOMAIN request /\ request.tx \in Txs
    /\ request.op = "drain" => Included(request.tx)

(* What was mined stays in the chain unless it is gone back.                *)
LEMMA MinedStays ==
  ASSUME NodeInv, FinishBlock
  PROVE  \A tx : Included(tx) \/ (\E i \in DOMAIN building.txs : tx = building.txs[i]) => Included(tx)'
<1> DEFINE block == [timestamp |-> building.timestamp, txs |-> building.txs,
                     stateRoot |-> building.accounts]
<1>1. building \in BlockUnderWay /\ chain' = Append(chain, block) /\ chain \in Seq(Block)
  BY DEF FinishBlock, NodeInv, BuildingOK, ChainOK
<1>2. block \in Block /\ block.txs = building.txs
  BY <1>1 DEF Block, BlockUnderWay
<1> HIDE DEF block
<1>3. /\ DOMAIN chain \subseteq DOMAIN chain' /\ \A i \in DOMAIN chain : chain'[i] = chain[i]
      /\ Len(chain) + 1 \in DOMAIN chain' /\ chain'[Len(chain) + 1] = block
  BY <1>1, <1>2
<1> QED
  BY <1>2, <1>3 DEF Included

(* The steps of a request that sends.                                       *)
LEMMA SendSteps ==
  ASSUME NodeInv, [NodeNext]_nodeVars, request.op \in SendOps
  PROVE  \/ UNCHANGED <<request, chain, snapshots, poolSnapshots>>
         \/ AddWithPending
         \/ FinishBlock
         \/ FinishSending
         \/ \E reason : Undo(reason)
<1>1. Busy
  <2>1. Idle.op = "none"
    BY DEF Idle
  <2> QED
    BY <2>1 DEF Busy, SendOps
<1>2. ~AcceptRequest
  BY <1>1, AcceptedChain
<1>3. MineForRequest \/ SkipSender \/ ExecuteTransaction \/ Tick \/ UNCHANGED nodeVars =>
        UNCHANGED <<request, chain, snapshots, poolSnapshots>>
  BY DEF MineForRequest, SkipSender, ExecuteTransaction, Tick, nodeVars, poolVars, snapshotVars
<1>4. NothingToMine \/ FailBlock \/ AnswerQuery => \E reason : Undo(reason)
  BY DEF NothingToMine, FailBlock, AnswerQuery
<1> QED
  BY <1>2, <1>3, <1>4 DEF NodeNext, ServeRequest

LEMMA SendOKStep ==
  ASSUME NodeInv, SendOK, [NodeNext]_nodeVars
  PROVE  SendOK'
<1>1. CASE request.op \in SendOps
  <2>1. CASE UNCHANGED <<request, chain, snapshots, poolSnapshots>>
    BY <2>1 DEF SendOK, Included
  <2>2. CASE request' = Idle
    BY <2>2 DEF SendOK, Idle, SendOps
  <2>3. CASE AddWithPending
    <3>1. /\ request.op = "add" /\ request' = [request EXCEPT !.op = "include"]
          /\ UNCHANGED <<snapshots, poolSnapshots>>
      BY <2>3 DEF AddWithPending, AddTransaction, snapshotVars
    <3>2. {"op", "tx", "snapshotId"} \subseteq DOMAIN request
      BY <1>1, <3>1 DEF NodeInv, RequestOK, UndoneOps, SendOK
    <3>3. /\ request'.op = "include" /\ request'.tx = request.tx /\ request'.snapshotId = request.snapshotId
          /\ DOMAIN request' = DOMAIN request
      BY <3>1, <3>2
    <3> QED
      BY <1>1, <3>3 DEF SendOK
  <2>4. CASE FinishBlock
    <3>1. /\ request.op \in {"include", "drain"} /\ request' = AfterBlock
          /\ UNCHANGED <<snapshots, poolSnapshots>>
      BY <1>1, <2>4 DEF FinishBlock, NodeInv, BuildingOK, SendOps, snapshotVars
    <3>2. {"op", "tx", "snapshotId"} \subseteq DOMAIN request
      BY <1>1, <3>1 DEF NodeInv, RequestOK, UndoneOps, SendOK
    <3>3. \/ request' = request
          \/ /\ request' = [request EXCEPT !.op = "drain"]
             /\ \E i \in DOMAIN building.txs : request.tx = building.txs[i]
      BY <3>1 DEF AfterBlock
    <3>4. /\ request'.tx = request.tx /\ request'.snapshotId = request.snapshotId
          /\ DOMAIN request' = DOMAIN request
          /\ request'.op = request.op \/ \E i \in DOMAIN building.txs : request.tx = building.txs[i]
      BY <3>2, <3>3
    <3>5. request'.op = "drain" => Included(request.tx)'
      <4>1. PICK tx : tx = request.tx
        OBVIOUS
      <4>2. request'.op = "drain" => Included(tx)'
        BY <1>1, <2>4, <3>4, <4>1, MinedStays DEF SendOK
      <4> QED
        BY <3>4, <4>1, <4>2 DEF Included
    <3> QED
      BY <1>1, <3>2, <3>4, <3>5 DEF SendOK
  <2>5. FinishSending \/ (\E reason : Undo(reason)) => request' = Idle
    BY DEF FinishSending, Undo
  <2> QED
    BY <1>1, <2>1, <2>2, <2>3, <2>4, <2>5, SendSteps
<1>2. CASE request.op \notin SendOps
  <2>1. CASE \E tx \in Txs : SendAndMinePending(tx)
    <3>1. PICK tx \in Txs : request' = [op |-> "add", tx |-> tx, snapshotId |-> nextSnapshotId,
                                        before |-> NodeState]
      BY <2>1 DEF SendAndMinePending
    <3> QED
      BY <3>1 DEF SendOK
  <2>2. CASE ~ \E tx \in Txs : SendAndMinePending(tx)
    <3>1. request'.op \notin SendOps
      <4>1. CASE request' = request
        BY <4>1, <1>2
      <4>2. CASE request' = Idle
        BY <4>2 DEF Idle, SendOps
      <4>3. CASE ServeRequest
        <5>1. ~AddWithPending /\ ~FinishSending /\ ~NothingToMine
          BY <1>2 DEF AddWithPending, FinishSending, NothingToMine, SendOps
        <5>2. MineForRequest \/ SkipSender \/ ExecuteTransaction => request' = request
          BY DEF MineForRequest, SkipSender, ExecuteTransaction
        <5>3. AnswerQuery \/ FailBlock => request' = Idle
          BY DEF AnswerQuery, FailBlock, Undo
        <5>4. FinishBlock => request' = Idle \/ request'.op = "answer query"
          <6> SUFFICES ASSUME FinishBlock PROVE request' = Idle \/ request'.op = "answer query"
            OBVIOUS
          <6>1. request.op \in {"mine", "send", "query"} /\ request' = AfterBlock /\ "op" \in DOMAIN request
            BY <1>2 DEF FinishBlock, NodeInv, BuildingOK, RequestOK, SendOps
          <6> QED
            BY <6>1 DEF AfterBlock
        <5> QED
          BY <4>1, <4>2, <4>3, <5>1, <5>2, <5>3, <5>4 DEF ServeRequest, SendOps
      <4>4. CASE AcceptRequest
        <5> DEFINE Other == request' = request \/ request'.op \in {"send", "mine", "query"}
        <5>1. ASSUME NEW tx, SendToPool(tx) \/ SendAndMine(tx)
              PROVE  Other
          BY <5>1 DEF SendToPool, SendAndMine
        <5>2. ASSUME NEW t, Mine(t) \/ SetNextBlockTimestamp(t)
              PROVE  Other
          BY <5>2 DEF Mine, SetNextBlockTimestamp
        <5>3. QueryPending \/ EvmSnapshot => Other
          BY DEF QueryPending, EvmSnapshot
        <5>4. ASSUME NEW x, SetAutomine(x) \/ IncreaseTime(x) \/ EvmSetBlockGasLimit(x) \/ EvmRevert(x)
              PROVE  Other
          BY <5>4 DEF SetAutomine, IncreaseTime, EvmSetBlockGasLimit, EvmRevert
        <5> HIDE DEF Other
        <5>5. Other
          BY <4>4, <2>2, <5>1, <5>2, <5>3, <5>4 DEF AcceptRequest
        <5> QED
          BY <5>5, <1>2 DEF Other, SendOps
      <4>5. Tick \/ UNCHANGED nodeVars => request' = request
        BY DEF Tick, nodeVars
      <4> QED
        BY <4>1, <4>3, <4>4, <4>5 DEF NodeNext
    <3> QED
      BY <3>1 DEF SendOK
  <2> QED
    BY <2>1, <2>2
<1> QED
  BY <1>1, <1>2

SendInv == ChainInv /\ SendOK

LEMMA SendInvStep == SendInv /\ [NodeNext]_nodeVars => SendInv'
<1> SUFFICES ASSUME SendInv, [NodeNext]_nodeVars PROVE SendInv'
  OBVIOUS
<1>1. ChainInv'
  BY ChainInvStep DEF SendInv
<1>2. SendOK'
  BY SendOKStep DEF SendInv, ChainInv
<1> QED
  BY <1>1, <1>2 DEF SendInv

(* A request that sends keeps its transaction until it is in the chain.     *)
THEOREM SendInvariant == NodeSpec => []SendInv
<1>1. NodeInit => SendInv
  BY NodeInvInit, NoncesInit DEF SendInv, ChainInv, SendOK, SendOps, NodeInit, Idle
<1>2. SendInv /\ [NodeNext]_nodeVars => SendInv'
  BY SendInvStep
<1> QED
  BY <1>1, <1>2, PTL DEF NodeSpec

(* Sending with automining mines the transaction and all that were pending, *)
(* or leaves everything as it was, however many blocks were mined before    *)
(* one of them failed.                                                      *)
THEOREM SendingIsAllOrNothing == NodeSpec => SendIsAllOrNothing
<1> DEFINE AllOrNothing ==
      request.op \in {"add", "include", "drain"} /\ request' = Idle =>
        \/ /\ \E tx \in Txs : tx = request.tx /\ Included(tx)'
           /\ ~HasPendingTransactions'
           /\ snapshots' = request.before.snapshots
        \/ LeftAsBefore
<1>1. SendInv /\ [NodeNext]_nodeVars => [AllOrNothing]_nodeVars
  <2> SUFFICES ASSUME SendInv, [NodeNext]_nodeVars,
                      request.op \in {"add", "include", "drain"}, request' = Idle
               PROVE  AllOrNothing
    OBVIOUS
  <2>1. "op" \in DOMAIN request /\ Idle.op = "none" /\ NodeInv
    BY DEF SendInv, ChainInv, NodeInv, RequestOK, Idle
  <2>2. ~UNCHANGED request /\ ~AddWithPending
    BY <2>1 DEF AddWithPending
  <2>3. ~FinishBlock
    <3>1. FinishBlock => request'.op \in {"include", "drain"}
      BY <2>1 DEF FinishBlock, AfterBlock, NodeInv, BuildingOK
    <3> QED
      BY <2>1, <3>1
  <2>4. CASE FinishSending
    <3>1. /\ UNCHANGED <<pool, chain>> /\ ~HasPendingTransactions /\ request.op = "drain"
          /\ snapshots' = SnapshotsBefore(SnapshotIndex(request.snapshotId))
      BY <2>4 DEF FinishSending, RemoveSnapshot, poolVars
    <3>2. request.tx \in Txs /\ Included(request.tx)
      BY <3>1 DEF SendInv, SendOK, SendOps
    <3>3. PICK tx \in Txs : tx = request.tx /\ Included(tx)
      BY <3>2
    <3>4. Included(tx)' /\ ~HasPendingTransactions'
      BY <3>1, <3>3 DEF Included, HasPendingTransactions
    <3>5. WayBackOK /\ SnapshotsOK
      BY <2>1, <3>1 DEF NodeInv, RequestOK, UndoneOps
    <3>6. snapshots' = request.before.snapshots
      BY <3>1, <3>5, LastSnapshot DEF WayBackOK, SnapshotsBefore
    <3> QED
      BY <3>3, <3>4, <3>6
  <2>5. CASE \E reason : Undo(reason)
    <3>1. LeftAsBefore
      BY <2>1, <2>5, Undone DEF UndoneOps
    <3> QED
      BY <3>1
  <2> HIDE DEF AllOrNothing
  <2> QED
    BY <2>1, <2>2, <2>3, <2>4, <2>5, SendSteps DEF SendOps
<1> QED
  BY <1>1, SendInvariant, PTL DEF NodeSpec, SendIsAllOrNothing
==============================================================================
