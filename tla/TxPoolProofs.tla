---------------------------- MODULE TxPoolProofs ----------------------------
(***************************************************************************)
(* The pool of transactions keeps its order for any number of senders,     *)
(* transactions and snapshots. The lists of one sender come first, then    *)
(* the whole pool, which a revert may take from any snapshot.              *)
(***************************************************************************)
EXTENDS TxPool, WellFoundedInduction, TLAPS

(* Any set of naturals has a least element, a bounded one also a greatest.  *)
LEMMA LeastExists ==
  ASSUME NEW S \in SUBSET Nat, S # {}
  PROVE  \E n \in S : \A m \in S : n <= m
<1>1. PICK n \in S : \A m \in S : ~ (<<m, n>> \in OpToRel(<, Nat))
  BY NatLessThanWellFounded, WFMin, Zenon
<1>2. SUFFICES ASSUME NEW m \in S PROVE n <= m
  BY <1>1
<1>3. <<m, n>> \in Nat \X Nat /\ ~ (m < n)
  BY <1>1 DEF OpToRel
<1> QED
  BY <1>3

LEMMA GreatestExists ==
  ASSUME NEW N \in Nat, NEW S \in SUBSET (0 .. N), S # {}
  PROVE  \E n \in S : \A m \in S : m <= n
<1> DEFINE R == {r \in Nat : \E n \in S : r = N - n}
<1>1. PICK n \in S : TRUE
  OBVIOUS
<1>2. N - n \in R
  OBVIOUS
<1>3. PICK r \in R : \A q \in R : r <= q
  BY <1>2, LeastExists
<1>4. PICK g \in S : r = N - g
  BY <1>3
<1>5. ASSUME NEW m \in S PROVE m <= g
  <2>1. N - m \in R
    OBVIOUS
  <2> QED
    BY <2>1, <1>3, <1>4
<1> QED
  BY <1>5
------------------------------------------------------------------------------
(* The lists of one sender                                                  *)
Lists == SUBSET OrderedTransaction

NextNonce(pending, nonce) == IF pending = {} THEN nonce ELSE LastNonce(pending) + 1
GapFree(list) == \A x, y \in list : x.data.nonce .. y.data.nonce \subseteq Nonces(list)
NoncesDiffer(list) == \A x, y \in list : x.data.nonce = y.data.nonce => x = y

ListsOK(pending, queued, nonce) ==
  /\ GapFree(pending) /\ NoncesDiffer(pending) /\ NoncesDiffer(queued)
  /\ \A x \in pending : nonce <= x.data.nonce
  /\ \A x \in queued : NextNonce(pending, nonce) < x.data.nonce

LEMMA NonceType ==
  ASSUME NEW otx \in OrderedTransaction
  PROVE  /\ otx.data \in Txs
         /\ otx.data.nonce \in 0 .. MaxNonce
         /\ otx.data.nonce \in Nat
         /\ otx.data.from \in Senders
         /\ otx.data.gasLimit \in Nat
BY TxAssumption DEF OrderedTransaction

LEMMA LastNonceType ==
  ASSUME NEW list \in Lists, list # {}
  PROVE  /\ LastNonce(list) \in Nonces(list)
         /\ LastNonce(list) \in 0 .. MaxNonce
         /\ LastNonce(list) \in Nat
         /\ \A x \in list : x.data.nonce <= LastNonce(list)
<1>1. Nonces(list) \in SUBSET (0 .. MaxNonce) /\ Nonces(list) # {}
  BY NonceType DEF Nonces, Lists
<1>2. \E n \in Nonces(list) : \A m \in Nonces(list) : m <= n
  BY <1>1, GreatestExists, TxAssumption
<1>3. /\ LastNonce(list) \in Nonces(list)
      /\ \A m \in Nonces(list) : m <= LastNonce(list)
  BY <1>2 DEF LastNonce
<1> QED
  BY <1>1, <1>3, TxAssumption DEF Nonces

LEMMA NextNonceType ==
  ASSUME NEW list \in Lists, NEW nonce \in Nat
  PROVE  NextNonce(list, nonce) \in Nat
BY LastNonceType DEF NextNonce

(* A queued transaction that still has to wait.                             *)
LEMMA AddQueuedLists ==
  ASSUME NEW P \in Lists, NEW Q \in Lists, NEW k \in Nat, ListsOK(P, Q, k),
         NEW otx \in OrderedTransaction,
         NextNonce(P, k) < otx.data.nonce, otx.data.nonce \notin Nonces(Q)
  PROVE  ListsOK(P, Q \cup {otx}, k)
BY DEF ListsOK, NoncesDiffer, Nonces

(* The next transaction, and whatever it lets move.                         *)
LEMMA AddPendingLists ==
  ASSUME NEW P \in Lists, NEW Q \in Lists, NEW k \in Nat, ListsOK(P, Q, k),
         NEW otx \in OrderedTransaction, otx.data.nonce = NextNonce(P, k)
  PROVE  LET added == P \cup {otx}
             moved == MovableTransactions(added, Q)
         IN  ListsOK(added \cup moved, Q \ moved, k)
<1> DEFINE e == otx.data.nonce
           added == P \cup {otx}
           moved == MovableTransactions(added, Q)
           new == added \cup moved
<1>1. e \in Nat /\ \A x \in P \cup Q : x.data.nonce \in Nat
  BY NonceType DEF Lists
<1>2. \A x \in P : x.data.nonce < e
  BY LastNonceType, <1>1 DEF NextNonce
<1>3. \A x \in Q : e < x.data.nonce
  BY DEF ListsOK
<1>4. LastNonce(added) = e
  <2>1. added \in Lists /\ added # {}
    BY DEF Lists
  <2>2. LastNonce(added) \in Nonces(added) /\ e <= LastNonce(added) /\ LastNonce(added) \in Nat
    BY <2>1, LastNonceType
  <2> QED
    BY <2>2, <1>1, <1>2 DEF Nonces
<1>5. \A x \in Q : x \in moved <=> {n \in Nonces(Q) : n <= x.data.nonce} = (e + 1) .. x.data.nonce
  BY <1>4 DEF MovableTransactions
<1>6. moved \subseteq Q
  BY DEF MovableTransactions
<1> HIDE DEF moved
<1>7. \A x \in moved : \A n \in (e + 1) .. x.data.nonce : \E y \in moved : y.data.nonce = n
  <2> SUFFICES ASSUME NEW x \in moved, NEW n \in (e + 1) .. x.data.nonce
               PROVE  \E y \in moved : y.data.nonce = n
    OBVIOUS
  <2>1. {m \in Nonces(Q) : m <= x.data.nonce} = (e + 1) .. x.data.nonce
    BY <1>5, <1>6
  <2>2. PICK y \in Q : y.data.nonce = n
    BY <2>1 DEF Nonces
  <2>3. {m \in Nonces(Q) : m <= n} = (e + 1) .. n
    BY <2>1, <1>1, <1>6 DEF Nonces
  <2> QED
    BY <2>2, <2>3, <1>5
<1>8. GapFree(new)
  <2> SUFFICES ASSUME NEW x \in new, NEW y \in new, NEW n \in x.data.nonce .. y.data.nonce
               PROVE  \E z \in new : z.data.nonce = n
    BY DEF GapFree, Nonces
  <2>1. x.data.nonce \in Nat /\ y.data.nonce \in Nat /\ n \in Nat
    BY <1>1, <1>6
  <2>2. CASE n = e
    BY <2>2
  <2>3. CASE n > e
    <3>1. y \in moved
      BY <2>1, <2>3, <1>1, <1>2
    <3> QED
      BY <3>1, <2>1, <2>3, <1>1, <1>7
  <2>4. CASE n < e
    <3>1. x \in P
      BY <2>1, <2>4, <1>1, <1>3, <1>6
    <3>2. P # {} /\ LastNonce(P) = e - 1 /\ LastNonce(P) \in Nonces(P)
      BY <3>1, LastNonceType, <1>1 DEF NextNonce
    <3>3. PICK last \in P : last.data.nonce = e - 1
      BY <3>2 DEF Nonces
    <3>4. n \in x.data.nonce .. last.data.nonce
      BY <2>1, <2>4, <3>3, <1>1
    <3> QED
      BY <3>1, <3>3, <3>4 DEF ListsOK, GapFree, Nonces
  <2> QED
    BY <2>1, <2>2, <2>3, <2>4, <1>1
<1>9. NoncesDiffer(new) /\ NoncesDiffer(Q \ moved)
  BY <1>1, <1>2, <1>3, <1>6 DEF NoncesDiffer, ListsOK
<1>10. \A x \in new : k <= x.data.nonce
  <2>1. k <= e
    <3>1. CASE P = {}
      BY <3>1, <1>1 DEF NextNonce
    <3>2. CASE P # {}
      BY <3>2, <1>1, <1>2 DEF ListsOK
    <3> QED
      BY <3>1, <3>2
  <2> QED
    BY <2>1, <1>1, <1>3, <1>6 DEF ListsOK
<1>11. \A x \in Q \ moved : NextNonce(new, k) < x.data.nonce
  <2> SUFFICES ASSUME NEW x \in Q, x \notin moved
               PROVE  LastNonce(new) + 1 < x.data.nonce
    BY DEF NextNonce
  <2>1. new \in Lists /\ otx \in new
    BY <1>6 DEF Lists
  <2>2. LastNonce(new) \in Nonces(new) /\ LastNonce(new) \in Nat /\ e <= LastNonce(new)
    <3> HIDE DEF new
    <3> QED
      BY <2>1, LastNonceType
  <2>3. LastNonce(new) = e \/ \E y \in moved : y.data.nonce = LastNonce(new)
    <3>1. PICK y \in new : y.data.nonce = LastNonce(new)
      BY <2>2 DEF Nonces
    <3>2. CASE y \in P
      BY <3>1, <3>2, <2>2, <1>1, <1>2
    <3> QED
      BY <3>1, <3>2
  <2>4. ASSUME NEW n \in (e + 1) .. LastNonce(new)
        PROVE  n \in Nonces(Q)
    <3> HIDE DEF new
    <3>0. LastNonce(new) # e
      BY <2>2, <1>1
    <3>1. PICK y \in moved : y.data.nonce = LastNonce(new)
      BY <3>0, <2>3, Zenon
    <3>2. PICK z \in moved : z.data.nonce = n
      BY <3>1, <1>7
    <3> QED
      BY <3>2, <1>6 DEF Nonces
  <2>5. x.data.nonce \in Nat /\ e < x.data.nonce
    BY <1>1, <1>3
  <2> HIDE DEF new
  <2>6. SUFFICES ASSUME x.data.nonce <= LastNonce(new) + 1
                 PROVE  FALSE
    BY <2>2, <2>5
  <2>7. {n \in Nonces(Q) : n <= x.data.nonce} = (e + 1) .. x.data.nonce
    BY <2>2, <2>4, <2>5, <2>6, <1>1, <1>3 DEF Nonces
  <2> QED
    BY <2>7, <1>5
<1> QED
  BY <1>8, <1>9, <1>10, <1>11 DEF ListsOK, moved

(* After a change of accounts or of the block gas limit: the list of those  *)
(* that may not be executed any more, which holds all with a used nonce,    *)
(* tells what stays pending, what is requeued and what is dropped.          *)
LEMMA UpdatedLists ==
  ASSUME NEW P \in Lists, NEW Q \in Lists, NEW k \in Nat, ListsOK(P, Q, k),
         NEW k2 \in Nat, k <= k2, k .. k2 - 1 \subseteq Nonces(P),
         NEW B \in Lists, \A x \in P \cup Q : x.data.nonce < k2 => x \in B,
         NEW R \in Lists,
         R = {x \in P : \E d \in P : d \in B /\ d.data.nonce > k2 /\ d.data.nonce < x.data.nonce}
  PROVE  ListsOK((P \ R) \ B, (Q \cup R) \ B, k2)
<1> DEFINE S == (P \ R) \ B
           W == (Q \cup R) \ B
<1>1. \A x \in P \cup Q : x.data.nonce \in Nat
  BY NonceType DEF Lists
<1>2. \A x \in P, y \in Q : x.data.nonce + 1 < y.data.nonce
  <2> SUFFICES ASSUME NEW x \in P, NEW y \in Q
               PROVE  x.data.nonce + 1 < y.data.nonce
    OBVIOUS
  <2>1. x.data.nonce <= LastNonce(P) /\ LastNonce(P) \in Nat
    BY LastNonceType
  <2>2. LastNonce(P) + 1 < y.data.nonce
    BY DEF ListsOK, NextNonce
  <2> QED
    BY <2>1, <2>2, <1>1
<1>3. GapFree(S)
  <2> SUFFICES ASSUME NEW x \in S, NEW y \in S, NEW n \in x.data.nonce .. y.data.nonce
               PROVE  \E z \in S : z.data.nonce = n
    BY DEF GapFree, Nonces
  <2>1. PICK z \in P : z.data.nonce = n
    BY DEF ListsOK, GapFree, Nonces
  <2>2. x.data.nonce \in Nat /\ y.data.nonce \in Nat /\ n \in Nat
    BY <1>1
  <2>3. k2 <= x.data.nonce
    BY <2>2
  <2>4. z \notin R
    BY <2>1, <2>2, <1>1
  <2>5. CASE z \notin B
    BY <2>1, <2>4, <2>5
  <2>6. CASE z \in B
    <3>1. z = x \/ z = y \/ (x.data.nonce < n /\ n < y.data.nonce)
      BY <2>1, <2>2 DEF ListsOK, NoncesDiffer
    <3> QED
      BY <3>1, <2>1, <2>2, <2>3, <2>6
  <2> QED
    BY <2>5, <2>6
<1>4. NoncesDiffer(S) /\ NoncesDiffer(W)
  BY <1>1, <1>2 DEF NoncesDiffer, ListsOK
<1>5. \A x \in S : k2 <= x.data.nonce
  BY <1>1
<1>6. ASSUME NEW w \in W
      PROVE  NextNonce(S, k2) < w.data.nonce
  <2>1. w.data.nonce \in Nat
    BY <1>1
  <2>2. CASE S = {}
    <3>1. SUFFICES k2 < w.data.nonce
      BY <2>2 DEF NextNonce
    <3>2. CASE w \in R
      BY <3>2, <1>1
    <3>3. CASE w \in Q
      <4>1. CASE k2 = k
        <5>1. k < w.data.nonce \/ \E x \in P : k <= x.data.nonce
          BY <3>3 DEF ListsOK, NextNonce
        <5> QED
          BY <5>1, <4>1, <3>3, <1>1, <1>2
      <4>2. CASE k < k2
        <5>1. k2 - 1 \in k .. k2 - 1
          BY <4>2
        <5>2. PICK x \in P : x.data.nonce = k2 - 1
          BY <5>1 DEF Nonces
        <5> QED
          BY <5>2, <3>3, <1>1, <1>2
      <4> QED
        BY <4>1, <4>2
    <3> QED
      BY <3>2, <3>3
  <2>3. CASE S # {}
    <3>1. S \in Lists
      BY DEF Lists
    <3>2. LastNonce(S) \in Nonces(S) /\ NextNonce(S, k2) = LastNonce(S) + 1
      <4> HIDE DEF S
      <4> QED
        BY <3>1, <2>3, LastNonceType DEF NextNonce
    <3>3. PICK y \in S : NextNonce(S, k2) = y.data.nonce + 1
      BY <3>2 DEF Nonces
    <3>4. CASE w \in Q
      BY <3>3, <3>4, <1>2
    <3>5. CASE w \in R
      <4>1. PICK d \in P : d \in B /\ d.data.nonce > k2 /\ d.data.nonce < w.data.nonce
        BY <3>5
      <4>2. ~(d.data.nonce < y.data.nonce) /\ d.data.nonce # y.data.nonce
        BY <4>1, <3>3 DEF ListsOK, NoncesDiffer
      <4> QED
        BY <4>1, <4>2, <3>3, <1>1
    <3> QED
      BY <3>4, <3>5
  <2> QED
    BY <2>2, <2>3
<1> QED
  BY <1>3, <1>4, <1>5, <1>6 DEF ListsOK
------------------------------------------------------------------------------
(* The pool                                                                 *)
PoolOK(p, accts) ==
  /\ p \in PoolState
  /\ accts \in [Senders -> Account]
  /\ \A s \in Senders : ListsOK(p.pending[s], p.queued[s], accts[s].nonce)
  /\ \A s \in Senders : \A otx \in p.pending[s] \cup p.queued[s] :
       otx.data.from = s /\ BaseFee <= otx.data.gasLimit
  /\ \A tx \in p.byHash : \E otx \in p.pending[tx.from] \cup p.queued[tx.from] : otx.data = tx

(* A revert brings back the pool of any snapshot, with its accounts.        *)
PoolInv ==
  /\ PoolOK(pool, accounts)
  /\ nextPoolSnapshotId \in Nat
  /\ nextOrderId \in Nat
  /\ DOMAIN poolSnapshots \subseteq 0 .. nextPoolSnapshotId - 1
  /\ \A id \in DOMAIN poolSnapshots : PoolOK(poolSnapshots[id].pool, poolSnapshots[id].accounts)

LEMMA PoolStateType ==
  ASSUME NEW p \in PoolState, NEW accts \in [Senders -> Account], NEW s \in Senders
  PROVE  p.pending[s] \in Lists /\ p.queued[s] \in Lists /\ accts[s].nonce \in Nat
BY TxAssumption DEF PoolState, Lists, Account

LEMMA UpdatedPool ==
  ASSUME NEW p, NEW a, NEW a2 \in [Senders -> Account], PoolOK(p, a),
         \A s \in Senders : a[s].nonce <= a2[s].nonce,
         \A s \in Senders : a[s].nonce .. a2[s].nonce - 1 \subseteq Nonces(p.pending[s])
  PROVE  PoolOK(UpdatePendingAndQueued(p, a2), a2)
<1> DEFINE u == UpdatePendingAndQueued(p, a2)
           Bad == {otx \in OrderedTransaction : Unexecutable(otx.data, p.blockGasLimit, a2)}
<1>1. p \in PoolState /\ a \in [Senders -> Account]
  BY DEF PoolOK
<1>2. \A s \in Senders : /\ Requeued(p, s, a2) \in Lists
                         /\ Requeued(p, s, a2) \subseteq p.pending[s]
                         /\ Stay(p, s, a2) = (p.pending[s] \ Requeued(p, s, a2)) \ Bad
                         /\ Wait(p, s, a2) = (p.queued[s] \cup Requeued(p, s, a2)) \ Bad
                         /\ Stay(p, s, a2) \in Lists
                         /\ Wait(p, s, a2) \in Lists
  BY <1>1, PoolStateType DEF Requeued, Stay, Wait, Lists
<1>3. /\ u \in PoolState
      /\ \A s \in Senders : u.pending[s] = Stay(p, s, a2) /\ u.queued[s] = Wait(p, s, a2)
      /\ u.byHash = p.byHash \ DeletedHashes(p, a2)
  BY <1>1, <1>2 DEF UpdatePendingAndQueued, PoolState, Lists
<1> HIDE DEF u
<1>4. ASSUME NEW s \in Senders
      PROVE  ListsOK(u.pending[s], u.queued[s], a2[s].nonce)
  <2> DEFINE R == Requeued(p, s, a2)
  <2>1. /\ p.pending[s] \in Lists /\ p.queued[s] \in Lists /\ Bad \in Lists /\ R \in Lists
        /\ a[s].nonce \in Nat /\ a2[s].nonce \in Nat
    BY <1>1, <1>2, PoolStateType DEF Lists
  <2>2. ListsOK(p.pending[s], p.queued[s], a[s].nonce)
    BY DEF PoolOK
  <2>3. \A x \in p.pending[s] \cup p.queued[s] : x.data.nonce < a2[s].nonce => x \in Bad
    BY <2>1 DEF Unexecutable, PoolOK, Lists
  <2>4. R = {x \in p.pending[s] : \E d \in p.pending[s] : d \in Bad /\ d.data.nonce > a2[s].nonce
                                                       /\ d.data.nonce < x.data.nonce}
    BY <2>1 DEF Requeued, Lists
  <2> HIDE DEF R, Bad
  <2>5. ListsOK((p.pending[s] \ R) \ Bad, (p.queued[s] \cup R) \ Bad, a2[s].nonce)
    BY <2>1, <2>2, <2>3, <2>4, UpdatedLists
  <2> QED
    BY <2>5, <1>2, <1>3 DEF R
<1>5. \A s \in Senders : \A otx \in u.pending[s] \cup u.queued[s] :
        otx.data.from = s /\ BaseFee <= otx.data.gasLimit
  BY <1>2, <1>3 DEF PoolOK
<1>6. ASSUME NEW tx \in u.byHash
      PROVE  \E otx \in u.pending[tx.from] \cup u.queued[tx.from] : otx.data = tx
  <2>1. tx \in p.byHash /\ tx \notin DeletedHashes(p, a2)
    BY <1>3
  <2>2. tx.from \in Senders
    BY <2>1, <1>1, TxAssumption DEF PoolState
  <2>3. PICK otx \in p.pending[tx.from] \cup p.queued[tx.from] : otx.data = tx
    BY <2>1 DEF PoolOK
  <2>4. otx \in Stay(p, tx.from, a2) \cup Wait(p, tx.from, a2)
    BY <2>1, <2>2, <2>3 DEF DeletedHashes
  <2> QED
    BY <2>2, <2>3, <2>4, <1>3
<1> QED
  BY <1>3, <1>4, <1>5, <1>6 DEF PoolOK, u

LEMMA AddedTransaction ==
  ASSUME PoolInv, NEW tx \in Txs, AddTransaction(tx)
  PROVE  PoolOK(pool', accounts)
<1> DEFINE s == tx.from
           P == pool.pending[s]
           Q == pool.queued[s]
           k == accounts[s].nonce
           otx == [orderId |-> nextOrderId, data |-> tx]
<1>1. /\ pool \in PoolState /\ accounts \in [Senders -> Account] /\ s \in Senders
      /\ otx \in OrderedTransaction
  BY TxAssumption DEF PoolInv, PoolOK, OrderedTransaction
<1>2. P \in Lists /\ Q \in Lists /\ k \in Nat /\ tx.nonce \in Nat
  BY <1>1, PoolStateType, TxAssumption
<1>3. ListsOK(P, Q, k) /\ ExecutableNonce(s) = NextNonce(P, k) /\ NextNonce(P, k) \in Nat
  BY <1>1, <1>2, NextNonceType DEF PoolInv, PoolOK, ExecutableNonce, NextNonce
<1>4. tx.nonce >= ExecutableNonce(s) /\ tx.nonce \notin Nonces(Q) /\ BaseFee <= tx.gasLimit
  BY DEF AddTransaction, IsValid, TxWithNonceExists
<1>5. CASE tx.nonce = ExecutableNonce(s) /\ AddPendingTransaction(tx)
  <2> DEFINE added == P \cup {otx}
             moved == MovableTransactions(added, Q)
  <2>1. moved \subseteq Q
    BY DEF MovableTransactions
  <2>2. ListsOK(added \cup moved, Q \ moved, k)
    BY <1>1, <1>2, <1>3, <1>5, AddPendingLists
  <2>3. pool' = [pool EXCEPT !.pending[s] = added \cup moved, !.queued[s] = @ \ moved,
                             !.byHash = @ \cup {tx}]
    BY <1>5 DEF AddPendingTransaction
  <2> HIDE DEF moved
  <2>4. /\ pool' \in PoolState
        /\ pool'.pending = [pool.pending EXCEPT ![s] = added \cup moved]
        /\ pool'.queued = [pool.queued EXCEPT ![s] = Q \ moved]
        /\ pool'.byHash = pool.byHash \cup {tx}
    BY <2>1, <2>3, <1>1 DEF PoolState
  <2>5. pool.pending \in [Senders -> Lists] /\ pool.queued \in [Senders -> Lists]
    BY <1>1 DEF PoolState, Lists
  <2>6. \A r \in Senders : ListsOK(pool'.pending[r], pool'.queued[r], accounts[r].nonce)
    BY <2>2, <2>4, <2>5 DEF PoolInv, PoolOK
  <2>7. \A r \in Senders : \A x \in pool'.pending[r] \cup pool'.queued[r] :
          x.data.from = r /\ BaseFee <= x.data.gasLimit
    BY <2>1, <2>4, <2>5, <1>1, <1>4 DEF PoolInv, PoolOK
  <2>8. \A t \in pool'.byHash : \E x \in pool'.pending[t.from] \cup pool'.queued[t.from] : x.data = t
    <3> SUFFICES ASSUME NEW t \in pool'.byHash
                 PROVE  \E x \in pool'.pending[t.from] \cup pool'.queued[t.from] : x.data = t
      OBVIOUS
    <3>1. CASE t = tx
      BY <3>1, <2>4, <2>5, <1>1
    <3>2. CASE t \in pool.byHash
      <4>1. t.from \in Senders
        BY <3>2, <1>1, TxAssumption DEF PoolState
      <4>2. PICK x \in pool.pending[t.from] \cup pool.queued[t.from] : x.data = t
        BY <3>2 DEF PoolInv, PoolOK
      <4> QED
        BY <4>1, <4>2, <2>1, <2>4, <2>5
    <3> QED
      BY <3>1, <3>2, <2>4
  <2> QED
    BY <2>4, <2>6, <2>7, <2>8, <1>1 DEF PoolOK
<1>6. CASE tx.nonce # ExecutableNonce(s) /\ AddQueuedTransaction(tx)
  <2>1. ListsOK(P, Q \cup {otx}, k)
    <3>1. NextNonce(P, k) < otx.data.nonce /\ otx.data.nonce \notin Nonces(Q)
      BY <1>2, <1>3, <1>4, <1>6
    <3> QED
      BY <3>1, <1>1, <1>2, <1>3, AddQueuedLists
  <2>2. /\ pool' \in PoolState
        /\ pool'.pending = pool.pending
        /\ pool'.queued = [pool.queued EXCEPT ![s] = Q \cup {otx}]
        /\ pool'.byHash = pool.byHash \cup {tx}
    BY <1>1, <1>6 DEF AddQueuedTransaction, PoolState
  <2>3. pool.pending \in [Senders -> Lists] /\ pool.queued \in [Senders -> Lists]
    BY <1>1 DEF PoolState, Lists
  <2>4. \A r \in Senders : ListsOK(pool'.pending[r], pool'.queued[r], accounts[r].nonce)
    BY <2>1, <2>2, <2>3 DEF PoolInv, PoolOK
  <2>5. \A r \in Senders : \A x \in pool'.pending[r] \cup pool'.queued[r] :
          x.data.from = r /\ BaseFee <= x.data.gasLimit
    BY <2>2, <2>3, <1>1, <1>4 DEF PoolInv, PoolOK
  <2>6. \A t \in pool'.byHash : \E x \in pool'.pending[t.from] \cup pool'.queued[t.from] : x.data = t
    <3> SUFFICES ASSUME NEW t \in pool'.byHash
                 PROVE  \E x \in pool'.pending[t.from] \cup pool'.queued[t.from] : x.data = t
      OBVIOUS
    <3>1. CASE t = tx
      BY <3>1, <2>2, <2>3, <1>1
    <3>2. CASE t \in pool.byHash
      <4>1. t.from \in Senders
        BY <3>2, <1>1, TxAssumption DEF PoolState
      <4>2. PICK x \in pool.pending[t.from] \cup pool.queued[t.from] : x.data = t
        BY <3>2 DEF PoolInv, PoolOK
      <4> QED
        BY <4>1, <4>2, <2>2, <2>3
    <3> QED
      BY <3>1, <3>2, <2>2
  <2> QED
    BY <2>2, <2>4, <2>5, <2>6, <1>1 DEF PoolOK
<1> QED
  BY <1>5, <1>6 DEF AddTransaction

LEMMA PoolInvInit == TxPoolInit => PoolInv
<1> SUFFICES ASSUME TxPoolInit PROVE PoolInv
  OBVIOUS
<1>1. PICK limit \in GasLimits :
        pool = [pending |-> [s \in Senders |-> {}], queued |-> [s \in Senders |-> {}],
                byHash |-> {}, blockGasLimit |-> limit]
  BY DEF TxPoolInit
<1>2. pool \in PoolState /\ \A s \in Senders : pool.pending[s] = {} /\ pool.queued[s] = {}
  BY <1>1, TxAssumption DEF PoolState
<1>3. accounts \in [Senders -> Account]
  BY DEF TxPoolInit
<1>4. PoolOK(pool, accounts)
  BY <1>1, <1>2, <1>3 DEF PoolOK, ListsOK, GapFree, NoncesDiffer
<1>5. nextPoolSnapshotId = 0 /\ nextOrderId = 0 /\ DOMAIN poolSnapshots = {}
  BY DEF TxPoolInit
<1> QED
  BY <1>4, <1>5 DEF PoolInv

LEMMA PoolInvStep == PoolInv /\ [TxPoolNext]_poolVars => PoolInv'
<1> SUFFICES ASSUME PoolInv, [TxPoolNext]_poolVars PROVE PoolInv'
  OBVIOUS
<1>1. ASSUME NEW tx \in Txs, AddTransaction(tx)
      PROVE  PoolInv'
  BY <1>1, AddedTransaction DEF PoolInv, AddTransaction
<1>2. ASSUME NEW limit \in GasLimits, SetBlockGasLimit(limit)
      PROVE  PoolInv'
  <2> DEFINE p == [pool EXCEPT !.blockGasLimit = limit]
  <2>1. PoolOK(p, accounts)
    BY TxAssumption DEF PoolInv, PoolOK, PoolState
  <2>2. \A s \in Senders : accounts[s].nonce \in Nat
    BY TxAssumption DEF PoolInv, PoolOK, Account
  <2> HIDE DEF p
  <2>3. PoolOK(UpdatePendingAndQueued(p, accounts), accounts)
    BY <2>1, <2>2, UpdatedPool DEF PoolInv, PoolOK
  <2> QED
    BY <1>2, <2>3 DEF PoolInv, SetBlockGasLimit, p
<1>3. CASE SnapshotPool
  BY <1>3 DEF PoolInv, SnapshotPool
<1>4. ASSUME NEW id \in DOMAIN poolSnapshots, RevertPool(id)
      PROVE  PoolInv'
  BY <1>4 DEF PoolInv, RevertPool
<1>5. CASE BlockMined
  <2>1. PICK accts \in [Senders -> Account] :
          /\ \A s \in Senders : accounts[s].nonce .. accts[s].nonce - 1 \subseteq Nonces(pool.pending[s])
          /\ \A s \in Senders : accounts[s].nonce <= accts[s].nonce
          /\ accounts' = accts
          /\ pool' = UpdatePendingAndQueued(pool, accts)
    BY <1>5 DEF BlockMined
  <2>2. PoolOK(pool', accounts')
    BY <2>1, UpdatedPool DEF PoolInv
  <2> QED
    BY <1>5, <2>2 DEF PoolInv, BlockMined
<1>6. CASE UNCHANGED poolVars
  BY <1>6 DEF PoolInv, poolVars
<1> QED
  BY <1>1, <1>2, <1>3, <1>4, <1>5, <1>6 DEF TxPoolNext

(* The pool and every snapshot of it are in order whatever is added, mined, *)
(* set and reverted.                                                        *)
THEOREM PoolInvariant == TxPoolSpec => []PoolInv
<1>1. TxPoolInit => PoolInv
  BY PoolInvInit
<1>2. PoolInv /\ [TxPoolNext]_poolVars => PoolInv'
  BY PoolInvStep
<1> QED
  BY <1>1, <1>2, PTL DEF TxPoolSpec
------------------------------------------------------------------------------
(* The pool, its snapshots and counters keep their types.                   *)
THEOREM PoolTypeCorrect == TxPoolSpec => []TxPoolTypeOK
<1>1. PoolInv => TxPoolTypeOK
  BY DEF PoolInv, PoolOK, TxPoolTypeOK
<1> QED
  BY <1>1, PoolInvariant, PTL

(* The lists of a sender, from the state of the pool.                       *)
LEMMA ListsOfSender ==
  ASSUME PoolInv, NEW s \in Senders
  PROVE  /\ pool.pending[s] \in Lists /\ pool.queued[s] \in Lists
         /\ accounts[s].nonce \in Nat
         /\ ListsOK(pool.pending[s], pool.queued[s], accounts[s].nonce)
         /\ ExecutableNonce(s) = NextNonce(pool.pending[s], accounts[s].nonce)
BY PoolStateType DEF PoolInv, PoolOK, ExecutableNonce, NextNonce

(* The pending transactions of a sender can be mined one after the other:   *)
(* their nonces are consecutive.                                            *)
THEOREM PendingStaysWithoutGaps == TxPoolSpec => []PendingWithoutGaps
<1>1. PoolInv => PendingWithoutGaps
  <2> SUFFICES ASSUME PoolInv, NEW s \in Senders
               PROVE  /\ \E first, next \in 0 .. MaxNonce + 1 :
                           Nonces(pool.pending[s]) = first .. next - 1
                      /\ \A x, y \in pool.pending[s] : x.data.nonce = y.data.nonce => x = y
    BY DEF PendingWithoutGaps
  <2> DEFINE P == pool.pending[s]
             N == Nonces(P)
  <2>1. P \in Lists /\ GapFree(P) /\ NoncesDiffer(P)
    BY ListsOfSender DEF ListsOK
  <2> HIDE DEF P
  <2>2. CASE P = {}
    <3>1. N = 0 .. 0 - 1 /\ 0 \in 0 .. MaxNonce + 1
      BY <2>2, TxAssumption DEF Nonces
    <3> QED
      BY <3>1, <2>1 DEF NoncesDiffer, P
  <2>3. CASE P # {}
    <3>1. N \in SUBSET (0 .. MaxNonce) /\ N \in SUBSET Nat /\ N # {}
      BY <2>1, <2>3, NonceType DEF Nonces, Lists
    <3>2. PICK first \in N : \A m \in N : first <= m
      BY <3>1, LeastExists
    <3>3. PICK last \in N : \A m \in N : m <= last
      BY <3>1, GreatestExists, TxAssumption
    <3>4. first .. last \subseteq N
      BY <3>2, <3>3, <2>1 DEF GapFree, Nonces
    <3> HIDE DEF N
    <3>5. /\ first \in Nat /\ last \in Nat
          /\ first \in 0 .. MaxNonce + 1 /\ last + 1 \in 0 .. MaxNonce + 1
      BY <3>1, <3>2, <3>3, TxAssumption
    <3>6. N \subseteq first .. last
      BY <3>1, <3>2, <3>3, <3>5
    <3>7. N = first .. (last + 1) - 1
      <4>1. first .. (last + 1) - 1 = first .. last
        BY <3>5
      <4> QED
        BY <4>1, <3>4, <3>6, Zenon
    <3> QED
      BY <3>5, <3>7, <2>1 DEF NoncesDiffer, P, N
  <2> QED
    BY <2>2, <2>3
<1> QED
  BY <1>1, PoolInvariant, PTL

(* No queued transaction could be executed already: each waits for one with *)
(* a lower nonce.                                                           *)
THEOREM QueuedAlwaysWait == TxPoolSpec => []QueuedWaitForOthers
<1>1. PoolInv => QueuedWaitForOthers
  <2> SUFFICES ASSUME PoolInv, NEW s \in Senders, NEW otx \in pool.queued[s]
               PROVE  otx.data.nonce > ExecutableNonce(s)
    BY DEF QueuedWaitForOthers
  <2>1. /\ ExecutableNonce(s) < otx.data.nonce
        /\ otx \in OrderedTransaction
        /\ ExecutableNonce(s) \in Nat
    BY ListsOfSender, NextNonceType DEF ListsOK, Lists
  <2> QED
    BY <2>1, NonceType
<1> QED
  BY <1>1, PoolInvariant, PTL

(* A nonce is queued once.                                                  *)
THEOREM QueuedNoncesStayDifferent == TxPoolSpec => []QueuedNoncesDiffer
<1>1. PoolInv => QueuedNoncesDiffer
  BY ListsOfSender DEF ListsOK, NoncesDiffer, QueuedNoncesDiffer
<1> QED
  BY <1>1, PoolInvariant, PTL

(* What is found by its hash is in the pool.                                *)
THEOREM FoundByHashStaysPooled == TxPoolSpec => []FoundByHashIsPooled
<1>1. PoolInv => FoundByHashIsPooled
  BY DEF PoolInv, PoolOK, FoundByHashIsPooled, KnownTransaction
<1> QED
  BY <1>1, PoolInvariant, PTL

(* What leaves the pool otherwise than by a revert cannot be executed any   *)
(* more.                                                                    *)
LEMMA KeptUnlessUnexecutable ==
  ASSUME NEW p \in PoolState, NEW accts, NEW s \in Senders, NEW otx \in p.pending[s] \cup p.queued[s],
         ~Unexecutable(otx.data, p.blockGasLimit, accts)
  PROVE  LET u == UpdatePendingAndQueued(p, accts) IN otx \in u.pending[s] \cup u.queued[s]
<1>1. otx \in Stay(p, s, accts) \cup Wait(p, s, accts)
  BY DEF Stay, Wait
<1>2. /\ UpdatePendingAndQueued(p, accts).pending = [r \in Senders |-> Stay(p, r, accts)]
      /\ UpdatePendingAndQueued(p, accts).queued = [r \in Senders |-> Wait(p, r, accts)]
  BY DEF UpdatePendingAndQueued, PoolState
<1> QED
  BY <1>1, <1>2

THEOREM ViableKept == TxPoolSpec => NothingViableLost
<1> DEFINE Kept ==
      \A s \in Senders : \A otx \in pool.pending[s] \cup pool.queued[s] :
         \/ otx \in (pool.pending[s] \cup pool.queued[s])'
         \/ Unexecutable(otx.data, pool'.blockGasLimit, accounts')
         \/ poolSnapshots' # poolSnapshots
<1>1. PoolInv /\ [TxPoolNext]_poolVars => [Kept]_poolVars
  <2> SUFFICES ASSUME PoolInv, TxPoolNext,
                      NEW s \in Senders, NEW otx \in pool.pending[s] \cup pool.queued[s],
                      poolSnapshots' = poolSnapshots
               PROVE  \/ otx \in pool'.pending[s] \cup pool'.queued[s]
                      \/ Unexecutable(otx.data, pool'.blockGasLimit, accounts')
    OBVIOUS
  <2>1. pool \in PoolState
    BY DEF PoolInv, PoolOK
  <2>2. ASSUME NEW tx \in Txs, AddTransaction(tx)
        PROVE  otx \in pool'.pending[s] \cup pool'.queued[s]
    <3>1. CASE AddPendingTransaction(tx)
      <4> DEFINE added == pool.pending[tx.from] \cup {[orderId |-> nextOrderId, data |-> tx]}
                 moved == MovableTransactions(added, pool.queued[tx.from])
      <4>1. /\ pool'.pending = [pool.pending EXCEPT ![tx.from] = added \cup moved]
            /\ pool'.queued = [pool.queued EXCEPT ![tx.from] = @ \ moved]
        BY <3>1, <2>1 DEF AddPendingTransaction, PoolState
      <4> HIDE DEF moved
      <4> QED
        BY <4>1, <2>1 DEF PoolState
    <3>2. CASE AddQueuedTransaction(tx)
      BY <3>2, <2>1 DEF AddQueuedTransaction, PoolState
    <3> QED
      BY <2>2, <3>1, <3>2 DEF AddTransaction
  <2>3. ASSUME NEW limit \in GasLimits, SetBlockGasLimit(limit)
        PROVE  \/ otx \in pool'.pending[s] \cup pool'.queued[s]
               \/ Unexecutable(otx.data, pool'.blockGasLimit, accounts')
    <3> DEFINE p == [pool EXCEPT !.blockGasLimit = limit]
    <3>1. /\ p \in PoolState /\ p.pending = pool.pending /\ p.queued = pool.queued
      BY <2>1, TxAssumption DEF PoolState
    <3>2. pool' = UpdatePendingAndQueued(p, accounts) /\ accounts' = accounts
      BY <2>3 DEF SetBlockGasLimit
    <3>3. pool'.blockGasLimit = p.blockGasLimit
      BY <3>1, <3>2 DEF UpdatePendingAndQueued, PoolState
    <3> HIDE DEF p
    <3> QED
      BY <3>1, <3>2, <3>3, KeptUnlessUnexecutable
  <2>4. CASE SnapshotPool
    BY <2>4 DEF SnapshotPool
  <2>5. ASSUME NEW id \in DOMAIN poolSnapshots, RevertPool(id)
        PROVE  FALSE
    <3>1. id \in Nat
      BY DEF PoolInv
    <3>2. DOMAIN poolSnapshots' = {j \in DOMAIN poolSnapshots : j < id}
      BY <2>5 DEF RevertPool
    <3> QED
      BY <3>1, <3>2
  <2>6. CASE BlockMined
    <3>1. PICK accts : pool' = UpdatePendingAndQueued(pool, accts) /\ accounts' = accts
      BY <2>6 DEF BlockMined
    <3>2. pool'.blockGasLimit = pool.blockGasLimit
      BY <3>1, <2>1 DEF UpdatePendingAndQueued, PoolState
    <3> QED
      BY <3>1, <3>2, <2>1, KeptUnlessUnexecutable
  <2> QED
    BY <2>2, <2>3, <2>4, <2>5, <2>6 DEF TxPoolNext
<1> QED
  BY <1>1, PoolInvariant, PTL DEF TxPoolSpec, NothingViableLost
=============================================================================
