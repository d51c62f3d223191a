--------------------------- MODULE EnumerableProofs --------------------------
(***************************************************************************)
(* EnumerableSet and EnumerableMap are a set and a partial function, and   *)
(* the ledger stored in them implements the abstract one, for any set of   *)
(* tokens and accounts.                                                    *)
(***************************************************************************)
EXTENDS EnumerableLedger, SequenceTheorems, TLAPS

(* The index of every value of the array leads back to it, and no other     *)
(* value has an index.                                                      *)
WellFormedSet(set, V) ==
  /\ set \in EnumerableSets(V)
  /\ \A i \in 1 .. Len(set.values) : set.indexes[set.values[i]] = i
  /\ \A v \in V : SetContains(set, v) =>
       set.indexes[v] \in 1 .. Len(set.values) /\ set.values[set.indexes[v]] = v

WellFormedMap(map, K, V) ==
  /\ map \in EnumerableMaps(K, V)
  /\ \A i \in 1 .. Len(map.entries) : map.indexes[map.entries[i].key] = i
  /\ \A k \in K : MapContains(map, k) =>
       map.indexes[k] \in 1 .. Len(map.entries) /\ map.entries[map.indexes[k]].key = k
------------------------------------------------------------------------------
LEMMA SetAddCorrect ==
  ASSUME NEW V, NEW set, WellFormedSet(set, V), NEW value \in V
  PROVE  /\ WellFormedSet(SetAdd(set, value), V)
         /\ \A v \in V : SetContains(SetAdd(set, value), v) <=> SetContains(set, v) \/ v = value
<1>1. CASE SetContains(set, value)
  BY <1>1 DEF SetAdd
<1>2. CASE ~SetContains(set, value)
  <2> DEFINE new == SetAdd(set, value)
             n == Len(set.values)
  <2>1. set.values \in Seq(V) /\ set.indexes \in [V -> Nat] /\ n \in Nat
    BY DEF WellFormedSet, EnumerableSets
  <2>2. /\ new.values = Append(set.values, value)
        /\ new.indexes = [set.indexes EXCEPT ![value] = n + 1]
        /\ new = [values |-> new.values, indexes |-> new.indexes]
    BY <1>2 DEF SetAdd
  <2>3. /\ new.values \in Seq(V)
        /\ Len(new.values) = n + 1
        /\ \A i \in 1 .. n : new.values[i] = set.values[i] /\ set.values[i] \in V
        /\ new.values[n + 1] = value
    BY <2>1, <2>2
  <2>4. /\ new.indexes \in [V -> Nat]
        /\ new.indexes[value] = n + 1
        /\ \A v \in V : v # value => new.indexes[v] = set.indexes[v]
    BY <2>1, <2>2
  <2>5. new \in EnumerableSets(V)
    BY <2>2, <2>3, <2>4 DEF EnumerableSets
  <2>6. \A i \in 1 .. n : set.values[i] # value /\ set.indexes[set.values[i]] = i
    BY <1>2, <2>1 DEF WellFormedSet, SetContains
  <2> HIDE DEF new, n
  <2>7. \A i \in 1 .. Len(new.values) : new.indexes[new.values[i]] = i
    <3> SUFFICES ASSUME NEW i \in 1 .. n + 1 PROVE new.indexes[new.values[i]] = i
      BY <2>3
    <3>1. CASE i = n + 1
      BY <2>3, <2>4, <3>1
    <3>2. CASE i # n + 1
      <4>1. i \in 1 .. n
        BY <2>1, <3>2
      <4> QED
        BY <2>3, <2>4, <2>6, <4>1
    <3> QED
      BY <3>1, <3>2
  <2>8. \A v \in V : SetContains(new, v) <=> SetContains(set, v) \/ v = value
    BY <2>1, <2>4 DEF SetContains
  <2>9. \A v \in V : SetContains(new, v) =>
          new.indexes[v] \in 1 .. Len(new.values) /\ new.values[new.indexes[v]] = v
    <3> SUFFICES ASSUME NEW v \in V, SetContains(new, v)
                 PROVE  new.indexes[v] \in 1 .. n + 1 /\ new.values[new.indexes[v]] = v
      BY <2>3
    <3>1. CASE v = value
      BY <2>1, <2>3, <2>4, <3>1
    <3>2. CASE v # value
      <4>1. set.indexes[v] \in 1 .. n /\ set.values[set.indexes[v]] = v
        BY <2>8, <3>2 DEF WellFormedSet, n
      <4>2. new.indexes[v] = set.indexes[v] /\ new.indexes[v] \in 1 .. n + 1
        BY <2>1, <2>4, <3>2, <4>1
      <4> QED
        BY <2>3, <4>1, <4>2
    <3> QED
      BY <3>1, <3>2
  <2> QED
    BY <2>5, <2>7, <2>8, <2>9 DEF WellFormedSet, new
<1> QED
  BY <1>1, <1>2

LEMMA SetRemoveCorrect ==
  ASSUME NEW V, NEW set, WellFormedSet(set, V), NEW value \in V
  PROVE  /\ WellFormedSet(SetRemove(set, value), V)
         /\ \A v \in V : SetContains(SetRemove(set, value), v) <=> SetContains(set, v) /\ v # value
<1>1. CASE ~SetContains(set, value)
  BY <1>1 DEF SetRemove, SetContains
<1>2. CASE SetContains(set, value)
  <2> DEFINE new == SetRemove(set, value)
             n == Len(set.values)
             index == set.indexes[value]
             last == set.values[n]
             swapped == [set.values EXCEPT ![index] = last]
  <2>1. set.values \in Seq(V) /\ set.indexes \in [V -> Nat] /\ n \in Nat
    BY DEF WellFormedSet, EnumerableSets
  <2>2. index \in 1 .. n /\ set.values[index] = value /\ index # 0 /\ n \in 1 .. n
    BY <1>2, <2>1 DEF WellFormedSet, SetContains
  <2>3. last \in V /\ set.indexes[last] = n
    BY <2>1, <2>2 DEF WellFormedSet
  <2>4. /\ new.values = SubSeq(swapped, 1, Len(swapped) - 1)
        /\ new.indexes = [[set.indexes EXCEPT ![last] = index] EXCEPT ![value] = 0]
        /\ new = [values |-> new.values, indexes |-> new.indexes]
    BY <2>2 DEF SetRemove, WithoutLast
  <2>5. /\ swapped \in Seq(V)
        /\ Len(swapped) = n
        /\ \A i \in 1 .. n : swapped[i] = IF i = index THEN last ELSE set.values[i]
    BY <2>1, <2>2, <2>3, ExceptSeq
  <2> HIDE DEF new, n, index, last, swapped
  <2>6. \A i \in 1 .. n - 1 : swapped[i] \in V
    BY <2>1, <2>5
  <2>7. /\ new.values \in Seq(V)
        /\ Len(new.values) = n - 1
        /\ \A i \in 1 .. n - 1 : new.values[i] = swapped[i]
    BY <2>1, <2>2, <2>4, <2>5, <2>6, SubSeqProperties
  <2>8. /\ new.indexes \in [V -> Nat]
        /\ new.indexes[value] = 0
        /\ last # value => new.indexes[last] = index
        /\ \A v \in V : v # value /\ v # last => new.indexes[v] = set.indexes[v]
    <3> DEFINE moved == [set.indexes EXCEPT ![last] = index]
    <3>1. index \in Nat
      BY <2>1, <2>2
    <3>2. /\ moved \in [V -> Nat]
          /\ moved[last] = index
          /\ \A v \in V : v # last => moved[v] = set.indexes[v]
      BY <2>1, <2>3, <3>1
    <3>3. new.indexes = [moved EXCEPT ![value] = 0]
      BY <2>4
    <3> HIDE DEF moved
    <3>4. /\ new.indexes \in [V -> Nat]
          /\ new.indexes[value] = 0
          /\ \A v \in V : v # value => new.indexes[v] = moved[v]
      BY <3>2, <3>3
    <3> QED
      BY <2>3, <3>2, <3>4
  <2>9. new \in EnumerableSets(V)
    BY <2>4, <2>7, <2>8 DEF EnumerableSets
  <2>10. \A i \in 1 .. n : set.values[i] \in V /\ set.indexes[set.values[i]] = i
    BY <2>1 DEF WellFormedSet, n
  <2>11. set.indexes[value] = index /\ set.values[n] = last
    BY DEF index, last
  <2>12. \A i \in 1 .. n - 1 : new.indexes[new.values[i]] = i
    <3> SUFFICES ASSUME NEW i \in 1 .. n - 1 PROVE new.indexes[new.values[i]] = i
      OBVIOUS
    <3>1. CASE i = index
      <4>1. new.values[i] = last
        BY <2>1, <2>2, <2>5, <2>7, <3>1
      <4>2. last # value
        BY <2>1, <2>2, <2>3, <2>11, <3>1
      <4> QED
        BY <2>8, <3>1, <4>1, <4>2
    <3>2. CASE i # index
      <4>1. new.values[i] = set.values[i] /\ i \in 1 .. n
        BY <2>1, <2>5, <2>7, <3>2
      <4>2. set.values[i] # value /\ set.values[i] # last
        BY <2>1, <2>3, <2>10, <2>11, <3>2, <4>1
      <4> QED
        BY <2>8, <2>10, <4>1, <4>2
    <3> QED
      BY <3>1, <3>2
  <2>13. \A v \in V : SetContains(new, v) <=> SetContains(set, v) /\ v # value
    BY <2>1, <2>2, <2>3, <2>8 DEF SetContains
  <2>14. \A v \in V : SetContains(new, v) =>
          new.indexes[v] \in 1 .. Len(new.values) /\ new.values[new.indexes[v]] = v
    <3> SUFFICES ASSUME NEW v \in V, SetContains(new, v)
                 PROVE  new.indexes[v] \in 1 .. n - 1 /\ new.values[new.indexes[v]] = v
      BY <2>7
    <3>1. /\ v # value
          /\ set.indexes[v] \in 1 .. n
          /\ set.values[set.indexes[v]] = v
      BY <2>13 DEF WellFormedSet, n
    <3>2. CASE v = last
      <4>1. index # n
        BY <2>2, <2>11, <3>1, <3>2
      <4>2. new.indexes[v] = index /\ index \in 1 .. n - 1
        BY <2>1, <2>2, <2>8, <3>1, <3>2, <4>1
      <4> QED
        BY <2>2, <2>5, <2>7, <3>2, <4>2
    <3>3. CASE v # last
      <4>1. new.indexes[v] = set.indexes[v] /\ set.indexes[v] # n /\ set.indexes[v] # index
        BY <2>2, <2>8, <2>11, <3>1, <3>3
      <4>2. set.indexes[v] \in 1 .. n - 1
        BY <2>1, <3>1, <4>1
      <4> QED
        BY <2>5, <2>7, <3>1, <4>1, <4>2
    <3> QED
      BY <3>2, <3>3
  <2> QED
    BY <2>7, <2>9, <2>12, <2>13, <2>14 DEF WellFormedSet, new
<1> QED
  BY <1>1, <1>2

(* Setting a key gives it its value, keeps the other keys' values and does  *)
(* not move an entry.                                                       *)
LEMMA MapSetCorrect ==
  ASSUME NEW K, NEW V, NEW map, WellFormedMap(map, K, V), NEW key \in K, NEW value \in V
  PROVE  /\ WellFormedMap(MapSet(map, key, value), K, V)
         /\ \A k \in K : MapContains(MapSet(map, key, value), k) <=> MapContains(map, k) \/ k = key
         /\ MapGet(MapSet(map, key, value), key) = value
         /\ \A k \in K : MapContains(map, k) /\ k # key =>
              MapGet(MapSet(map, key, value), k) = MapGet(map, k)
         /\ \A i \in 1 .. Len(map.entries) :
              /\ i \in 1 .. Len(MapSet(map, key, value).entries)
              /\ MapSet(map, key, value).entries[i].key = map.entries[i].key
<1> DEFINE new == MapSet(map, key, value)
           n == Len(map.entries)
           E == [key: K, value: V]
<1>1. map \in EnumerableMaps(K, V)
  BY DEF WellFormedMap
<1>2. map.entries \in Seq(E) /\ map.indexes \in [K -> Nat] /\ n \in Nat
  BY <1>1 DEF EnumerableMaps
<1>3. \A i \in 1 .. n : map.entries[i] \in E /\ map.indexes[map.entries[i].key] = i
  <2>1. \A i \in 1 .. n : map.indexes[map.entries[i].key] = i
    BY DEF WellFormedMap
  <2> HIDE DEF E
  <2>2. \A i \in 1 .. n : map.entries[i] \in E
    BY <1>2
  <2> QED
    BY <2>1, <2>2
<1>4. \A k \in K : map.indexes[k] # 0 =>
        map.indexes[k] \in 1 .. n /\ map.entries[map.indexes[k]].key = k
  BY DEF WellFormedMap, MapContains
<1>5. CASE MapContains(map, key)
  <2> DEFINE place == map.indexes[key]
             entry == [map.entries[place] EXCEPT !.value = value]
  <2>1. place \in 1 .. n /\ map.entries[place].key = key /\ map.entries[place] \in E
    BY <1>3, <1>4, <1>5 DEF MapContains
  <2>2. entry \in E /\ entry.key = key /\ entry.value = value
    BY <2>1
  <2>3. /\ new.entries = [map.entries EXCEPT ![place] = entry]
        /\ new.indexes = map.indexes
        /\ new = [entries |-> new.entries, indexes |-> new.indexes]
    BY <1>1, <1>5 DEF MapSet, EnumerableMaps
  <2> HIDE DEF new, n, E, place, entry
  <2>4. /\ new.entries \in Seq(E)
        /\ Len(new.entries) = n
        /\ new.entries[place] = entry
        /\ \A i \in 1 .. n : i # place => new.entries[i] = map.entries[i]
    BY <1>2, <2>1, <2>2, <2>3, ExceptSeq DEF n
  <2>5. new \in EnumerableMaps(K, V)
    BY <1>2, <2>3, <2>4 DEF EnumerableMaps, E
  <2>6. \A i \in 1 .. n : new.entries[i].key = map.entries[i].key
    BY <2>1, <2>2, <2>4
  <2>7. \A k \in K : MapContains(new, k) <=> MapContains(map, k) \/ k = key
    BY <1>5, <2>3 DEF MapContains
  <2>8. WellFormedMap(new, K, V)
    BY <1>3, <1>4, <2>3, <2>4, <2>5, <2>6 DEF WellFormedMap, MapContains
  <2>9. MapGet(new, key) = value
    BY <2>2, <2>3, <2>4 DEF MapGet, place
  <2>10. \A k \in K : MapContains(map, k) /\ k # key => MapGet(new, k) = MapGet(map, k)
    BY <1>4, <2>1, <2>3, <2>4 DEF MapGet, MapContains
  <2> QED
    BY <2>4, <2>6, <2>7, <2>8, <2>9, <2>10 DEF new, n
<1>6. CASE ~MapContains(map, key)
  <2> DEFINE entry == MapEntry(key, value)
  <2>1. entry \in E /\ entry.key = key /\ entry.value = value
    BY DEF MapEntry
  <2>2. /\ new.entries = Append(map.entries, entry)
        /\ new.indexes = [map.indexes EXCEPT ![key] = n + 1]
        /\ new = [entries |-> new.entries, indexes |-> new.indexes]
    BY <1>6 DEF MapSet
  <2> HIDE DEF new, n, E, entry
  <2>3. /\ new.entries \in Seq(E)
        /\ Len(new.entries) = n + 1
        /\ new.entries[n + 1] = entry
        /\ \A i \in 1 .. n : new.entries[i] = map.entries[i]
    BY <1>2, <2>1, <2>2 DEF n
  <2>4. /\ new.indexes \in [K -> Nat]
        /\ new.indexes[key] = n + 1
        /\ \A k \in K : k # key => new.indexes[k] = map.indexes[k]
    BY <1>2, <2>2
  <2>5. new \in EnumerableMaps(K, V)
    BY <2>2, <2>3, <2>4 DEF EnumerableMaps, E
  <2>6. \A k \in K : MapContains(new, k) <=> MapContains(map, k) \/ k = key
    BY <1>2, <2>4 DEF MapContains
  <2>7. \A i \in 1 .. n : map.entries[i].key \in K /\ map.entries[i].key # key
    BY <1>2, <1>3, <1>6 DEF MapContains, E
  <2>8. \A i \in 1 .. n + 1 : new.indexes[new.entries[i].key] = i
    <3> SUFFICES ASSUME NEW i \in 1 .. n + 1 PROVE new.indexes[new.entries[i].key] = i
      OBVIOUS
    <3>1. CASE i = n + 1
      BY <2>1, <2>3, <2>4, <3>1
    <3>2. CASE i # n + 1
      <4>1. i \in 1 .. n
        BY <1>2, <3>2
      <4> QED
        BY <1>3, <2>3, <2>4, <2>7, <4>1
    <3> QED
      BY <3>1, <3>2
  <2>9. \A k \in K : MapContains(map, k) =>
          k # key /\ new.indexes[k] = map.indexes[k] /\ new.indexes[k] \in 1 .. n
            /\ new.entries[new.indexes[k]] = map.entries[map.indexes[k]]
    BY <1>4, <1>6, <2>3, <2>4 DEF MapContains
  <2>10. \A k \in K : MapContains(new, k) =>
           new.indexes[k] \in 1 .. n + 1 /\ new.entries[new.indexes[k]].key = k
    <3> SUFFICES ASSUME NEW k \in K, MapContains(new, k)
                 PROVE  new.indexes[k] \in 1 .. n + 1 /\ new.entries[new.indexes[k]].key = k
      OBVIOUS
    <3>1. CASE k = key
      BY <1>2, <2>1, <2>3, <2>4, <3>1
    <3>2. CASE k # key
      <4>1. MapContains(map, k)
        BY <2>6, <3>2
      <4>2. map.entries[map.indexes[k]].key = k
        BY <1>4, <4>1 DEF MapContains
      <4> QED
        BY <1>2, <2>9, <4>1, <4>2
    <3> QED
      BY <3>1, <3>2
  <2>11. WellFormedMap(new, K, V)
    BY <2>3, <2>5, <2>8, <2>10 DEF WellFormedMap
  <2>12. MapGet(new, key) = value
    BY <2>1, <2>3, <2>4 DEF MapGet
  <2>13. \A k \in K : MapContains(map, k) /\ k # key => MapGet(new, k) = MapGet(map, k)
    BY <2>9 DEF MapGet
  <2>14. \A i \in 1 .. n : i \in 1 .. n + 1
    BY <1>2
  <2> QED
    BY <2>3, <2>6, <2>11, <2>12, <2>13, <2>14 DEF new, n
<1> QED
  BY <1>5, <1>6
------------------------------------------------------------------------------
(* A token is in the set of the holder that the map gives it, and in no     *)
(* other one.                                                               *)
SetsFollowMap ==
  \A a \in Address, t \in TokenIds :
    SetContains(holderSets[a], t) <=> MapContains(ownerMap, t) /\ MapGet(ownerMap, t) = a

EnumerableInv ==
  /\ holderSets \in [Address -> EnumerableSets(TokenIds)]
  /\ \A a \in Address : WellFormedSet(holderSets[a], TokenIds)
  /\ WellFormedMap(ownerMap, TokenIds, Address)
  /\ SetsFollowMap

(* What a mint and a transfer of a token come to: it is in the set of the   *)
(* receiver only, and the map has it as the holder.                         *)
SetsMove(to, token) ==
  /\ holderSets' \in [Address -> EnumerableSets(TokenIds)]
  /\ \A a \in Address : WellFormedSet(holderSets'[a], TokenIds)
  /\ \A a \in Address : SetContains(holderSets'[a], token) <=> a = to
  /\ \A a \in Address, t \in TokenIds \ {token} :
       SetContains(holderSets'[a], t) <=> SetContains(holderSets[a], t)

LEMMA MintMoves ==
  ASSUME EnumerableInv, NEW to \in Address, NEW token \in TokenIds, EnumerableMint(to, token)
  PROVE  SetsMove(to, token)
<1> DEFINE grown == SetAdd(holderSets[to], token)
<1>1. /\ WellFormedSet(grown, TokenIds)
      /\ \A t \in TokenIds : SetContains(grown, t) <=> SetContains(holderSets[to], t) \/ t = token
  BY SetAddCorrect DEF EnumerableInv
<1>2. grown \in EnumerableSets(TokenIds)
  BY <1>1 DEF WellFormedSet
<1>3. \A a \in Address : ~SetContains(holderSets[a], token)
  BY DEF EnumerableInv, SetsFollowMap, EnumerableMint
<1>4. holderSets \in [Address -> EnumerableSets(TokenIds)]
  BY DEF EnumerableInv
<1>5. holderSets' = [holderSets EXCEPT ![to] = grown]
  BY DEF EnumerableMint
<1> HIDE DEF grown
<1>6. /\ holderSets' \in [Address -> EnumerableSets(TokenIds)]
      /\ holderSets'[to] = grown
      /\ \A a \in Address : a # to => holderSets'[a] = holderSets[a]
  BY <1>2, <1>4, <1>5
<1> QED
  BY <1>1, <1>3, <1>6 DEF SetsMove, EnumerableInv

LEMMA TransferMoves ==
  ASSUME EnumerableInv, NEW from \in Address, NEW to \in Address, NEW token \in TokenIds,
         EnumerableTransfer(from, to, token)
  PROVE  SetsMove(to, token)
<1> DEFINE less == SetRemove(holderSets[from], token)
           without == [holderSets EXCEPT ![from] = less]
           grown == SetAdd(without[to], token)
<1>1. /\ WellFormedSet(less, TokenIds)
      /\ \A t \in TokenIds : SetContains(less, t) <=> SetContains(holderSets[from], t) /\ t # token
  BY SetRemoveCorrect DEF EnumerableInv
<1>2. holderSets \in [Address -> EnumerableSets(TokenIds)] /\ less \in EnumerableSets(TokenIds)
  BY <1>1 DEF WellFormedSet, EnumerableInv
<1>3. holderSets' = [without EXCEPT ![to] = grown]
  BY DEF EnumerableTransfer
<1>4. \A a \in Address : SetContains(holderSets[a], token) <=> a = from
  BY DEF EnumerableInv, SetsFollowMap, EnumerableTransfer
<1> HIDE DEF less
<1>5. /\ without \in [Address -> EnumerableSets(TokenIds)]
      /\ without[from] = less
      /\ \A a \in Address : a # from => without[a] = holderSets[a]
  BY <1>2
<1> HIDE DEF without
<1>6. /\ \A a \in Address : WellFormedSet(without[a], TokenIds)
      /\ \A a \in Address : ~SetContains(without[a], token)
      /\ \A a \in Address, t \in TokenIds \ {token} :
           SetContains(without[a], t) <=> SetContains(holderSets[a], t)
  BY <1>1, <1>4, <1>5 DEF EnumerableInv
<1>7. /\ WellFormedSet(grown, TokenIds)
      /\ \A t \in TokenIds : SetContains(grown, t) <=> SetContains(without[to], t) \/ t = token
  BY <1>6, SetAddCorrect
<1>8. grown \in EnumerableSets(TokenIds)
  BY <1>7 DEF WellFormedSet
<1> HIDE DEF grown
<1>9. /\ holderSets' \in [Address -> EnumerableSets(TokenIds)]
      /\ holderSets'[to] = grown
      /\ \A a \in Address : a # to => holderSets'[a] = without[a]
  BY <1>3, <1>5, <1>8
<1> QED
  BY <1>6, <1>7, <1>9 DEF SetsMove

LEMMA MoveKeepsInv ==
  ASSUME EnumerableInv, NEW to \in Address, NEW token \in TokenIds,
         SetsMove(to, token), ownerMap' = MapSet(ownerMap, token, to)
  PROVE  EnumerableInv'
<1>1. WellFormedMap(ownerMap, TokenIds, Address)
  BY DEF EnumerableInv
<1>2. /\ WellFormedMap(ownerMap', TokenIds, Address)
      /\ \A t \in TokenIds : MapContains(ownerMap', t) <=> MapContains(ownerMap, t) \/ t = token
      /\ MapGet(ownerMap', token) = to
      /\ \A t \in TokenIds : MapContains(ownerMap, t) /\ t # token =>
           MapGet(ownerMap', t) = MapGet(ownerMap, t)
  BY <1>1, MapSetCorrect
<1>3. SetsFollowMap'
  <2> SUFFICES ASSUME NEW a \in Address, NEW t \in TokenIds
               PROVE  SetContains(holderSets'[a], t) <=>
                        MapContains(ownerMap', t) /\ MapGet(ownerMap', t) = a
    BY DEF SetsFollowMap
  <2>1. CASE t = token
    BY <1>2, <2>1 DEF SetsMove
  <2>2. CASE t # token
    <3>1. SetContains(holderSets'[a], t) <=> SetContains(holderSets[a], t)
      BY <2>2 DEF SetsMove
    <3>2. SetContains(holderSets[a], t) <=> MapContains(ownerMap, t) /\ MapGet(ownerMap, t) = a
      BY DEF EnumerableInv, SetsFollowMap
    <3> QED
      BY <1>2, <2>2, <3>1, <3>2
  <2> QED
    BY <2>1, <2>2
<1> QED
  BY <1>2, <1>3 DEF EnumerableInv, SetsMove

(* Every step mints or moves one token.                                     *)
LEMMA StepMoves ==
  ASSUME EnumerableInv, EnumerableNext
  PROVE  \E token \in TokenIds, to \in Address :
           SetsMove(to, token) /\ ownerMap' = MapSet(ownerMap, token, to)
<1>1. PICK token \in TokenIds, to \in Address :
        EnumerableMint(to, token) \/ \E from \in Address : EnumerableTransfer(from, to, token)
  BY DEF EnumerableNext
<1>2. CASE EnumerableMint(to, token)
  BY <1>2, MintMoves DEF EnumerableMint
<1>3. CASE \E from \in Address : EnumerableTransfer(from, to, token)
  BY <1>3, TransferMoves DEF EnumerableTransfer
<1> QED
  BY <1>1, <1>2, <1>3

(* The sets and the map are well-formed in every state and agree: the       *)
(* strengthening that each of the results below needs.                      *)
THEOREM AlwaysWellFormed == EnumerableSpec => []EnumerableInv
<1>1. EnumerableInit => EnumerableInv
  <2> SUFFICES ASSUME EnumerableInit PROVE EnumerableInv
    OBVIOUS
  <2>1. EmptyEnumerableSet(TokenIds) \in EnumerableSets(TokenIds)
    BY DEF EmptyEnumerableSet, EnumerableSets
  <2>2. WellFormedSet(EmptyEnumerableSet(TokenIds), TokenIds)
    BY <2>1 DEF EmptyEnumerableSet, WellFormedSet, SetContains
  <2>3. EmptyEnumerableMap(TokenIds) \in EnumerableMaps(TokenIds, Address)
    BY DEF EmptyEnumerableMap, EnumerableMaps
  <2>4. WellFormedMap(EmptyEnumerableMap(TokenIds), TokenIds, Address)
    BY <2>3 DEF EmptyEnumerableMap, WellFormedMap, MapContains
  <2>5. SetsFollowMap
    BY DEF EnumerableInit, EmptyEnumerableSet, EmptyEnumerableMap, SetsFollowMap,
           SetContains, MapContains
  <2> QED
    BY <2>1, <2>2, <2>4, <2>5 DEF EnumerableInit, EnumerableInv
<1>2. EnumerableInv /\ [EnumerableNext]_enumerableVars => EnumerableInv'
  <2>1. CASE EnumerableNext
    BY <2>1, StepMoves, MoveKeepsInv
  <2>2. CASE UNCHANGED enumerableVars
    BY <2>2 DEF enumerableVars, EnumerableInv, SetsFollowMap
  <2> QED
    BY <2>1, <2>2
<1> QED
  BY <1>1, <1>2, PTL DEF EnumerableSpec

(* The arrays hold tokens and holders, and no index is negative.            *)
THEOREM EnumerableTypeCorrect == EnumerableSpec => []EnumerableTypeOK
<1>1. EnumerableInv => EnumerableTypeOK
  BY DEF EnumerableInv, EnumerableTypeOK, WellFormedMap
<1> QED
  BY <1>1, AlwaysWellFormed, PTL

(* tokenOfOwnerByIndex below balanceOf gives each of the holder's tokens    *)
(* exactly once.                                                            *)
THEOREM HoldersAlwaysEnumerable == EnumerableSpec => []HoldersEnumerable
<1>1. EnumerableInv => HoldersEnumerable
  <2> SUFFICES ASSUME EnumerableInv, NEW a \in Address
               PROVE  LET set == holderSets[a]
                          places == 0 .. SetLength(set) - 1
                      IN  /\ {SetAt(set, i) : i \in places} =
                               {t \in Tokens : MapGet(ownerMap, t) = a}
                          /\ \A i, j \in places : SetAt(set, i) = SetAt(set, j) => i = j
    BY DEF HoldersEnumerable
  <2> DEFINE set == holderSets[a]
             n == Len(set.values)
             places == 0 .. SetLength(set) - 1
  <2>1. set.values \in Seq(TokenIds) /\ n \in Nat
    BY DEF EnumerableInv, EnumerableSets
  <2>2. \A i \in 1 .. n : set.values[i] \in TokenIds /\ set.indexes[set.values[i]] = i
    BY <2>1 DEF EnumerableInv, WellFormedSet
  <2>3. \A t \in TokenIds : SetContains(set, t) =>
          set.indexes[t] \in 1 .. n /\ set.values[set.indexes[t]] = t
    BY DEF EnumerableInv, WellFormedSet
  <2>4. \A t \in TokenIds : SetContains(set, t) <=> t \in Tokens /\ MapGet(ownerMap, t) = a
    BY DEF EnumerableInv, SetsFollowMap, Tokens
  <2>5. \A i \in places : i + 1 \in 1 .. n
    BY <2>1 DEF SetLength
  <2>6. ASSUME NEW i \in places PROVE SetAt(set, i) \in {t \in Tokens : MapGet(ownerMap, t) = a}
    <3>1. SetAt(set, i) \in TokenIds /\ set.indexes[SetAt(set, i)] = i + 1
      BY <2>2, <2>5 DEF SetAt
    <3>2. i + 1 # 0
      BY <2>1, <2>5
    <3> QED
      BY <2>4, <3>1, <3>2 DEF SetContains
  <2>7. ASSUME NEW t \in Tokens, MapGet(ownerMap, t) = a
        PROVE  \E i \in places : SetAt(set, i) = t
    <3>1. t \in TokenIds /\ SetContains(set, t)
      BY <2>4, <2>7 DEF Tokens
    <3>2. set.indexes[t] \in 1 .. n /\ set.values[set.indexes[t]] = t
      BY <2>3, <3>1
    <3>3. set.indexes[t] - 1 \in places /\ (set.indexes[t] - 1) + 1 = set.indexes[t]
      BY <2>1, <3>2 DEF SetLength
    <3> QED
      BY <3>2, <3>3 DEF SetAt
  <2>8. ASSUME NEW i \in places, NEW j \in places, SetAt(set, i) = SetAt(set, j) PROVE i = j
    <3>1. i + 1 = j + 1
      BY <2>2, <2>5, <2>8 DEF SetAt
    <3> QED
      BY <2>1, <3>1 DEF SetLength
  <2> QED
    BY <2>6, <2>7, <2>8
<1> QED
  BY <1>1, AlwaysWellFormed, PTL

(* tokenByIndex below totalSupply gives each token exactly once.            *)
THEOREM TokensAlwaysEnumerable == EnumerableSpec => []TokensEnumerable
<1>1. EnumerableInv => TokensEnumerable
  <2> SUFFICES ASSUME EnumerableInv PROVE TokensEnumerable
    OBVIOUS
  <2> DEFINE n == Len(ownerMap.entries)
             E == [key: TokenIds, value: Address]
             places == 0 .. MapLength(ownerMap) - 1
  <2>1. ownerMap.entries \in Seq(E) /\ n \in Nat
    BY DEF EnumerableInv, WellFormedMap, EnumerableMaps
  <2>2. \A i \in 1 .. n : ownerMap.entries[i].key \in TokenIds
                          /\ ownerMap.indexes[ownerMap.entries[i].key] = i
    <3>1. \A i \in 1 .. n : ownerMap.indexes[ownerMap.entries[i].key] = i
      BY DEF EnumerableInv, WellFormedMap
    <3> HIDE DEF E
    <3>2. \A i \in 1 .. n : ownerMap.entries[i] \in E
      BY <2>1
    <3> QED
      BY <3>1, <3>2 DEF E
  <2>3. \A t \in TokenIds : MapContains(ownerMap, t) =>
          ownerMap.indexes[t] \in 1 .. n /\ ownerMap.entries[ownerMap.indexes[t]].key = t
    BY DEF EnumerableInv, WellFormedMap
  <2>4. \A i \in places : i + 1 \in 1 .. n
    BY <2>1 DEF MapLength
  <2>5. ASSUME NEW i \in places PROVE MapKeyAt(ownerMap, i) \in Tokens
    <3>1. /\ MapKeyAt(ownerMap, i) \in TokenIds
          /\ ownerMap.indexes[MapKeyAt(ownerMap, i)] = i + 1
      BY <2>2, <2>4 DEF MapKeyAt
    <3>2. i + 1 # 0
      BY <2>1, <2>4
    <3> QED
      BY <3>1, <3>2 DEF Tokens, MapContains
  <2>6. ASSUME NEW t \in Tokens PROVE \E i \in places : MapKeyAt(ownerMap, i) = t
    <3>1. ownerMap.indexes[t] \in 1 .. n /\ ownerMap.entries[ownerMap.indexes[t]].key = t
      BY <2>3 DEF Tokens
    <3>2. ownerMap.indexes[t] - 1 \in places /\ (ownerMap.indexes[t] - 1) + 1 = ownerMap.indexes[t]
      BY <2>1, <3>1 DEF MapLength
    <3> QED
      BY <3>1, <3>2 DEF MapKeyAt
  <2>7. ASSUME NEW i \in places, NEW j \in places, MapKeyAt(ownerMap, i) = MapKeyAt(ownerMap, j)
        PROVE  i = j
    <3>1. i + 1 = j + 1
      BY <2>2, <2>4, <2>7 DEF MapKeyAt
    <3> QED
      BY <2>1, <3>1 DEF MapLength
  <2> QED
    BY <2>5, <2>6, <2>7 DEF TokensEnumerable
<1> QED
  BY <1>1, AlwaysWellFormed, PTL

(* No token changes its place in tokenByIndex.                              *)
THEOREM TokenPlacesStayFixed == EnumerableSpec => TokenPlacesFixed
<1> DEFINE Fixed == \A i \in 0 .. MapLength(ownerMap) - 1 :
                      /\ i < MapLength(ownerMap)'
                      /\ MapKeyAt(ownerMap', i) = MapKeyAt(ownerMap, i)
<1>1. EnumerableInv /\ [EnumerableNext]_enumerableVars => [Fixed]_enumerableVars
  <2> SUFFICES ASSUME EnumerableInv, EnumerableNext,
                      NEW i \in 0 .. MapLength(ownerMap) - 1
               PROVE  /\ i < MapLength(ownerMap)'
                      /\ MapKeyAt(ownerMap', i) = MapKeyAt(ownerMap, i)
    OBVIOUS
  <2>1. PICK token \in TokenIds, to \in Address : ownerMap' = MapSet(ownerMap, token, to)
    BY StepMoves
  <2>2. WellFormedMap(ownerMap, TokenIds, Address)
    BY DEF EnumerableInv
  <2>3. \A k \in 1 .. Len(ownerMap.entries) :
          /\ k \in 1 .. Len(ownerMap'.entries)
          /\ ownerMap'.entries[k].key = ownerMap.entries[k].key
    BY <2>1, <2>2, MapSetCorrect
  <2>4. ownerMap.entries \in Seq([key: TokenIds, value: Address])
    BY <2>2 DEF WellFormedMap, EnumerableMaps
  <2>5. i + 1 \in 1 .. Len(ownerMap.entries) /\ i \in Int
    BY <2>4 DEF MapLength
  <2>6. EnumerableInv'
    BY MoveKeepsInv, StepMoves
  <2>7. Len(ownerMap'.entries) \in Nat
    BY <2>6 DEF EnumerableInv, WellFormedMap, EnumerableMaps
  <2>8. i + 1 \in 1 .. Len(ownerMap'.entries)
    BY <2>3, <2>5
  <2> QED
    BY <2>3, <2>5, <2>7, <2>8 DEF MapLength, MapKeyAt
<1> QED
  BY <1>1, AlwaysWellFormed, PTL DEF EnumerableSpec, TokenPlacesFixed

(* The arrays and indexes implement the ledger that the rest of the model   *)
(* is built on: a mint is an addition, a transfer is a move.                *)
THEOREM LedgerImplemented == EnumerableSpec => ImplementsLedger
<1> DEFINE owners == [t \in Tokens |-> MapGet(ownerMap, t)]
           holdings == [a \in Address |-> {t \in TokenIds : SetContains(holderSets[a], t)}]
<1>1. EnumerableInit => Ledger!LedgerInit
  <2> SUFFICES ASSUME EnumerableInit PROVE Ledger!LedgerInit
    OBVIOUS
  <2>1. Tokens = {}
    BY DEF EnumerableInit, Tokens, EmptyEnumerableMap, MapContains
  <2>2. \A a \in Address : {t \in TokenIds : SetContains(holderSets[a], t)} = {}
    BY DEF EnumerableInit, EmptyEnumerableSet, SetContains
  <2>3. owners = [t \in {} |-> ZERO]
    BY <2>1
  <2>4. holdings = [a \in Address |-> {}]
    BY <2>2
  <2> QED
    BY <2>3, <2>4 DEF Ledger!LedgerInit, Ledger!Address, Address
<1>2. EnumerableInv /\ [EnumerableNext]_enumerableVars => [Ledger!LedgerNext]_(Ledger!ledgerVars)
  <2>1. ASSUME EnumerableInv, NEW to \in Address, NEW token \in TokenIds,
               SetsMove(to, token), ownerMap' = MapSet(ownerMap, token, to)
        PROVE  owners' = [t \in Tokens \cup {token} |-> IF t = token THEN to ELSE owners[t]]
    <3>1. WellFormedMap(ownerMap, TokenIds, Address)
      BY <2>1 DEF EnumerableInv
    <3>2. /\ \A t \in TokenIds : MapContains(ownerMap', t) <=> MapContains(ownerMap, t) \/ t = token
          /\ MapGet(ownerMap', token) = to
          /\ \A t \in TokenIds : MapContains(ownerMap, t) /\ t # token =>
               MapGet(ownerMap', t) = MapGet(ownerMap, t)
      BY <2>1, <3>1, MapSetCorrect
    <3>3. Tokens' = Tokens \cup {token}
      BY <3>2 DEF Tokens
    <3>4. \A t \in Tokens \cup {token} :
            MapGet(ownerMap', t) = IF t = token THEN to ELSE owners[t]
      BY <3>2 DEF Tokens
    <3> QED
      BY <3>3, <3>4
  <2>2. ASSUME EnumerableInv, NEW to \in Address, NEW token \in TokenIds, EnumerableMint(to, token)
        PROVE  Ledger!AddToken(to, token)
    <3>1. SetsMove(to, token) /\ ownerMap' = MapSet(ownerMap, token, to)
      BY <2>2, MintMoves DEF EnumerableMint
    <3>2. holdings' = [holdings EXCEPT ![to] = @ \cup {token}]
      <4>1. \A a \in Address :
              holdings'[a] = IF a = to THEN holdings[a] \cup {token} ELSE holdings[a]
        <5>1. \A a \in Address : ~SetContains(holderSets[a], token)
          BY <2>2 DEF EnumerableInv, SetsFollowMap, EnumerableMint
        <5> QED
          BY <3>1, <5>1 DEF SetsMove
      <4> QED
        BY <4>1
    <3>3. owners' = [t \in Tokens \cup {token} |-> IF t = token THEN to ELSE owners[t]]
      BY <2>1, <2>2, <3>1
    <3>4. to # ZERO /\ token \notin Tokens
      BY <2>2 DEF EnumerableMint, Tokens
    <3> QED
      BY <3>2, <3>3, <3>4 DEF Ledger!AddToken, Ledger!Exists, Ledger!SetTokenOwner
  <2>3. ASSUME EnumerableInv, NEW from \in Address, NEW to \in Address, NEW token \in TokenIds,
               EnumerableTransfer(from, to, token)
        PROVE  Ledger!MoveToken(from, to, token)
    <3>1. SetsMove(to, token) /\ ownerMap' = MapSet(ownerMap, token, to)
      BY <2>3, TransferMoves DEF EnumerableTransfer
    <3>2. holdings' = [[holdings EXCEPT ![from] = @ \ {token}] EXCEPT ![to] = @ \cup {token}]
      <4>1. \A a \in Address : SetContains(holderSets[a], token) <=> a = from
        BY <2>3 DEF EnumerableInv, SetsFollowMap, EnumerableTransfer
      <4>2. \A a \in Address : holdings'[a] =
              IF a = to THEN (holdings[a] \ {token}) \cup {token} ELSE holdings[a] \ {token}
        BY <3>1, <4>1 DEF SetsMove
      <4>3. \A a \in Address : a # from => holdings[a] = holdings[a] \ {token}
        BY <4>1
      <4> QED
        BY <4>2, <4>3
    <3>3. owners' = [t \in Tokens \cup {token} |-> IF t = token THEN to ELSE owners[t]]
      BY <2>1, <2>3, <3>1
    <3>4. to # ZERO /\ token \in Tokens /\ owners[token] = from
      BY <2>3 DEF EnumerableTransfer, Tokens
    <3> QED
      BY <3>2, <3>3, <3>4
      DEF Ledger!MoveToken, Ledger!MoveHolding, Ledger!Exists, Ledger!SetTokenOwner
  <2>4. CASE EnumerableNext
    BY <2>2, <2>3, <2>4 DEF EnumerableNext, Ledger!LedgerNext, Ledger!Address, Address
  <2>5. CASE UNCHANGED enumerableVars
    BY <2>5 DEF enumerableVars, Ledger!ledgerVars, Tokens
  <2> QED
    BY <2>4, <2>5
<1> QED
  BY <1>1, <1>2, AlwaysWellFormed, PTL DEF EnumerableSpec, ImplementsLedger, Ledger!LedgerSpec
==============================================================================
