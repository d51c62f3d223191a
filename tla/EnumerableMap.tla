---------------------------- MODULE EnumerableMap ----------------------------
(***************************************************************************)
(* The OpenZeppelin map: an array of its entries and, for every key, the   *)
(* place of its entry in the array, counted from one; zero says that there *)
(* is none.  The token contract never removes a key.                       *)
(***************************************************************************)
EXTENDS Naturals, Sequences

MapEntry(key, value) == [key |-> key, value |-> value]

EnumerableMaps(K, V) == [entries: Seq([key: K, value: V]), indexes: [K -> Nat]]

EmptyEnumerableMap(K) == [entries |-> <<>>, indexes |-> [k \in K |-> 0]]

MapContains(map, key) == map.indexes[key] # 0

(* Mutant: a known key gets a new entry too. *)
MapAppend(map, key, value) ==
  [entries |-> Append(map.entries, MapEntry(key, value)),
   indexes |-> [map.indexes EXCEPT ![key] = Len(map.entries) + 1]]

(* Mutant: a known key is taken out by swap and pop and added anew. *)
MapReinsert(map, key, value) ==
  LET place == map.indexes[key]
      n == Len(map.entries)
      last == map.entries[n]
  IN  IF MapContains(map, key)
      THEN [entries |-> [map.entries EXCEPT ![place] = last, ![n] = MapEntry(key, value)],
            indexes |-> [map.indexes EXCEPT ![last.key] = place, ![key] = n]]
      ELSE MapAppend(map, key, value)

(* A new key is appended, a known one keeps its place. *)
MapSet(map, key, value) ==
  IF MapContains(map, key)
  THEN [map EXCEPT !.entries[map.indexes[key]].value = value]
  ELSE [entries |-> Append(map.entries, MapEntry(key, value)),
        indexes |-> [map.indexes EXCEPT ![key] = Len(map.entries) + 1]]

MapGet(map, key) == map.entries[map.indexes[key]].value

MapLength(map) == Len(map.entries)

MapKeyAt(map, index) == map.entries[index + 1].key
==============================================================================
