---------------------------- MODULE EnumerableSet ----------------------------
(***************************************************************************)
(* The OpenZeppelin set: an array of its values and, for every value, its  *)
(* place in the array, counted from one; zero says that it is absent.      *)
(***************************************************************************)
EXTENDS Naturals, Sequences

EnumerableSets(V) == [values: Seq(V), indexes: [V -> Nat]]

EmptyEnumerableSet(V) == [values |-> <<>>, indexes |-> [v \in V |-> 0]]

SetContains(set, value) == set.indexes[value] # 0

SetAdd(set, value) ==
  IF SetContains(set, value) THEN set
  ELSE [values |-> Append(set.values, value),
        indexes |-> [set.indexes EXCEPT ![value] = Len(set.values) + 1]]

WithoutLast(seq) == SubSeq(seq, 1, Len(seq) - 1)

(* Mutant: the index is deleted before that of the moved value is updated,  *)
(* which sets it again when the value to remove is the last one.            *)
SetRemoveIndexFirst(set, value) ==
  LET index == set.indexes[value]
      last == set.values[Len(set.values)]
  IN  IF index = 0 THEN set
      ELSE [values |-> WithoutLast([set.values EXCEPT ![index] = last]),
            indexes |-> [[set.indexes EXCEPT ![value] = 0] EXCEPT ![last] = index]]

(* Swap and pop: the last value takes the place of the one to remove.       *)
SetRemove(set, value) ==
  LET index == set.indexes[value]
      last == set.values[Len(set.values)]
  IN  IF index = 0 THEN set
      ELSE [values |-> WithoutLast([set.values EXCEPT ![index] = last]),
            indexes |-> [[set.indexes EXCEPT ![last] = index] EXCEPT ![value] = 0]]

SetLength(set) == Len(set.values)

(* The value at a place, counted from zero as callers do.                   *)
SetAt(set, index) == set.values[index + 1]
==============================================================================
