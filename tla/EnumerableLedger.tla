--------------------------- MODULE EnumerableLedger --------------------------
(***************************************************************************)
(* The ledger of the token contract as it is stored: an EnumerableSet of   *)
(* tokens for each holder, and one EnumerableMap from tokens to holders.   *)
(***************************************************************************)
EXTENDS Addresses, EnumerableSet, EnumerableMap

CONSTANT TokenIds

VARIABLES
  holderSets,  \* _holderTokens
  ownerMap     \* _tokenOwners

enumerableVars == <<holderSets, ownerMap>>

EnumerableInit ==
  /\ holderSets = [a \in Address |-> EmptyEnumerableSet(TokenIds)]
  /\ ownerMap = EmptyEnumerableMap(TokenIds)

EnumerableMint(to, token) ==
  /\ to # ZERO
  /\ ~MapContains(ownerMap, token)
  /\ holderSets' = [holderSets EXCEPT ![to] = SetAdd(@, token)]
  /\ ownerMap' = MapSet(ownerMap, token, to)

(* Mutant: added before it is removed, a token sent to its holder is lost. *)
EnumerableTransferAddFirst(from, to, token) ==
  /\ MapContains(ownerMap, token)
  /\ MapGet(ownerMap, token) = from
  /\ to # ZERO
  /\ holderSets' = [[holderSets EXCEPT ![to] = SetAdd(@, token)] EXCEPT ![from] = SetRemove(@, token)]
  /\ ownerMap' = MapSet(ownerMap, token, to)

(* The removal and the addition are two writes: from and to may be equal.   *)
EnumerableTransfer(from, to, token) ==
  /\ MapContains(ownerMap, token)
  /\ MapGet(ownerMap, token) = from
  /\ to # ZERO
  /\ holderSets' = [[holderSets EXCEPT ![from] = SetRemove(@, token)] EXCEPT ![to] = SetAdd(@, token)]
  /\ ownerMap' = MapSet(ownerMap, token, to)

EnumerableNext ==
  \E token \in TokenIds, to \in Address :
    \/ EnumerableMint(to, token)
    \/ \E from \in Address : EnumerableTransfer(from, to, token)

EnumerableSpec == EnumerableInit /\ [][EnumerableNext]_enumerableVars
------------------------------------------------------------------------------
EnumerableTypeOK ==
  /\ holderSets \in [Address -> EnumerableSets(TokenIds)]
  /\ ownerMap \in EnumerableMaps(TokenIds, Address)

Tokens == {token \in TokenIds : MapContains(ownerMap, token)}

(* What balanceOf, tokenOfOwnerByIndex and ownerOf tell fits: counting up   *)
(* to the balance of a holder gives each token that it owns exactly once.   *)
HoldersEnumerable ==
  \A a \in Address :
    LET set == holderSets[a]
        places == 0 .. SetLength(set) - 1
    IN  /\ {SetAt(set, i) : i \in places} = {t \in Tokens : MapGet(ownerMap, t) = a}
        /\ \A i, j \in places : SetAt(set, i) = SetAt(set, j) => i = j

(* So do totalSupply, tokenByIndex and ownerOf.                             *)
TokensEnumerable ==
  LET places == 0 .. MapLength(ownerMap) - 1
  IN  /\ {MapKeyAt(ownerMap, i) : i \in places} = Tokens
      /\ \A i, j \in places : MapKeyAt(ownerMap, i) = MapKeyAt(ownerMap, j) => i = j

(* The place of a token in tokenByIndex never changes, whoever it is sent   *)
(* to: who counts through all tokens while they are traded misses none.     *)
TokenPlacesFixed ==
  [][\A i \in 0 .. MapLength(ownerMap) - 1 :
       /\ i < MapLength(ownerMap)'
       /\ MapKeyAt(ownerMap', i) = MapKeyAt(ownerMap, i)]_enumerableVars
------------------------------------------------------------------------------
(* The arrays and indexes implement the partial function and the sets of    *)
(* the abstract ledger, on which the rest of the model is built.            *)
Ledger == INSTANCE TokenLedger WITH
  tokenOwners <- [t \in Tokens |-> MapGet(ownerMap, t)],
  holderTokens <- [a \in Address |-> {t \in TokenIds : SetContains(holderSets[a], t)}]

ImplementsLedger == Ledger!LedgerSpec
==============================================================================
