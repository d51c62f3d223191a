--------------------------- MODULE ForkStateManager ---------------------------
(***************************************************************************)
(* The accounts of a node that forks a remote chain: what was changed here *)
(* is kept locally, and the rest is read from the remote chain at the      *)
(* block of the current context. A state root is an arbitrary name under   *)
(* which the local part was stored.                                        *)
(***************************************************************************)
EXTENDS Naturals, Sequences, FiniteSets, FiniteSetsExt, SequencesExt

CONSTANTS
  Accounts, Slots,
  RemoteAccounts,   \* the accounts of the remote chain at each of its blocks
  ForkBlockNumber,  \* _forkBlockNumber
  GenesisAccounts,  \* the accounts the node is configured with ...
  GenesisBalance,   \* ... and what each of them has
  NoCode,           \* the code of an account that is not a contract
  Empty,            \* the value of a slot that was never set
  Unset             \* undefined: not changed here

ASSUME ForkAssumption ==
  /\ ForkBlockNumber \in Nat
  /\ 0..ForkBlockNumber \subseteq DOMAIN RemoteAccounts /\ DOMAIN RemoteAccounts \subseteq Nat
  /\ \A n \in DOMAIN RemoteAccounts :
       RemoteAccounts[n] =
         [a \in Accounts |->
            [balance |-> RemoteAccounts[n][a].balance, code |-> RemoteAccounts[n][a].code,
             storage |-> [k \in Slots |-> RemoteAccounts[n][a].storage[k]]]]
  /\ GenesisAccounts \subseteq Accounts

VARIABLE manager  \* the ForkStateManager

With(map, key, value) == [x \in DOMAIN map \cup {key} |-> IF x = key THEN value ELSE map[x]]

AccountState ==
  [balance |-> Unset, code |-> Unset, cleared |-> FALSE, storage |-> [k \in Slots |-> Unset]]
NoState == [a \in Accounts |-> AccountState]

(* The roots of the blocks before the fork are those of the remote chain.   *)
RemoteRoot(number) == number
InitialStateRoot == ForkBlockNumber
FreshRoot(m) == Max(DOMAIN m.stateRootToState \cup {InitialStateRoot}) + 1

(* initializeGenesisAccounts runs before the first request.                 *)
GenesisState ==
  [a \in Accounts |->
     IF a \in GenesisAccounts
       THEN [AccountState EXCEPT !.balance = GenesisBalance, !.code = NoCode]
       ELSE AccountState]

NewStateManager ==
  [state |-> GenesisState, stateRoot |-> InitialStateRoot,
   stateRootToState |-> [root \in {InitialStateRoot} |-> GenesisState],
   checkpoints |-> <<>>, contextBlockNumber |-> ForkBlockNumber, contextChanged |-> FALSE]
------------------------------------------------------------------------------
(* Reads. Remote is the account at the block of the context.                *)
OrRemote(local, remote) == IF local # Unset THEN local ELSE remote

StorageAt(local, remote, k) ==
  IF local.storage[k] = Unset /\ local.cleared THEN Empty
  ELSE OrRemote(local.storage[k], remote.storage[k])

Resolved(state, number) ==
  [a \in Accounts |->
     LET remote == RemoteAccounts[number][a]
     IN  [balance |-> OrRemote(state[a].balance, remote.balance),
          code |-> OrRemote(state[a].code, remote.code),
          storage |-> [k \in Slots |-> StorageAt(state[a], remote, k)]]]

GetAccount(m, a) == Resolved(m.state, m.contextBlockNumber)[a]

(* Writes. An account without code is remembered as such.                   *)
PutAccount(m, a, balance, hasCode) ==
  [m EXCEPT !.state[a].balance = balance,
            !.state[a].code = IF hasCode THEN @ ELSE NoCode]

PutContractCode(m, a, code) == [m EXCEPT !.state[a].code = code]

PutContractStorage(m, a, k, value) == [m EXCEPT !.state[a].storage[k] = value]

ClearContractStorage(m, a) ==
  [m EXCEPT !.state[a].cleared = TRUE, !.state[a].storage = [k \in Slots |-> Unset]]
------------------------------------------------------------------------------
(* Roots and checkpoints                                                    *)
GetStateRoot(m) ==
  IF m.stateRootToState[m.stateRoot] = m.state THEN m
  ELSE [m EXCEPT !.stateRoot = FreshRoot(m),
                 !.stateRootToState = With(@, FreshRoot(m), m.state)]

SetStateRoot(m, root) ==
  [m EXCEPT !.stateRoot = root, !.state = m.stateRootToState[root]]

Checkpoint(m) ==
  LET rooted == GetStateRoot(m)
  IN  [rooted EXCEPT !.checkpoints = Append(@, rooted.stateRoot)]

Commit(m) == [m EXCEPT !.checkpoints = Front(@)]

Revert(m) == SetStateRoot(Commit(m), m.checkpoints[Len(m.checkpoints)])
------------------------------------------------------------------------------
(* The context of a block                                                   *)

SetBlockContext(m, root, number) ==
  CASE number = ForkBlockNumber -> SetStateRoot(m, InitialStateRoot)
    [] number > ForkBlockNumber -> SetStateRoot(m, root)
    [] OTHER -> [m EXCEPT !.contextChanged = TRUE, !.state = NoState, !.stateRoot = root,
                          !.stateRootToState = With(@, root, NoState),
                          !.contextBlockNumber = number]

RestoreForkBlockContext(m, root) ==
  [SetStateRoot(m, root) EXCEPT
     !.contextChanged = FALSE,
     !.contextBlockNumber = IF m.contextChanged THEN ForkBlockNumber ELSE @]
==============================================================================
