------------------------------- MODULE MCFork -------------------------------
(***************************************************************************)
(* A remote chain of three blocks, forked at the second: a contract is     *)
(* deployed there and changed after. The transaction of the last remote    *)
(* block may also be sent to the node.                                     *)
(***************************************************************************)
EXTENDS ForkedNode

Account(balance, code, value) == [balance |-> balance, code |-> code, storage |-> [k \in Slots |-> value]]

MCRemoteAccounts ==
  [n \in 0..2 |->
     [a \in Accounts |->
        CASE a \in GenesisAccounts -> Account(0, NoCode, Empty)
          [] n = 0 -> Account(0, NoCode, Empty)
          [] OTHER -> Account(n, "token", n)]]

MCRemoteTxs == [n \in 0..2 |-> CASE n = 0 -> {} [] n = 1 -> {"deploy"} [] OTHER -> {"later"}]
=============================================================================
