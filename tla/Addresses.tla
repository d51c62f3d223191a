------------------------------ MODULE Addresses ------------------------------
(***************************************************************************)
(* The addresses: accounts, and the zero address, which is nobody's.       *)
(***************************************************************************)
CONSTANTS
  Accounts,  \* the addresses that can send a message
  ZERO       \* address(0)

ASSUME AddressAssumption == ZERO \notin Accounts

Address == Accounts \cup {ZERO}
==============================================================================
