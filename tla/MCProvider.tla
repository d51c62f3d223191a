------------------------------ MODULE MCProvider ------------------------------
(***************************************************************************)
(* Two clients and a node with interval mining.                            *)
(***************************************************************************)
EXTENDS HardhatProvider
=============================================================================
