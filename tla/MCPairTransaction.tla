-------------------------- MODULE MCPairTransaction --------------------------
(***************************************************************************)
(* Pairing, deletion and recovery with power cuts, on a small EEPROM life. *)
(***************************************************************************)
EXTENDS PairTransaction
=============================================================================
