------------------------------ MODULE MCTxPath ------------------------------
(***************************************************************************)
(* TxPath on a small instance.  Transmission depends on no address and no  *)
(* option, so there is only the wildcard address and one option bit.       *)
(***************************************************************************)
EXTENDS TxPath

MCAddrs == {}
MCOption == {1}
MCFragments == {2, 4}       \* 4 fit only in an empty table
=============================================================================
