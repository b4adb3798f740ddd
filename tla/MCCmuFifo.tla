------------------------------ MODULE MCCmuFifo ------------------------------
(* Two or four words of storage; three different words tell an overwritten   *)
(* or an overtaken one.                                                      *)
EXTENDS CmuFifo

Words == {0, 1, 2}
=============================================================================
