------------------------------- MODULE MCCmu -------------------------------
(* The CMU control path on one block, with one severe and one non-severe    *)
(* error of the crypto wrapper.                                             *)
EXTENDS Cmu
MCBlocks == {0}
MCErrs == {"AES_ERR", "INV_CMD"}
=============================================================================
