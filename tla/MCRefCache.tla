---------------------------- MODULE MCRefCache ----------------------------
(* Five blocks of one set of three ways, more than it holds, and one block  *)
(* of the other set; counters that stop before the test's count does.      *)
EXTENDS RefCache
TableBlocks == {0, 1, 2, 4, 6, 8}
=============================================================================
