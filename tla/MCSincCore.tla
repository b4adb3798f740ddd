----------------------------- MODULE MCSincCore -----------------------------
(* Instances of the core, most of them on two sets.  Three blocks of one set*)
(* of two ways are enough to fill it and to replace a line; eight sets make *)
(* the walk of an erase long enough for a second SINC_RESET to overtake it. *)
EXTENDS SincCore
MCBlocks == {0, 2, 4}
TwoBlocks == {0, 2}
FirstAndLast == {0, 7}
OneBlock == {0}
=============================================================================
