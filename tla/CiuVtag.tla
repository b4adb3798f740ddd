------------------------------ MODULE CiuVtag ------------------------------
(***************************************************************************)
(* The valid/tag array of the cache with its replacement pointers and its  *)
(* erase walk: sinc_ciu_vtag.sv and sinc_ciu_vtag_ret.sv, built with the   *)
(* register file (CACHE_VTAG_USE_RF): a lookup answers one cycle later.    *)
(***************************************************************************)
EXTENDS SincParams

VARIABLES
  vtag,          \* vtag[s][w]: the block whose tag is valid there, or NoTag
  fifoSta,       \* fifo_sta_reg: the next way to replace in each set
  vtagCompR,     \* ciu_vtag_comp_r: a lookup was made in the last cycle
  vtagSm,        \* erase FSM
  vtagEraseAddr  \* vtag_erase_addr_r

vtagVars == <<vtag, fifoSta, vtagCompR, vtagSm, vtagEraseAddr>>

NoTag == -1

\* Mutant: the last way is not compared.
BlockHit_Mut(b) ==
  {w \in Ways \ {NWays - 1} : vtagCompR /\ vtag[SetOf(b)][w] = b}

\* block_hit: the lookup of the last cycle.  Two matching ways are no hit.
BlockHit(b) == {w \in Ways : vtagCompR /\ vtag[SetOf(b)][w] = b}
CacheHit(b) == Cardinality(BlockHit(b)) = 1
HitWay(b)   == CHOOSE w \in Ways : w \in BlockHit(b)

\* is_erase_op: busy from the very cycle of the start pulse.
VtagEraseOp(start) == start \/ vtagSm = "WR"
LastVtagErase == vtagEraseAddr = NSets - 1

\* The erase walk owns the write port of the array while it runs.
VtagErase ==
  vtag' = [vtag EXCEPT ![vtagEraseAddr] = [w \in Ways |-> NoTag]]

\* Mutant: the tag goes to the way after the one filled.
VtagWrite_Mut(update, b) ==
  vtag' = IF update
          THEN [vtag EXCEPT ![SetOf(b)][(fifoSta[SetOf(b)] + 1) % NWays] = b]
          ELSE vtag

\* ciu_vtag_update writes the way the replacement pointer names.
VtagWrite(update, b) ==
  vtag' = IF update THEN [vtag EXCEPT ![SetOf(b)][fifoSta[SetOf(b)]] = b]
          ELSE vtag

\* A synchronous reset of the CIU stops the walk and rewinds the pointers; a
\* write of the same cycle still reaches the array.
VtagCycle(start, comp, update, b, syncReset) ==
  /\ IF VtagEraseOp(start) THEN VtagErase ELSE VtagWrite(update, b)
  /\ vtagSm' = IF VtagEraseOp(start) /\ ~syncReset
                  /\ ~(vtagSm = "WR" /\ LastVtagErase)
               THEN "WR" ELSE "IDLE"
  /\ vtagEraseAddr' = IF VtagEraseOp(start) /\ ~syncReset
                      THEN (vtagEraseAddr + 1) % NSets
                      ELSE 0
  /\ fifoSta' = CASE syncReset -> [s \in Sets |-> 0]
                 [] ~syncReset /\ update ->
                      [fifoSta EXCEPT ![SetOf(b)] = (@ + 1) % NWays]
                 [] OTHER -> fifoSta
  /\ vtagCompR' = (comp /\ ~syncReset)

VtagInit ==
  /\ vtag = [s \in Sets |-> [w \in Ways |-> NoTag]]
  /\ fifoSta = [s \in Sets |-> 0]
  /\ vtagCompR = FALSE /\ vtagSm = "IDLE" /\ vtagEraseAddr = 0

\* The array and the replacement pointers are retained.
VtagLpReset ==
  /\ vtagCompR' = FALSE /\ vtagSm' = "IDLE" /\ vtagEraseAddr' = 0
  /\ UNCHANGED <<vtag, fifoSta>>

VtagTypeOK ==
  /\ vtag \in [Sets -> [Ways -> Blocks \cup {NoTag}]]
  /\ fifoSta \in [Sets -> Ways]
  /\ vtagCompR \in BOOLEAN /\ vtagSm \in {"IDLE", "WR"}
  /\ vtagEraseAddr \in Sets
=============================================================================
