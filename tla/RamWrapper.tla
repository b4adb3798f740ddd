----------------------------- MODULE RamWrapper -----------------------------
(***************************************************************************)
(* The cache RAM behind ram_wrapper.sv and its erase engine mem_erase.sv.  *)
(* A row holds one line per way; what a line contains is abstracted to     *)
(*   b >= 0     the authentic plaintext of block b,                        *)
(*   Unverified block data that is incomplete or not authentic,            *)
(*   NoData     anything else (erase pattern, data of the CPU).            *)
(* A read returns its row two cycles later (ramP1, ramP2).  A write is     *)
(* always to one way of a row: mem_rmw.sv reads the row, and writes it back*)
(* two cycles later unless the row read had an uncorrectable error.        *)
(***************************************************************************)
EXTENDS SincParams

VARIABLES
  mem,        \* mem[s][w]
  ramP1,      \* access of the last cycle: phase RMW_PHASE_RD of a write
  ramP2,      \* the one before: its read data is valid, RMW_PHASE_WR
  eraseWe,    \* erase_we, also erase_busy
  eraseAddr,  \* erase_addr in words of a set
  fullErase,  \* full_erase_in_progress: the erase was asked for by a register
  engnDone    \* engn_erase_done

ramVars == <<mem, ramP1, ramP2, eraseWe, eraseAddr, fullErase, engnDone>>

Unverified == -1
NoData     == -2
EmptyRow == [w \in Ways |-> NoData]

NoAccess == [op |-> "NONE"]
Read(s)  == [op |-> "RD", set |-> s]
Write(s, w, v) == [op |-> "WR", set |-> s, way |-> w, val |-> v]

\* non_rmw_rd_vld, mem_ciu_rdata, mem_ciu_busy
RdataValid == ramP2.op = "RD"
Rdata      == ramP2.row
RamBusy    == ramP1.op = "WR" \/ ramP2.op = "WR"

EraseEndAddr == NSets * BlockWords - 1
\* Mutant: the erase runs one word too far.
EraseLast_Mut == eraseWe /\ eraseAddr = EraseEndAddr + 1

EraseLast == eraseWe /\ eraseAddr = EraseEndAddr

\* The erase writes all ways of a row, word after word.
EraseWord ==
  [mem EXCEPT ![eraseAddr \div BlockWords] =
     IF eraseAddr % BlockWords = BlockWords - 1 THEN EmptyRow ELSE @]

\* An erase in progress ignores both start pulses; the engine's pulse has
\* priority over the register's.
EraseFsm(engnStart, crStart) ==
  /\ eraseWe' = IF eraseWe THEN ~EraseLast ELSE engnStart \/ crStart
  /\ eraseAddr' = IF eraseWe /\ ~EraseLast THEN eraseAddr + 1 ELSE 0
  /\ fullErase' = IF eraseWe THEN fullErase /\ ~EraseLast
                  ELSE crStart /\ ~engnStart
  /\ engnDone' = (EraseLast /\ ~fullErase)

\* An access during an erase or a write is dropped.
QualifiedEn == ~eraseWe /\ ~RamBusy

\* An erase takes the port from the second half of a write.
RamAccess(acc, ecc) ==
  /\ mem' = CASE eraseWe -> EraseWord
              [] ~eraseWe /\ ramP2.op = "WR" /\ ~ecc ->
                   [mem EXCEPT ![ramP2.set][ramP2.way] = ramP2.val]
              [] OTHER -> mem
  /\ ramP1' = CASE ~QualifiedEn -> NoAccess
                [] QualifiedEn /\ acc.op = "RD" ->
                     [op |-> "RD", row |-> mem[acc.set]]
                [] OTHER -> acc
  /\ ramP2' = ramP1

RamCycle(acc, ecc, engnStart, crStart) ==
  RamAccess(acc, ecc) /\ EraseFsm(engnStart, crStart)

RamInit ==
  /\ mem = [s \in Sets |-> EmptyRow]
  /\ ramP1 = NoAccess /\ ramP2 = NoAccess
  /\ eraseWe = FALSE /\ eraseAddr = 0 /\ fullErase = FALSE /\ engnDone = FALSE

\* The array is retained.
RamLpReset ==
  /\ ramP1' = NoAccess /\ ramP2' = NoAccess
  /\ eraseWe' = FALSE /\ eraseAddr' = 0 /\ fullErase' = FALSE
  /\ engnDone' = FALSE /\ UNCHANGED mem

RamTypeOK ==
  LET Lines == Blocks \cup {Unverified, NoData}
      Rows  == [Ways -> Lines]
      Stage == {NoAccess} \cup [op : {"RD"}, row : Rows]
                 \cup [op : {"WR"}, set : Sets, way : Ways, val : Lines]
  IN /\ mem \in [Sets -> Rows]
     /\ ramP1 \in Stage /\ ramP2 \in Stage
     /\ eraseWe \in BOOLEAN /\ eraseAddr \in 0 .. EraseEndAddr
     /\ fullErase \in BOOLEAN /\ engnDone \in BOOLEAN
=============================================================================
