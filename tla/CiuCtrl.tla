------------------------------ MODULE CiuCtrl ------------------------------
(***************************************************************************)
(* The Cache Interface Unit's control FSM, sinc_ciu_ctrl.sv, as built with *)
(* MPU_SINGLE_CYCLE = 0: it serves the CPU's reads and writes from the RAM *)
(* and asks the CMU for the blocks it misses.                              *)
(*                                                                         *)
(* The record variable ciu holds the flops; the input record c of a cycle  *)
(* holds the signals the FSM samples:                                      *)
(*   c.cpu, c.addr       "NONE", "RD" or "WR", and the block it addresses  *)
(*   c.mode, c.cmuBusy   cmu_sinc_state and cmu_busy                       *)
(*   c.fetchComp, c.fetchErr  the CMU's answer to a block request          *)
(*   c.eraseBusy         ext_mem_erase_busy                                *)
(*   c.hit, c.hitWay, c.parErr  the answer of the tag lookup               *)
(*   c.mpuVio            mpu_acc_vio for the access checked last cycle     *)
(*   c.rdataValid, c.ecc mem_ciu_rdata_valid and mem_err_uncorr            *)
(*   c.engnDone, c.syncReset  mem_ciu_engn_erase_done and sync_ciu_reset   *)
(***************************************************************************)
EXTENDS SincParams

VARIABLE ciu

CiuStates == {"IDLE", "MEM_READ", "WAIT", "CACHE_MISS", "RREAD",
              "MEM_WRITE", "EXTRA"}

\* rdErr stands for mpu_read_vio_r, vtag_parity_err_r and cmu_fetch_err_r,
\* which the FSM only ever uses together; mpuReq says that the access in
\* progress went through the MPU (req_en).
CiuType ==
  [sm : CiuStates, busy : BOOLEAN, addr : Blocks, sel : Ways,
   rdVld : BOOLEAN, fetchReq : BOOLEAN, memWrite : BOOLEAN,
   rdErr : BOOLEAN, extVio : BOOLEAN, otherErr : BOOLEAN,
   pendRd : BOOLEAN, pendWr : BOOLEAN, pendFail : BOOLEAN,
   mpuReq : BOOLEAN, syncErase : BOOLEAN, eraseBusy : BOOLEAN]

CiuReset(syncErase) ==
  [sm |-> "IDLE", busy |-> FALSE, addr |-> 0, sel |-> 0,
   rdVld |-> FALSE, fetchReq |-> FALSE, memWrite |-> FALSE,
   rdErr |-> FALSE, extVio |-> FALSE, otherErr |-> FALSE,
   pendRd |-> FALSE, pendWr |-> FALSE, pendFail |-> FALSE,
   mpuReq |-> FALSE, syncErase |-> syncErase, eraseBusy |-> FALSE]

-----------------------------------------------------------------------------
(* Combinational signals.                                                   *)

Active(c) == c.mode = "CACHE_ACTIVE"
Failed(c) == c.mode = "CACHE_FAILED"

\* mem_cpu_busy: the CPU presents an access only while it is low.
MemCpuBusy(c) ==
  ciu.busy \/ ciu.pendRd \/ ciu.pendWr \/ ciu.pendFail \/ c.cmuBusy

CpuReadUponEraseBusy(c)  == c.eraseBusy /\ (c.cpu = "RD" \/ ciu.pendRd)
CpuWriteUponEraseBusy(c) == c.eraseBusy /\ (c.cpu = "WR" \/ ciu.pendWr)
CpuAccessUponCacheFailed(c)  == c.cpu # "NONE" /\ Failed(c)
CpuWriteUponCacheActive(c)   == (c.cpu = "WR" \/ ciu.pendWr) /\ Active(c)

ValidCpuRead(c) ==
  /\ ciu.sm = "IDLE" /\ ~c.cmuBusy
  /\ ~CpuReadUponEraseBusy(c) /\ ~Failed(c)
  /\ c.cpu = "RD" \/ ciu.pendRd
ValidCpuWrite(c) ==
  /\ ciu.sm = "IDLE" /\ ~c.cmuBusy
  /\ ~CpuWriteUponEraseBusy(c) /\ ~Failed(c) /\ ~Active(c)
  /\ c.cpu = "WR" \/ ciu.pendWr

\* The access that is not valid and not merely waiting for the CMU.
Refused(c) ==
  \/ CpuAccessUponCacheFailed(c) \/ ciu.pendFail
  \/ CpuReadUponEraseBusy(c) \/ CpuWriteUponEraseBusy(c)
RefusedRead(c) == c.cpu = "RD" \/ (ciu.pendFail /\ ~ciu.pendWr) \/ ciu.pendRd

\* The address of the access served in IDLE: a pending one has kept it.
AccAddr(c) == IF ciu.pendRd \/ ciu.pendWr THEN ciu.addr ELSE c.addr

ReadRow(c) == IF ciu.sm = "RREAD" THEN ciu.addr ELSE AccAddr(c)
RamRead(c) == ValidCpuRead(c) \/ ciu.sm = "RREAD"

AccVio(c) == c.mpuVio \/ ciu.extVio

\* cpu_mem_write reaches the RAM with its byte enables.
CpuMemWrite(c) ==
  ciu.sm = "MEM_WRITE" /\ ~AccVio(c) /\ ~ciu.otherErr /\ ciu.memWrite

VtagComp(c) ==
  /\ Active(c)
  /\ \/ ciu.sm = "IDLE" /\ (c.cpu = "RD" \/ ciu.pendRd)
     \/ ciu.sm = "RREAD"
VtagUpd(c) == ciu.sm = "CACHE_MISS" /\ c.fetchComp /\ ~c.fetchErr

\* mem_cpu_read_err and mem_cpu_rdata_vld: the answers to a read.
MemCpuReadErr(c) ==
  /\ ciu.sm = "WAIT"
  /\ IF ciu.rdErr \/ ciu.otherErr \/ (c.eraseBusy /\ ~ciu.memWrite)
     THEN TRUE
     ELSE c.rdataValid # ciu.rdVld \/ (c.ecc /\ ciu.rdVld)
MemCpuRdataVld(c) == ciu.rdVld /\ ~MemCpuReadErr(c)

\* The engine erase a synchronous reset starts, and its acknowledgement.
EngnEraseStart == ciu.syncErase /\ ~ciu.eraseBusy
CiuResetCompleted(c) == ciu.eraseBusy /\ c.engnDone

-----------------------------------------------------------------------------
(* One operator per FSM state: the next value of the flops.  Pulse is the   *)
(* default: one-cycle flops low, the erase flag following its own logic.    *)

Pulse(c) ==
  [ciu EXCEPT !.rdVld = FALSE, !.fetchReq = FALSE, !.rdErr = FALSE,
              !.extVio = FALSE, !.mpuReq = FALSE, !.syncErase = FALSE,
              !.eraseBusy = ciu.syncErase \/ (@ /\ ~CiuResetCompleted(c))]

\* Mutant: a pending read is taken up and stays pending.
IdleRead_Mut(c) ==
  [Pulse(c) EXCEPT !.sm = "MEM_READ", !.busy = TRUE, !.addr = AccAddr(c),
                   !.mpuReq = TRUE]

IdleRead(c) ==
  [Pulse(c) EXCEPT !.sm = "MEM_READ", !.busy = TRUE, !.addr = AccAddr(c),
                   !.pendRd = FALSE, !.mpuReq = TRUE]

IdleWrite(c) ==
  [Pulse(c) EXCEPT !.sm = "MEM_WRITE", !.busy = TRUE, !.addr = AccAddr(c),
                   !.pendWr = FALSE, !.memWrite = TRUE, !.mpuReq = TRUE]

IdleRefuse(c) ==
  [Pulse(c) EXCEPT
     !.sm = IF RefusedRead(c) THEN "MEM_READ" ELSE "MEM_WRITE",
     !.busy = TRUE,
     !.extVio = CpuAccessUponCacheFailed(c) \/ ciu.pendFail,
     !.otherErr = IF RefusedRead(c) THEN CpuReadUponEraseBusy(c)
                  ELSE CpuWriteUponEraseBusy(c),
     !.pendRd = FALSE]

IdleActiveWrite(c) ==
  [Pulse(c) EXCEPT !.sm = "MEM_WRITE", !.busy = TRUE, !.extVio = TRUE]

CiuIdle(c) ==
  CASE ValidCpuRead(c) -> IdleRead(c)
    [] ~ValidCpuRead(c) /\ ValidCpuWrite(c) -> IdleWrite(c)
    [] ~ValidCpuRead(c) /\ ~ValidCpuWrite(c) /\ Refused(c) -> IdleRefuse(c)
    [] ~ValidCpuRead(c) /\ ~ValidCpuWrite(c) /\ ~Refused(c)
         /\ CpuWriteUponCacheActive(c) -> IdleActiveWrite(c)
    [] OTHER -> Pulse(c)

CiuMemRead(c) ==
  CASE AccVio(c) \/ ciu.otherErr \/ c.eraseBusy ->
         [Pulse(c) EXCEPT !.sm = "WAIT", !.busy = FALSE, !.rdErr = AccVio(c)]
    [] OTHER ->
       IF ~Active(c)
       THEN [Pulse(c) EXCEPT !.sm = "WAIT", !.rdVld = ~Failed(c),
                             !.sel = WayOf(ciu.addr)]
       ELSE CASE c.parErr -> [Pulse(c) EXCEPT !.sm = "WAIT", !.rdErr = TRUE]
              [] ~c.parErr /\ c.hit ->
                   [Pulse(c) EXCEPT !.sm = "WAIT", !.rdVld = TRUE,
                                    !.sel = c.hitWay]
              [] ~c.parErr /\ ~c.hit /\ c.cmuBusy ->
                   [Pulse(c) EXCEPT !.sm = "WAIT", !.busy = FALSE]
              [] OTHER ->
                   [Pulse(c) EXCEPT !.sm = "CACHE_MISS", !.fetchReq = TRUE,
                                    !.memWrite = TRUE]

\* The answer is given in WAIT; an access presented in this very cycle is kept
\* as pending, with its address unless the cache has failed.
CiuWait(c) ==
  LET failed == CpuAccessUponCacheFailed(c)
  IN [Pulse(c) EXCEPT
        !.sm = "IDLE", !.busy = FALSE, !.memWrite = FALSE,
        !.otherErr = FALSE,
        !.pendRd = @ \/ (c.cpu = "RD" /\ ~failed),
        !.pendWr = @ \/ c.cpu = "WR",
        !.pendFail = failed,
        !.addr = IF c.cpu # "NONE" /\ ~failed THEN c.addr ELSE @]

CiuCacheMiss(c) ==
  CASE c.fetchComp /\ c.fetchErr ->
         [Pulse(c) EXCEPT !.sm = "WAIT", !.rdErr = TRUE]
    [] c.fetchComp /\ ~c.fetchErr ->
         [Pulse(c) EXCEPT !.sm = "RREAD", !.memWrite = FALSE]
    [] OTHER -> Pulse(c)

CiuRRead(c) == [Pulse(c) EXCEPT !.sm = "MEM_READ"]

CiuMemWrite(c) ==
  IF AccVio(c) \/ ciu.otherErr
  THEN [Pulse(c) EXCEPT !.sm = "IDLE", !.busy = FALSE, !.memWrite = FALSE,
                        !.pendWr = FALSE, !.otherErr = FALSE,
                        !.pendFail = FALSE]
  ELSE [Pulse(c) EXCEPT !.sm = "EXTRA"]

CiuExtra(c) == [Pulse(c) EXCEPT !.sm = "WAIT"]

CiuNext(c) ==
  CASE ciu.sm = "IDLE"       -> CiuIdle(c)
    [] ciu.sm = "MEM_READ"   -> CiuMemRead(c)
    [] ciu.sm = "WAIT"       -> CiuWait(c)
    [] ciu.sm = "CACHE_MISS" -> CiuCacheMiss(c)
    [] ciu.sm = "RREAD"      -> CiuRRead(c)
    [] ciu.sm = "MEM_WRITE"  -> CiuMemWrite(c)
    [] ciu.sm = "EXTRA"      -> CiuExtra(c)

\* A synchronous reset wins over the FSM.
CiuCycle(c) == ciu' = IF c.syncReset THEN CiuReset(TRUE) ELSE CiuNext(c)

CiuInit == ciu = CiuReset(FALSE)
CiuLpReset == ciu' = CiuReset(FALSE)
CiuTypeOK == ciu \in CiuType
=============================================================================
