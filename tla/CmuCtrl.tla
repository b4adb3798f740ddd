------------------------------ MODULE CmuCtrl ------------------------------
(***************************************************************************)
(* The Cache Management Unit's control path: sinc_cmu_ctrl(_ret).sv, the   *)
(* command half of sinc_cmu_reg_ctrl(_ret).sv and the register-write       *)
(* checker sinc_cmu_axi_sub_checker.sv.                                    *)
(*                                                                         *)
(* One step of CmuCycle(in) is one clock cycle.  "in" is the record of the *)
(* signals the block samples in that cycle; the operators that take "in"   *)
(* are its combinational signals, the variables are its flops.             *)
(*                                                                         *)
(*   in.fetchReq, in.fetchAddr   ciu_block_fetch_req and the block address *)
(*   in.ciuComp                  ciu_reset_reinit_completed                *)
(*   in.cwComp, in.cwErr, in.cwSts   completion, error and status of the   *)
(*                               crypto wrapper ("NONE": no status update) *)
(*   in.seeded                   aes_seeded                                *)
(*   in.fault                    ciu_fault_err | c_wrap_fault_err |        *)
(*                               dma_fault_err                             *)
(*   in.fwWr                     the command of a register write presented *)
(*                               to the checker, "NO_WRITE" if none        *)
(*   in.fwRd                     the firmware reads the status register    *)
(***************************************************************************)
EXTENDS SincParams

VARIABLES
  sincState,   \* cmu_sinc_state, retained while lp_rstn is low
  resetDis,    \* sinc_reset_dis, retained
  reinitDis,   \* sinc_reinit_dis, retained
  cmuState,    \* control FSM state
  pendCmd,     \* pend_cmd_req: the command waiting for the AES seed
  fetchTrk,    \* fetch_block_state: a block fetch is being tracked
  ciuAddrQ,    \* ciu_addr_q: the block being fetched
  cWrapCompQ,  \* c_wrap_cmd_comp_q
  ciuCompQ,    \* ciu_reset_reinit_comp_q
  cmuSincReset,\* cmu_sinc_reset, the flopped soft reset
  severeErr,   \* severe_err
  hwFaultQ,    \* hw_fault_q
  faultPulse,  \* sinc_fault_err_pulse
  axiWr,       \* write accepted by the checker, one cycle from the register
  cmd,         \* the command register
  cmdWritten,  \* cmd_written
  cmdVldPass1, \* cmd_vld_pass_1
  invldPass1,  \* invld_cmd_err_pass_1
  stsInProg,   \* status.cmd_in_progress
  stsResult,   \* some result bit of the status register is set
  stsHwFault   \* status.sinc_hw_fault

retVars == <<sincState, resetDis, reinitDis>>
fsmVars == <<cmuState, pendCmd, fetchTrk, ciuAddrQ, cWrapCompQ, ciuCompQ,
             cmuSincReset, severeErr, hwFaultQ, faultPulse>>
regVars == <<axiWr, cmd, cmdWritten, cmdVldPass1, invldPass1,
             stsInProg, stsResult, stsHwFault>>
cmuVars == <<retVars, fsmVars, regVars>>

-----------------------------------------------------------------------------
(* sinc_pkg: modes, commands and states.  A control FSM state has the name  *)
(* of the command it executes.                                              *)

Modes == {"DISABLED", "INITIALIZATION", "CACHE_ACTIVE", "CACHE_FAILED"}

FwCmds == {"SET_INIT", "SET_CACHE_ACTIVE", "SINC_RESET", "SINC_REINIT",
           "ENCR_BLOCK", "DIS_RESET", "DIS_REINIT", "AES_TEST"}

\* What firmware can leave in the command register: "NONE" is zero, "BAD"
\* stands for every value with more than one bit set.
CmdValues == FwCmds \cup {"NONE", "BAD"}

CmuStates == FwCmds \cup {"SINC_IDLE", "FETCH_BLOCK", "AES_SEED"}

SevereSts    == {"KEY_FET_ERR", "CAC_BLK_R_ERR", "AUTH_TAG_CHK_ERR",
                 "AUTH_TAG_R_ERR", "RNG_SEED_ERR", "CAC_BLK_W_FET_BLK_ERR",
                 "AES_ERR"}
NonSevereSts == {"INV_CMD", "CAC_BLK_W_ENC_BLK_ERR", "AUTH_TAG_W_ERR"}
CWrapSts     == SevereSts \cup NonSevereSts \cup {"NONE"}

-----------------------------------------------------------------------------
(* Combinational signals.                                                   *)

\* Mutant: SINC_REINIT is accepted in INITIALIZATION too.
CmdStateOk_Mut ==
  CASE sincState = "DISABLED" ->
         cmd \in {"AES_TEST", "SET_INIT", "DIS_RESET", "DIS_REINIT", "NONE"}
    [] sincState = "INITIALIZATION" -> cmd \notin {"AES_TEST", "SET_INIT"}
    [] sincState = "CACHE_ACTIVE" ->
         cmd \in {"SINC_RESET", "SINC_REINIT", "DIS_RESET", "DIS_REINIT"}
    [] OTHER -> cmd = "SINC_RESET"

\* The modes in which the register block accepts a command.
CmdStateOk ==
  CASE sincState = "DISABLED" ->
         cmd \in {"AES_TEST", "SET_INIT", "DIS_RESET", "DIS_REINIT", "NONE"}
    [] sincState = "INITIALIZATION" ->
         cmd \in {"SET_CACHE_ACTIVE", "SINC_RESET", "ENCR_BLOCK", "DIS_RESET",
                  "DIS_REINIT"}
    [] sincState = "CACHE_ACTIVE" ->
         cmd \in {"SINC_RESET", "SINC_REINIT", "DIS_RESET", "DIS_REINIT"}
    [] OTHER -> cmd = "SINC_RESET"

\* The command handed to the control FSM: a checked command is dropped when a
\* block fetch request arrives in the same cycle.
RegCmdVld(in) == cmdVldPass1 /\ ~in.fetchReq
InvldCmdErr(in) == invldPass1 \/ (cmdVldPass1 /\ in.fetchReq)

FwCmd(in, c) == RegCmdVld(in) /\ cmd = c

\* The state SINC_IDLE moves to, in the priority order of its if-chain.
Dispatch(in) ==
  IF in.fetchReq THEN IF in.seeded THEN "FETCH_BLOCK" ELSE "AES_SEED"
  ELSE IF pendCmd = "FETCH_BLOCK" THEN "FETCH_BLOCK"
  ELSE IF FwCmd(in, "SET_INIT") THEN "SET_INIT"
  ELSE IF FwCmd(in, "SET_CACHE_ACTIVE") THEN "SET_CACHE_ACTIVE"
  ELSE IF FwCmd(in, "SINC_RESET")
       THEN IF resetDis THEN "SINC_IDLE" ELSE "SINC_RESET"
  ELSE IF FwCmd(in, "SINC_REINIT")
       THEN IF reinitDis THEN "SINC_IDLE" ELSE "SINC_REINIT"
  ELSE IF FwCmd(in, "ENCR_BLOCK") \/ (RegCmdVld(in) /\ pendCmd = "ENCR_BLOCK")
       THEN IF in.seeded THEN "ENCR_BLOCK" ELSE "AES_SEED"
  ELSE IF pendCmd = "ENCR_BLOCK" THEN "ENCR_BLOCK"
  ELSE IF FwCmd(in, "DIS_RESET") THEN "DIS_RESET"
  ELSE IF FwCmd(in, "DIS_REINIT") THEN "DIS_REINIT"
  ELSE IF FwCmd(in, "AES_TEST") THEN "AES_TEST"
  ELSE "SINC_IDLE"

Idle == cmuState = "SINC_IDLE"

\* A reset or re-init command that DIS_RESET or DIS_REINIT has turned off is
\* answered in SINC_IDLE itself.
Rejected(in) ==
  /\ Idle /\ Dispatch(in) = "SINC_IDLE"
  /\ FwCmd(in, "SINC_RESET") \/ FwCmd(in, "SINC_REINIT")

Starting(in) == Idle /\ Dispatch(in) # "SINC_IDLE"

ActiveCmd(in) == ~Idle \/ Starting(in) \/ Rejected(in)

AesTestBusy(in) == cmuState = "AES_TEST" \/ (Idle /\ Dispatch(in) = "AES_TEST")

\* stall_cpu_req: a dispatched seed stalls the CPU only for a block fetch.
StallStates == {"FETCH_BLOCK", "SET_CACHE_ACTIVE", "SINC_RESET",
                "SINC_REINIT", "DIS_RESET", "DIS_REINIT"}
\* Mutant: busy one cycle late.
CmuBusy_Mut(in) ==
  \/ cmuState \in StallStates
  \/ cmuState = "AES_SEED" /\ pendCmd = "FETCH_BLOCK"

CmuBusy(in) ==
  IF Idle
  THEN \/ in.fetchReq
       \/ Dispatch(in) \in StallStates
       \/ Rejected(in)
  ELSE cmuState \in StallStates
       \/ (cmuState = "AES_SEED" /\ pendCmd = "FETCH_BLOCK")

\* Mutant: SINC_REINIT is not passed on.
CmuCtrlCmd_Mut(in) ==
  IF Idle
  THEN IF Dispatch(in) \in {"FETCH_BLOCK", "SET_INIT", "SINC_RESET",
                            "ENCR_BLOCK", "AES_TEST", "AES_SEED"}
       THEN Dispatch(in) ELSE "NO_CMD"
  ELSE IF cmuState = "AES_TEST" /\ RegCmdVld(in) THEN cmd ELSE "NO_CMD"

\* The command sent to the crypto wrapper; "NO_CMD" when cmu_ctrl_cmd_vld is
\* low.  During AES_TEST firmware writes are forwarded.
CmuCtrlCmd(in) ==
  IF Idle
  THEN IF Dispatch(in) \in {"FETCH_BLOCK", "SET_INIT", "SINC_RESET",
                            "SINC_REINIT", "ENCR_BLOCK", "AES_TEST", "AES_SEED"}
       THEN Dispatch(in) ELSE "NO_CMD"
  ELSE IF cmuState = "AES_TEST" /\ RegCmdVld(in) THEN cmd ELSE "NO_CMD"

FetchBlockNum(in) == IF in.fetchReq THEN in.fetchAddr ELSE ciuAddrQ

AssertSoftReset(in) == Idle /\ Dispatch(in) = "SINC_RESET"
CmuSincReinit(in)   == Idle /\ Dispatch(in) = "SINC_REINIT"
SyncCiuReset(in)    == cmuSincReset \/ CmuSincReinit(in)

\* Mutant: one acknowledgement is enough.
BothAcks_Mut == cWrapCompQ \/ ciuCompQ

\* SINC_RESET and SINC_REINIT end when both units have acknowledged.
BothAcks == cWrapCompQ /\ ciuCompQ

\* Mutant: a fault does not end a tracked fetch.
FetchComp_MutFault(in) ==
  fetchTrk /\ cmuState = "FETCH_BLOCK" /\ in.cwComp

\* Mutant: a fetch that fails does not end.
FetchComp_MutErr(in) ==
  fetchTrk /\ (\/ cmuState = "FETCH_BLOCK" /\ in.cwComp /\ ~in.cwErr
               \/ in.fault \/ hwFaultQ)

FetchComp(in) ==
  fetchTrk /\ (\/ cmuState = "FETCH_BLOCK" /\ in.cwComp
               \/ in.fault \/ hwFaultQ)
FetchErr(in) ==
  fetchTrk /\ (\/ cmuState = "FETCH_BLOCK" /\ in.cwComp /\ in.cwErr
               \/ in.fault \/ hwFaultQ)

\* Mutant: the end of DIS_RESET and DIS_REINIT is not reported.
FwCmdSuc_Mut(in) ==
  \/ /\ cmuState \in {"SET_INIT", "ENCR_BLOCK", "AES_TEST"}
     /\ in.cwComp /\ ~in.cwErr
  \/ cmuState = "SET_CACHE_ACTIVE"
  \/ cmuState \in {"SINC_RESET", "SINC_REINIT"} /\ BothAcks

\* A command that ends with success / with any outcome in this cycle.
FwCmdSuc(in) ==
  \/ /\ cmuState \in {"SET_INIT", "ENCR_BLOCK", "AES_TEST"}
     /\ in.cwComp /\ ~in.cwErr
  \/ cmuState \in {"SET_CACHE_ACTIVE", "DIS_RESET", "DIS_REINIT"}
  \/ cmuState \in {"SINC_RESET", "SINC_REINIT"} /\ BothAcks
FwCmdDone(in) ==
  \/ FwCmdSuc(in)
  \/ cmuState \in {"SET_INIT", "ENCR_BLOCK", "AES_TEST"} /\ in.cwComp
  \/ cmuState = "AES_SEED" /\ in.cwComp /\ in.cwErr
  \/ Rejected(in)

\* Mutant: errors of the crypto wrapper do not update the status.
StsUpd_Mut(in) ==
  \/ Starting(in) \/ Rejected(in) \/ FwCmdSuc(in)
  \/ FetchComp(in) /\ (in.fault \/ hwFaultQ \/ ~in.cwErr)

\* cmu_ctrl_sts is the OR of three sources: the set of statuses driven.
StsUpd(in) ==
  \/ Starting(in) \/ Rejected(in) \/ FwCmdSuc(in)
  \/ in.cwSts # "NONE"
  \/ FetchComp(in) /\ (in.fault \/ hwFaultQ \/ ~in.cwErr)
StsOut(in) ==
  (IF Starting(in) THEN {"CMD_IN_PROG"} ELSE {})
    \cup (IF Rejected(in) THEN {"INV_CMD"} ELSE {})
    \cup (IF FwCmdSuc(in) THEN {"CMD_SUC"} ELSE {})
    \cup ({in.cwSts} \ {"NONE"})

SevereErrDin(in) == in.fault \/ \E s \in SevereSts : StsOut(in) = {s}

\* The error and done pulses to the security processor.
SincErrO(in) ==
  \/ severeErr \/ InvldCmdErr(in)
  \/ \E s \in NonSevereSts : StsOut(in) = {s}

\* Register writes pass the checker only while no command is active (or an
\* AES test is), and a command only once the previous status has been read.
StsUnread == stsInProg \/ stsResult \/ stsHwFault
ChkValidW(in) ==
  /\ ~ActiveCmd(in) \/ AesTestBusy(in)
  /\ ~StsUnread \/ AesTestBusy(in)

\* What the unit relies on: firmware has one register write in flight at a
\* time, and the CIU requests a block only in a state that hears it.
NoWriteInFlight ==
  axiWr = "NO_WRITE" /\ ~cmdWritten /\ ~cmdVldPass1 /\ ~invldPass1

FetchAllowed ==
  Idle /\ ~fetchTrk /\ pendCmd = "NONE"
    /\ sincState \in {"CACHE_ACTIVE", "CACHE_FAILED"}

-----------------------------------------------------------------------------
(* The mode register.  A requested mode takes effect only from the modes    *)
(* whose case arm tests the request; a severe error overrides every request.*)

\* Mutant: CACHE_FAILED grants INITIALIZATION.
ModeRequests_Mut(m) ==
  CASE m = "DISABLED"       -> {"INITIALIZATION"}
    [] m = "INITIALIZATION" -> {"CACHE_ACTIVE", "DISABLED"}
    [] OTHER                -> {"DISABLED", "INITIALIZATION"}

ModeRequests(m) ==
  CASE m = "DISABLED"       -> {"INITIALIZATION"}
    [] m = "INITIALIZATION" -> {"CACHE_ACTIVE", "DISABLED"}
    [] m = "CACHE_ACTIVE"   -> {"DISABLED", "INITIALIZATION"}
    [] OTHER                -> {"DISABLED"}

RequestMode(m) ==
  sincState' = IF severeErr THEN "CACHE_FAILED"
               ELSE IF m \in ModeRequests(sincState) THEN m
               ELSE sincState
KeepMode == RequestMode(sincState)

-----------------------------------------------------------------------------
(* The control FSM: one action per state.  A hardware fault sends it to     *)
(* SINC_IDLE whatever the state asks for.                                   *)

Goto(in, s) == cmuState' = IF in.fault THEN "SINC_IDLE" ELSE s

SincIdle(in) ==
  /\ Idle
  /\ Goto(in, Dispatch(in))
  /\ pendCmd' = CASE Dispatch(in) = "AES_SEED" ->
                       IF in.fetchReq THEN "FETCH_BLOCK" ELSE "ENCR_BLOCK"
                  [] pendCmd = "FETCH_BLOCK" /\ ~in.fetchReq -> "NONE"
                  [] pendCmd = "ENCR_BLOCK" /\ ~RegCmdVld(in)
                       /\ Dispatch(in) = "ENCR_BLOCK" -> "NONE"
                  [] OTHER -> pendCmd
  /\ cWrapCompQ' = FALSE /\ ciuCompQ' = FALSE
  /\ KeepMode
  /\ UNCHANGED <<resetDis, reinitDis>>

FetchBlock(in) ==
  /\ cmuState = "FETCH_BLOCK"
  /\ Goto(in, IF in.cwComp THEN "SINC_IDLE" ELSE cmuState)
  /\ KeepMode
  /\ UNCHANGED <<pendCmd, cWrapCompQ, ciuCompQ, resetDis, reinitDis>>

SetInit(in) ==
  /\ cmuState = "SET_INIT"
  /\ Goto(in, IF in.cwComp THEN "SINC_IDLE" ELSE cmuState)
  /\ IF in.cwComp /\ ~in.cwErr THEN RequestMode("INITIALIZATION") ELSE KeepMode
  /\ UNCHANGED <<pendCmd, cWrapCompQ, ciuCompQ, resetDis, reinitDis>>

SetCacheActive(in) ==
  /\ cmuState = "SET_CACHE_ACTIVE"
  /\ Goto(in, "SINC_IDLE")
  /\ RequestMode("CACHE_ACTIVE")
  /\ UNCHANGED <<pendCmd, cWrapCompQ, ciuCompQ, resetDis, reinitDis>>

\* Mutant: an acknowledgement is not remembered.
CollectAcks_Mut(in) == cWrapCompQ' = in.cwComp /\ ciuCompQ' = in.ciuComp

\* Both completion flops are set-dominant and cleared when the command ends.
CollectAcks(in) ==
  /\ cWrapCompQ' = (in.cwComp \/ (cWrapCompQ /\ ~BothAcks))
  /\ ciuCompQ'   = (in.ciuComp \/ (ciuCompQ /\ ~BothAcks))

SincReset(in) ==
  /\ cmuState = "SINC_RESET"
  /\ CollectAcks(in)
  /\ Goto(in, IF BothAcks THEN "SINC_IDLE" ELSE cmuState)
  /\ IF BothAcks THEN RequestMode("DISABLED") ELSE KeepMode
  /\ UNCHANGED <<pendCmd, resetDis, reinitDis>>

SincReinit(in) ==
  /\ cmuState = "SINC_REINIT"
  /\ CollectAcks(in)
  /\ Goto(in, IF BothAcks THEN "SINC_IDLE" ELSE cmuState)
  /\ IF BothAcks THEN RequestMode("INITIALIZATION") ELSE KeepMode
  /\ UNCHANGED <<pendCmd, resetDis, reinitDis>>

EncrBlock(in) ==
  /\ cmuState = "ENCR_BLOCK"
  /\ Goto(in, IF in.cwComp THEN "SINC_IDLE" ELSE cmuState)
  /\ KeepMode
  /\ UNCHANGED <<pendCmd, cWrapCompQ, ciuCompQ, resetDis, reinitDis>>

DisReset(in) ==
  /\ cmuState = "DIS_RESET"
  /\ resetDis' = TRUE
  /\ Goto(in, "SINC_IDLE")
  /\ KeepMode
  /\ UNCHANGED <<pendCmd, cWrapCompQ, ciuCompQ, reinitDis>>

DisReinit(in) ==
  /\ cmuState = "DIS_REINIT"
  /\ reinitDis' = TRUE
  /\ Goto(in, "SINC_IDLE")
  /\ KeepMode
  /\ UNCHANGED <<pendCmd, cWrapCompQ, ciuCompQ, resetDis>>

AesTest(in) ==
  /\ cmuState = "AES_TEST"
  /\ Goto(in, IF in.cwComp THEN "SINC_IDLE" ELSE cmuState)
  /\ KeepMode
  /\ UNCHANGED <<pendCmd, cWrapCompQ, ciuCompQ, resetDis, reinitDis>>

AesSeed(in) ==
  /\ cmuState = "AES_SEED"
  /\ Goto(in, IF in.cwComp THEN "SINC_IDLE" ELSE cmuState)
  /\ pendCmd' = IF in.cwComp /\ in.cwErr THEN "NONE" ELSE pendCmd
  /\ KeepMode
  /\ UNCHANGED <<cWrapCompQ, ciuCompQ, resetDis, reinitDis>>

ControlFsm(in) ==
  \/ SincIdle(in) \/ FetchBlock(in) \/ SetInit(in) \/ SetCacheActive(in)
  \/ SincReset(in) \/ SincReinit(in) \/ EncrBlock(in) \/ DisReset(in)
  \/ DisReinit(in) \/ AesTest(in) \/ AesSeed(in)

-----------------------------------------------------------------------------
(* The other flops of the block.                                            *)

\* Mutant: the fetched block is the next one.
FetchTracker_MutNext(in) ==
  /\ fetchTrk' = IF fetchTrk THEN ~FetchComp(in) ELSE in.fetchReq
  /\ ciuAddrQ' = IF in.fetchReq THEN in.fetchAddr + 1 ELSE ciuAddrQ

\* Mutant: the address is truncated when it is captured.
FetchTracker_MutCut(in) ==
  /\ fetchTrk' = IF fetchTrk THEN ~FetchComp(in) ELSE in.fetchReq
  /\ ciuAddrQ' = IF in.fetchReq THEN SetOf(in.fetchAddr) ELSE ciuAddrQ

FetchTracker(in) ==
  /\ fetchTrk' = IF fetchTrk THEN ~FetchComp(in) ELSE in.fetchReq
  /\ ciuAddrQ' = IF FetchComp(in) THEN 0
                 ELSE IF in.fetchReq THEN in.fetchAddr
                 ELSE ciuAddrQ

ErrorFlops(in) ==
  /\ severeErr' = SevereErrDin(in)
  /\ faultPulse' = (in.fault /\ ~hwFaultQ)
  /\ hwFaultQ' = (cmuState # "SINC_RESET" /\ (in.fault \/ hwFaultQ))
  /\ cmuSincReset' = AssertSoftReset(in)

\* A write takes one cycle from the checker to the register, one more to be
\* checked against the mode and one more to reach the control FSM.
CommandPipeline(in) ==
  /\ axiWr' = IF in.fwWr # "NO_WRITE" /\ ChkValidW(in) THEN in.fwWr
              ELSE "NO_WRITE"
  /\ cmd' = IF axiWr # "NO_WRITE" THEN axiWr
            ELSE IF FwCmdDone(in) \/ InvldCmdErr(in) THEN "NONE"
            ELSE cmd
  /\ cmdWritten' = (axiWr # "NO_WRITE")
  /\ LET ok == CmdStateOk /\ (~ActiveCmd(in) \/ AesTestBusy(in))
     IN /\ cmdVldPass1' = (cmdWritten /\ ok)
        /\ invldPass1'  = (cmdWritten /\ ~ok)

\* Result bits are loaded by every status update, set by an invalid command
\* and cleared by a read; in_progress is loaded only.
StatusRegister(in) ==
  /\ stsInProg' = IF faultPulse THEN FALSE
                  ELSE IF StsUpd(in) THEN "CMD_IN_PROG" \in StsOut(in)
                  ELSE stsInProg
  /\ stsResult' = IF StsUpd(in)
                  THEN StsOut(in) \ {"CMD_IN_PROG"} # {} \/ InvldCmdErr(in)
                  ELSE InvldCmdErr(in) \/ (stsResult /\ ~in.fwRd)
  /\ stsHwFault' = (faultPulse \/ (stsHwFault /\ ~in.fwRd))

CmuCycle(in) ==
  /\ ControlFsm(in)
  /\ FetchTracker(in)
  /\ ErrorFlops(in)
  /\ CommandPipeline(in)
  /\ StatusRegister(in)

-----------------------------------------------------------------------------
(* Resets: lp_rstn clears every flop that is not retained, rstn all.        *)

CmuInit ==
  /\ sincState = "DISABLED" /\ resetDis = FALSE /\ reinitDis = FALSE
  /\ cmuState = "SINC_IDLE" /\ pendCmd = "NONE"
  /\ fetchTrk = FALSE /\ ciuAddrQ = 0
  /\ cWrapCompQ = FALSE /\ ciuCompQ = FALSE /\ cmuSincReset = FALSE
  /\ severeErr = FALSE /\ hwFaultQ = FALSE /\ faultPulse = FALSE
  /\ axiWr = "NO_WRITE" /\ cmd = "NONE" /\ cmdWritten = FALSE
  /\ cmdVldPass1 = FALSE /\ invldPass1 = FALSE
  /\ stsInProg = FALSE /\ stsResult = FALSE /\ stsHwFault = FALSE

ClearedFlops ==
  /\ cmuState' = "SINC_IDLE" /\ pendCmd' = "NONE"
  /\ fetchTrk' = FALSE /\ ciuAddrQ' = 0
  /\ cWrapCompQ' = FALSE /\ ciuCompQ' = FALSE /\ cmuSincReset' = FALSE
  /\ severeErr' = FALSE /\ hwFaultQ' = FALSE /\ faultPulse' = FALSE
  /\ axiWr' = "NO_WRITE" /\ cmd' = "NONE" /\ cmdWritten' = FALSE
  /\ cmdVldPass1' = FALSE /\ invldPass1' = FALSE
  /\ stsInProg' = FALSE /\ stsResult' = FALSE /\ stsHwFault' = FALSE

\* Mutant: the retained flops are cleared as well.
CmuLpReset_Mut ==
  /\ ClearedFlops
  /\ sincState' = "DISABLED" /\ resetDis' = FALSE /\ reinitDis' = FALSE

CmuLpReset == ClearedFlops /\ UNCHANGED retVars

\* The type invariant: every flop holds a value of its type, and the fetch
\* address is a block of the external memory.
CmuTypeOK ==
  /\ sincState \in Modes /\ resetDis \in BOOLEAN /\ reinitDis \in BOOLEAN
  /\ cmuState \in CmuStates
  /\ pendCmd \in {"NONE", "FETCH_BLOCK", "ENCR_BLOCK"}
  /\ fetchTrk \in BOOLEAN /\ ciuAddrQ \in Blocks
  /\ cWrapCompQ \in BOOLEAN /\ ciuCompQ \in BOOLEAN
  /\ cmuSincReset \in BOOLEAN /\ severeErr \in BOOLEAN
  /\ hwFaultQ \in BOOLEAN /\ faultPulse \in BOOLEAN
  /\ axiWr \in CmdValues \cup {"NO_WRITE"} /\ cmd \in CmdValues
  /\ cmdWritten \in BOOLEAN /\ cmdVldPass1 \in BOOLEAN
  /\ invldPass1 \in BOOLEAN /\ stsInProg \in BOOLEAN
  /\ stsResult \in BOOLEAN /\ stsHwFault \in BOOLEAN

\* The modes a control FSM state may run in.  A severe error may fail the
\* cache under any running command.
ModesOf(s) ==
  CASE s \in {"SET_INIT", "AES_TEST"}           -> {"DISABLED"}
    [] s \in {"SET_CACHE_ACTIVE", "ENCR_BLOCK"} -> {"INITIALIZATION"}
    [] s \in {"FETCH_BLOCK", "SINC_REINIT"}     -> {"CACHE_ACTIVE"}
    [] s = "SINC_RESET" -> {"INITIALIZATION", "CACHE_ACTIVE"}
    [] s = "AES_SEED"   -> {"INITIALIZATION", "CACHE_ACTIVE"}
    [] OTHER -> Modes

\* A command executes only in a mode that allows it.  The mode is checked one
\* cycle before the dispatch and long before the command ends, and a fetch
\* request may slip in between (sinc_cmu_reg_ctrl cmd_vld_pass_1).
CommandRunsInItsMode ==
  sincState \in ModesOf(cmuState) \cup {"CACHE_FAILED"}

\* Once firmware has disabled SINC_RESET a failed cache stays failed, and once
\* it has disabled SINC_REINIT an active cache does not fall back to
\* INITIALIZATION; neither bit is ever cleared, low-power resets included.
DisablesAreFinal ==
  [][ /\ resetDis  => resetDis'  /\ (sincState = "CACHE_FAILED" =>
                                      sincState' = "CACHE_FAILED")
      /\ reinitDis => reinitDis' /\ (sincState = "CACHE_ACTIVE" =>
                                      sincState' # "INITIALIZATION")
    ]_cmuVars

LC == INSTANCE Lifecycle
        WITH mode <- sincState,
             op <- IF cmuState \in {"SET_INIT", "SET_CACHE_ACTIVE",
                                    "SINC_RESET", "SINC_REINIT",
                                    "DIS_RESET", "DIS_REINIT"}
                   THEN cmuState ELSE "NONE"

\* The CMU implements the abstract life cycle: the mode moves only along it,
\* each move made by the operation it belongs to, and neither the command
\* pipeline nor a fault, a fetch or a low-power reset adds a move of its own.
ImplementsLifecycle == LC!LcSpec

\* A tracked block fetch is being served: the FSM works on it, or will after
\* the seed, or a hardware fault is about to end it.  Otherwise nothing ever
\* answers the CIU and the CPU waits for ever.
TrackedFetchIsServed ==
  fetchTrk =>
    \/ hwFaultQ
    \/ cmuState = "FETCH_BLOCK"
    \/ pendCmd = "FETCH_BLOCK" /\ cmuState \in {"AES_SEED", "SINC_IDLE"}
=============================================================================
